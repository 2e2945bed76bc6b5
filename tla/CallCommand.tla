---------------------------- MODULE CallCommand ----------------------------
(* The application's call commands (internal/communication): StartCall,    *)
(* CallAction with hangup or reject, EndCall, and the complete snapshots    *)
(* they share coordinatorMu with.  A command is journalled under its        *)
(* request id before it may be dispatched, and is settled from what the     *)
(* agent answered and from what the next complete snapshot showed.          *)
(*                                                                          *)
(* A thread is a goroutine of the application that holds or waits for       *)
(* coordinatorMu.  The modem's calls live behind the agent; they outlive a  *)
(* crash of the application, as do the two tables (the journal and          *)
(* call_history).  Faults names what may go wrong in an instance; every     *)
(* fault is a way the code itself has of leaving the normal path.           *)
EXTENDS Naturals

CONSTANTS
  Starts,    \* request ids of StartCall
  Hangups,   \* request ids of CallAction chosen by a browser
  Calls,     \* calls of the modem
  Threads,   \* goroutines
  None,
  Faults     \* the faults this instance allows, a subset of AllFaults

AllFaults == {
  "crash",        \* the application stops between two steps
  "lost",         \* the agent's answer to a command does not arrive
  "late",         \* an unanswered hang-up still runs at the agent afterwards
  "garbled",      \* the receipt does not match the request
  "ghost",        \* the agent reports an error for a command it carried out
  "unseen",       \* no snapshot: the transport failed
  "refused",      \* no snapshot: the agent answered with an error code
  "unsaved",      \* the snapshot's transaction fails
  "quarantined",  \* two modems claim one subscription in a snapshot
  "unreconciled", \* committed, but media or recording reconciliation fails
  "unrecorded"}   \* the journal entry cannot be settled

ASSUME FaultsAssumption == Faults \subseteq AllFaults
ASSUME NamesAssumption ==
  /\ Starts \cap Hangups = {}
  /\ Starts \cap Calls = {}
  /\ Hangups \cap Calls = {}
  /\ None \notin Starts \cup Hangups \cup Calls \cup Threads

\* EndCall's request id is computed from the call: one id for each call,
\* named here by the call itself.
Commands == Starts \cup Hangups \cup Calls

Verdicts == {"completed", "failed", "indeterminate"}
Statuses == {"absent", "pending"} \cup Verdicts
PCs == {"idle", "lock", "ready", "await", "observe", "commit", "abort", "settle"}

\* What the running command makes of the next snapshot.
Reasons == {
  "plain",        \* nothing: a refresh without a command
  "placed",       \* StartCall looks for the call it was told of
  "resolve",      \* StartCall does not know whether there is a call
  "aborted",      \* StartCall ended the accepted call and gives up
  "uncommitted",  \* StartCall ends a call that got no row or no verdict
  "ended",        \* CallAction was told the call is over
  "missing"}      \* CallAction was told there is no such call

VARIABLES
  status,      \* modemdeck_hardware_commands.status by request id
  resource,    \* .resource_id: the call of a completed command
  dispatched,  \* how often a command has been sent to the agent (history)
  row,         \* call_history.phase by call: absent, open or closed
  boundTo,     \* call_history.request_id by call
  hidden,      \* whether committed snapshots left out a call that the modem
               \* listed: never, the last one now, or once (history)
  call,        \* the modem's calls: none, live or over
  origin,      \* the command that dialled a call (history)
  late,        \* calls with an unanswered hang-up still at the agent
  up,          \* the application is running
  owner,       \* the thread that holds coordinatorMu
  pc, key,     \* where a thread is, and the command it runs
  target,      \* the call its command is about
  snap,        \* the live calls of the snapshot it is committing
  why,         \* a reason, or at "settle" the verdict to record
  marked,      \* threads whose error wraps ErrStartCallOutcomeIndeterminate
  released     \* starts after which the HTTP layer released the reservation

journal == <<status, resource, dispatched>>
history == <<row, boundTo, hidden>>
modem == <<call, origin, late>>
thread == <<pc, key, target, snap, why>>
vars == <<journal, history, modem, up, owner, thread, marked, released>>

Live == {c \in Calls : call[c] = "live"}
-----------------------------------------------------------------------------
Init ==
  /\ status = [k \in Commands |-> "absent"]
  /\ resource = [k \in Commands |-> None]
  /\ dispatched = [k \in Commands |-> 0]
  /\ row = [c \in Calls |-> "absent"]
  /\ boundTo = [c \in Calls |-> None]
  /\ hidden = [c \in Calls |-> "never"]
  /\ call = [c \in Calls |-> "none"]
  /\ origin = [c \in Calls |-> None]
  /\ late = {}
  /\ up = TRUE
  /\ owner = None
  /\ pc = [t \in Threads |-> "idle"]
  /\ key = [t \in Threads |-> None]
  /\ target = [t \in Threads |-> None]
  /\ snap = [t \in Threads |-> {}]
  /\ why = [t \in Threads |-> "plain"]
  /\ marked = {}
  /\ released = {}

\* A thread moves on with a reason (at "settle": with the verdict).
Goto(t, place, reason) ==
  /\ pc' = [pc EXCEPT ![t] = place]
  /\ why' = [why EXCEPT ![t] = reason]

\* The deferred unlock of coordinatorMu and the return to the caller.
Return(t) ==
  /\ owner' = None
  /\ Goto(t, "idle", "plain")
  /\ key' = [key EXCEPT ![t] = None]
  /\ target' = [target EXCEPT ![t] = None]
  /\ snap' = [snap EXCEPT ![t] = {}]
  /\ marked' = marked \ {t}

\* Mutant: the marker is not looked at.
ReleaseAlways(t, retained) ==
  released' = IF key[t] \in Starts THEN released \cup {key[t]} ELSE released

\* StartCall returned an error: without the marker the HTTP layer releases
\* the outgoing reservation, with it the reservation waits for resolution.
ReleaseUnless(t, retained) ==
  released' = IF key[t] \in Starts /\ ~retained
                THEN released \cup {key[t]} ELSE released
-----------------------------------------------------------------------------
(* The journal.                                                             *)

\* Mutant: a command whose outcome is unknown runs again when it is repeated.
FreshAfterCrash(k) == status[k] \in {"absent", "indeterminate"}

\* beginCommand lets a command run only if it created the journal entry; a
\* completed one is replayed, any other is answered with a conflict.
Fresh(k) == status[k] = "absent"

Begin(t, k, c) ==
  /\ up
  /\ pc[t] = "idle"
  /\ Fresh(k)
  /\ status' = [status EXCEPT ![k] = "pending"]
  /\ key' = [key EXCEPT ![t] = k]
  /\ target' = [target EXCEPT ![t] = c]
  /\ Goto(t, "lock", "plain")
  /\ UNCHANGED <<resource, dispatched, history, modem, up, owner, snap,
                 marked, released>>

StartCall(t, k) == k \in Starts /\ Begin(t, k, None)

\* CallAction with hangup or reject, or EndCall when k is the call itself.
CallAction(t, k, c) ==
  /\ k \in Hangups \cup {c}
  /\ row[c] # "absent"
  /\ Begin(t, k, c)

\* A refresh: the periodic poll, a status change, a browser's request.
Poll(t) ==
  /\ up
  /\ pc[t] = "idle"
  /\ Goto(t, "lock", "plain")
  /\ UNCHANGED <<journal, history, modem, up, owner, key, target, snap,
                 marked, released>>

\* Mutant: only commands take coordinatorMu.
AcquirableByRefresh(t) == owner = None \/ key[t] = None

\* coordinatorMu is free.
Acquirable(t) == owner = None

Acquire(t) ==
  /\ pc[t] = "lock"
  /\ Acquirable(t)
  /\ owner' = t
  /\ Goto(t, IF key[t] = None THEN "observe" ELSE "ready", "plain")
  /\ UNCHANGED <<journal, history, modem, up, key, target, snap, marked,
                 released>>

\* Nothing was sent: no agent control lease, the caller went away, the
\* prepared audio is not ready, or the call could not be loaded.
FailLocal(t) ==
  /\ pc[t] = "ready"
  /\ Goto(t, "settle", "failed")
  /\ UNCHANGED <<journal, history, modem, up, owner, key, target, snap,
                 marked, released>>

\* The call ended while the command waited for the coordinator.
AlreadyOver(t) ==
  /\ pc[t] = "ready"
  /\ key[t] \notin Starts
  /\ row[target[t]] = "closed"
  /\ Goto(t, "settle", "completed")
  /\ UNCHANGED <<journal, history, modem, up, owner, key, target, snap,
                 marked, released>>

\* The command leaves for the agent.
Dispatch(t) ==
  /\ pc[t] = "ready"
  /\ key[t] \notin Starts => row[target[t]] = "open"
  /\ dispatched' = [dispatched EXCEPT ![key[t]] = @ + 1]
  /\ Goto(t, "await", "plain")
  /\ UNCHANGED <<status, resource, history, modem, up, owner, key, target,
                 snap, marked, released>>
-----------------------------------------------------------------------------
(* The agent, and the answer it gives to the waiting thread.  The provider  *)
(* runs one command or snapshot at a time, also when the application has    *)
(* stopped waiting, so a dial is over before the next snapshot is taken.    *)

\* What StartCall does with the answer to a dial that made call c.
DialAnswer(t, c) ==
  \/ /\ Goto(t, "observe", "placed")
     /\ target' = [target EXCEPT ![t] = c]
  \/ /\ "garbled" \in Faults                  \* the receipt names the call
     /\ Goto(t, "abort", "aborted")
     /\ target' = [target EXCEPT ![t] = c]
  \/ /\ "garbled" \in Faults                  \* or names none
     /\ Goto(t, "observe", "aborted")
     /\ target' = [target EXCEPT ![t] = c]
  \/ /\ "lost" \in Faults
     /\ Goto(t, "observe", "resolve")
     /\ UNCHANGED target
  \/ /\ "ghost" \in Faults
     /\ Goto(t, "settle", "failed")
     /\ UNCHANGED target

Dial(t, c) ==
  /\ pc[t] = "await"
  /\ key[t] \in Starts
  /\ call[c] = "none"
  /\ call' = [call EXCEPT ![c] = "live"]
  /\ origin' = [origin EXCEPT ![c] = key[t]]
  /\ DialAnswer(t, c)
  /\ UNCHANGED <<journal, history, late, up, owner, key, snap, marked,
                 released>>

\* The agent refuses: the line is busy, gone or cannot dial, or the call it
\* placed could not be verified and was rolled back.
Refuse(t) ==
  /\ pc[t] = "await"
  /\ key[t] \in Starts
  /\ Goto(t, "settle", "failed")
  /\ UNCHANGED <<journal, history, modem, up, owner, key, target, snap,
                 marked, released>>

\* The dial never reached the agent.
DialLost(t) ==
  /\ "lost" \in Faults
  /\ pc[t] = "await"
  /\ key[t] \in Starts
  /\ Goto(t, "observe", "resolve")
  /\ UNCHANGED <<journal, history, modem, up, owner, key, target, snap,
                 marked, released>>

\* The agent verified that the call is over.
HangUp(t) ==
  /\ pc[t] = "await"
  /\ key[t] \notin Starts
  /\ call[target[t]] = "live"
  /\ call' = [call EXCEPT ![target[t]] = "over"]
  /\ \/ Goto(t, "observe", "ended")
     \/ /\ {"garbled", "lost"} \cap Faults # {}
        /\ Goto(t, "settle", "indeterminate")
     \/ "ghost" \in Faults /\ Goto(t, "settle", "failed")
  /\ UNCHANGED <<journal, history, origin, late, up, owner, key, target,
                 snap, marked, released>>

\* The agent could not end the call and said so.
HangUpFails(t) ==
  /\ pc[t] = "await"
  /\ key[t] \notin Starts
  /\ call[target[t]] = "live"
  /\ Goto(t, "settle", "failed")
  /\ UNCHANGED <<journal, history, modem, up, owner, key, target, snap,
                 marked, released>>

\* The call is over at the agent: not_found, or a conflict while the modem
\* still lists the terminated call.
Gone(t) ==
  /\ pc[t] = "await"
  /\ key[t] \notin Starts
  /\ call[target[t]] = "over"
  /\ Goto(t, "observe", "missing") \/ Goto(t, "settle", "failed")
  /\ UNCHANGED <<journal, history, modem, up, owner, key, target, snap,
                 marked, released>>

\* A hang-up that was not answered may still be waiting at the agent, whose
\* handler detaches it from the request.
Leftover(t) ==
  \/ UNCHANGED late
  \/ "late" \in Faults /\ late' = late \cup {target[t]}

HangUpLost(t) ==
  /\ "lost" \in Faults
  /\ pc[t] = "await"
  /\ key[t] \notin Starts
  /\ Leftover(t)
  /\ Goto(t, "settle", "indeterminate")
  /\ UNCHANGED <<journal, history, call, origin, up, owner, key, target,
                 snap, marked, released>>

LateHangUp(c) ==
  /\ c \in late
  /\ late' = late \ {c}
  /\ call' = [call EXCEPT ![c] = "over"]
  /\ UNCHANGED <<journal, history, origin, up, owner, thread, marked,
                 released>>

\* An incoming call, or one dialled by other means.
Incoming(c) ==
  /\ call[c] = "none"
  /\ call' = [call EXCEPT ![c] = "live"]
  /\ UNCHANGED <<journal, history, origin, late, up, owner, thread, marked,
                 released>>

\* The remote party or the network ends a call.
EndsByItself(c) ==
  /\ call[c] = "live"
  /\ call' = [call EXCEPT ![c] = "over"]
  /\ UNCHANGED <<journal, history, origin, late, up, owner, thread, marked,
                 released>>
-----------------------------------------------------------------------------
(* The snapshot after a command, and what the command makes of it.          *)

\* Mutant: a complete snapshot without a bound call is taken for a failure.
OutcomeAssumed(t) ==
  CASE why[t] \in {"placed", "ended"} -> "completed"
    [] why[t] = "resolve" -> "failed"
    [] why[t] = "aborted" -> "indeterminate"
    [] OTHER -> IF row'[target[t]] = "closed" THEN "completed" ELSE "failed"

\* What a command learns from a committed snapshot.
Outcome(t) ==
  CASE why[t] \in {"placed", "ended"} -> "completed"
    [] why[t] \in {"resolve", "aborted"} -> "indeterminate"
    [] OTHER -> IF row'[target[t]] = "closed" THEN "completed" ELSE "failed"

\* The call a StartCall was told of has no row although its snapshot is
\* committed: its line is quarantined, and StartCall ends it.
Unloadable(t) == why[t] = "placed" /\ row'[target[t]] = "absent"

Refreshed(t) ==
  \/ why[t] = "plain" /\ Return(t)
  \/ /\ Unloadable(t)
     /\ Goto(t, "abort", "uncommitted")
     /\ UNCHANGED <<owner, key, target, snap, marked>>
  \/ /\ why[t] # "plain" /\ ~Unloadable(t)
     /\ Goto(t, "settle", Outcome(t))
     /\ UNCHANGED <<owner, key, target, snap, marked>>

\* Mutant: the agent's word that a call ended is enough.
UnrefreshedButEnded(t, coded) ==
  \/ why[t] = "plain" /\ Return(t)
  \/ /\ why[t] = "placed"
     /\ Goto(t, "abort", "uncommitted")
     /\ UNCHANGED <<owner, key, target, snap, marked>>
  \/ /\ why[t] \notin {"plain", "placed"}
     /\ Goto(t, "settle", IF why[t] = "ended"
                            THEN "completed" ELSE "indeterminate")
     /\ marked' = IF why[t] \in {"resolve", "aborted"}
                    THEN marked \cup {t} ELSE marked
     /\ UNCHANGED <<owner, key, target, snap>>

\* There is no committed, reconciled snapshot.  A StartCall that does not
\* know its outcome marks its error; if the failure carries an agent error
\* code, finishFailedCommand takes that code for the answer to the command.
Unrefreshed(t, coded) ==
  \/ why[t] = "plain" /\ Return(t)
  \/ /\ why[t] = "placed"
     /\ Goto(t, "abort", "uncommitted")
     /\ UNCHANGED <<owner, key, target, snap, marked>>
  \/ /\ why[t] \notin {"plain", "placed"}
     /\ Goto(t, "settle", IF why[t] = "resolve" /\ coded
                            THEN "failed" ELSE "indeterminate")
     /\ marked' = IF why[t] \in {"resolve", "aborted"}
                    THEN marked \cup {t} ELSE marked
     /\ UNCHANGED <<owner, key, target, snap>>

\* The accepted call is not among the live calls: StartCall ends it.
Unconfirmed(t) == why[t] = "placed" /\ target[t] \notin Live

Observe(t) ==
  /\ pc[t] = "observe"
  /\ IF Unconfirmed(t)
       THEN /\ Goto(t, "abort", "aborted")
            /\ UNCHANGED snap
       ELSE /\ Goto(t, "commit", why[t])
            /\ snap' = [snap EXCEPT ![t] = Live]
  /\ UNCHANGED <<journal, history, modem, up, owner, key, target, marked,
                 released>>

\* The agent gave no complete snapshot.
Unobserved(t) ==
  /\ pc[t] = "observe"
  /\ {"unseen", "refused"} \cap Faults # {}
  /\ IF why[t] = "placed"
       THEN /\ Goto(t, "abort", "aborted")
            /\ UNCHANGED <<owner, key, target, snap, marked>>
       ELSE \/ "unseen" \in Faults /\ Unrefreshed(t, FALSE)
            \/ "refused" \in Faults /\ Unrefreshed(t, TRUE)
  /\ UNCHANGED <<journal, history, modem, up, released>>

\* Mutant: rows that the snapshot does not mention are left alone.
ProjectedListed(s, listed) ==
  [c \in Calls |->
     CASE c \in s -> "open"
       [] c \notin s /\ c \in listed -> "closed"
       [] OTHER -> row[c]]

\* call_history after the calls s of a snapshot: every call in s is open,
\* also one whose row was closed (its ended_at stays, and ActiveCalls leaves it
\* out), and every other row is closed.  The modem may list a call that is
\* over for a while: that call gets a closed row.
Projected(s, listed) ==
  [c \in Calls |->
     CASE c \in s -> "open"
       [] c \notin s /\ (row[c] # "absent" \/ c \in listed) -> "closed"
       [] OTHER -> "absent"]

\* The request id is stored only by the insert of a row, and only for the
\* call of the StartCall whose snapshot this is.
Bound(t) ==
  IF why[t] = "placed" /\ row[target[t]] = "absent" /\ ~Unloadable(t)
    THEN [boundTo EXCEPT ![target[t]] = key[t]]
    ELSE boundTo

\* quarantineDuplicateSubscriptionAttachments: where modems claim the same
\* subscription, the calls of every line but the winner's are taken out of
\* the snapshot; without a winner, the calls of all these lines.
Quarantines(t) == IF "quarantined" \in Faults THEN SUBSET snap[t] ELSE {{}}

HiddenBy(dropped) ==
  [c \in Calls |-> IF c \in dropped THEN "now"
                   ELSE IF hidden[c] = "never" THEN "never" ELSE "once"]

\* The quarantine, one transaction, then the reconciliation of media and
\* recordings.
Commit(t) ==
  /\ pc[t] = "commit"
  /\ \E dropped \in Quarantines(t),
        listed \in SUBSET {c \in Calls : call[c] = "over"} :
       /\ row' = Projected(snap[t] \ dropped, listed)
       /\ hidden' = HiddenBy(dropped)
  /\ boundTo' = Bound(t)
  /\ \/ Refreshed(t)
     \/ "unreconciled" \in Faults /\ Unrefreshed(t, FALSE)
  /\ UNCHANGED <<journal, modem, up, released>>

CommitFails(t) ==
  /\ "unsaved" \in Faults
  /\ pc[t] = "commit"
  /\ Unrefreshed(t, FALSE)
  /\ UNCHANGED <<journal, history, modem, up, released>>

\* terminateEndpointCall: one hang-up, whose answer decides nothing.  After
\* a failed commit, or without a row, StartCall returns here and leaves its
\* entry pending.
AfterTermination(t) ==
  \/ /\ why[t] = "aborted"
     /\ Goto(t, "observe", "aborted")
     /\ UNCHANGED <<owner, key, target, snap, marked, released>>
  \/ /\ why[t] = "uncommitted"
     /\ Return(t)
     /\ ReleaseUnless(t, FALSE)

Terminate(t) ==
  /\ pc[t] = "abort"
  /\ call' = [call EXCEPT ![target[t]] = "over"]
  /\ AfterTermination(t)
  /\ UNCHANGED <<journal, history, origin, late, up>>

TerminateFails(t) ==
  /\ pc[t] = "abort"
  /\ Leftover(t)
  /\ AfterTermination(t)
  /\ UNCHANGED <<journal, history, call, origin, up>>

\* FinishHardwareCommand, and the return.
Settle(t) ==
  /\ pc[t] = "settle"
  /\ status[key[t]] = "pending"
  /\ status' = [status EXCEPT ![key[t]] = why[t]]
  /\ resource' = [resource EXCEPT ![key[t]] =
                    IF why[t] = "completed" THEN target[t] ELSE @]
  /\ Return(t)
  /\ ReleaseUnless(t, why[t] = "completed" \/ t \in marked)
  /\ UNCHANGED <<dispatched, history, modem, up>>

\* The journal cannot be written.  A StartCall that placed its call ends it;
\* one that was never answered returns the journal's error alone, without
\* the marker, and one that ended an accepted call returns both.
SettleFails(t) ==
  /\ "unrecorded" \in Faults
  /\ pc[t] = "settle"
  /\ \/ /\ key[t] \in Starts /\ why[t] = "completed"
        /\ Goto(t, "abort", "uncommitted")
        /\ UNCHANGED <<owner, key, target, snap, marked, released>>
     \/ /\ ~(key[t] \in Starts /\ why[t] = "completed")
        /\ Return(t)
        /\ ReleaseUnless(t, t \in marked /\ target[t] # None)
  /\ UNCHANGED <<journal, history, modem, up>>
-----------------------------------------------------------------------------
(* Crash and restart.  Threads and the mutex are lost, tables and modem     *)
(* stay; a hang-up being waited for may still be at the agent.  A dial that *)
(* the agent was carrying out is Dial followed by Crash.                    *)
Crash ==
  /\ "crash" \in Faults
  /\ up
  /\ up' = FALSE
  /\ owner' = None
  /\ pc' = [t \in Threads |-> "idle"]
  /\ key' = [t \in Threads |-> None]
  /\ target' = [t \in Threads |-> None]
  /\ snap' = [t \in Threads |-> {}]
  /\ why' = [t \in Threads |-> "plain"]
  /\ marked' = {}
  /\ LET unanswered == {t \in Threads : \/ pc[t] = "await" /\ key[t] \notin Starts
                                        \/ pc[t] = "abort"}
     IN  \E sent \in SUBSET unanswered :
           /\ sent # {} => "late" \in Faults
           /\ late' = late \cup {target[t] : t \in sent}
  /\ UNCHANGED <<journal, history, call, origin, released>>

\* Mutant: pending entries are left as they are.
RestartForgets ==
  /\ ~up
  /\ up' = TRUE
  /\ UNCHANGED <<journal, history, modem, owner, thread, marked, released>>

\* RecoverInterruptedCommunicationOperations runs before anything else.
Restart ==
  /\ ~up
  /\ up' = TRUE
  /\ status' = [k \in Commands |->
                  IF status[k] = "pending" THEN "indeterminate" ELSE status[k]]
  /\ UNCHANGED <<resource, dispatched, history, modem, owner, thread, marked,
                 released>>

\* The steps of a thread that holds coordinatorMu, and the agent's answers.
Run(t) ==
  \/ FailLocal(t) \/ AlreadyOver(t) \/ Dispatch(t)
  \/ (\E c \in Calls : Dial(t, c)) \/ Refuse(t) \/ DialLost(t)
  \/ HangUp(t) \/ HangUpFails(t) \/ Gone(t) \/ HangUpLost(t)
  \/ Observe(t) \/ Unobserved(t) \/ Commit(t) \/ CommitFails(t)
  \/ Terminate(t) \/ TerminateFails(t) \/ Settle(t) \/ SettleFails(t)

Next ==
  \/ \E t \in Threads :
       \/ \E k \in Commands : StartCall(t, k)
       \/ \E k \in Commands, c \in Calls : CallAction(t, k, c)
       \/ Poll(t)
       \/ Acquire(t)
       \/ Run(t)
  \/ \E c \in Calls : LateHangUp(c) \/ Incoming(c) \/ EndsByItself(c)
  \/ Crash
  \/ Restart

Spec == Init /\ [][Next]_vars
-----------------------------------------------------------------------------
(* Invariants                                                               *)

TypeOK ==
  /\ status \in [Commands -> Statuses]
  /\ resource \in [Commands -> Calls \cup {None}]
  /\ dispatched \in [Commands -> Nat]
  /\ row \in [Calls -> {"absent", "open", "closed"}]
  /\ boundTo \in [Calls -> Starts \cup {None}]
  /\ hidden \in [Calls -> {"never", "now", "once"}]
  /\ call \in [Calls -> {"none", "live", "over"}]
  /\ origin \in [Calls -> Starts \cup {None}]
  /\ late \subseteq Calls
  /\ up \in BOOLEAN
  /\ owner \in Threads \cup {None}
  /\ pc \in [Threads -> PCs]
  /\ key \in [Threads -> Commands \cup {None}]
  /\ target \in [Threads -> Calls \cup {None}]
  /\ snap \in [Threads -> SUBSET Calls]
  /\ why \in [Threads -> Reasons \cup Verdicts]
  /\ marked \subseteq Threads
  /\ released \subseteq Starts

Dialled(k) == \E c \in Calls : origin[c] = k

\* coordinatorMu: one thread beyond "lock", and none without the application.
Exclusive ==
  /\ \A t \in Threads : (pc[t] \notin {"idle", "lock"}) <=> (owner = t)
  /\ ~up => \A t \in Threads : pc[t] = "idle"

\* A thread with a command works on a pending journal entry of its own.
Owned ==
  /\ \A t \in Threads : key[t] # None => status[key[t]] = "pending"
  /\ \A t, u \in Threads : key[t] = key[u] /\ key[t] # None => t = u

\* Which command may be where, for which reason, about which call.
Placed(t) == \/ why[t] \in {"placed", "aborted", "uncommitted"}
             \/ why[t] = "completed"

Shape ==
  \A t \in Threads :
    /\ pc[t] = "idle" => key[t] = None
    /\ pc[t] \in {"ready", "await", "abort", "settle"} => key[t] # None
    /\ pc[t] \in {"idle", "lock", "ready", "await"} => why[t] = "plain"
    /\ pc[t] = "abort" => why[t] \in {"aborted", "uncommitted"}
    /\ (pc[t] = "settle") <=> (why[t] \in Verdicts)
    /\ pc[t] \in {"observe", "commit"} =>
         /\ why[t] # "uncommitted"
         /\ (why[t] = "plain") <=> (key[t] = None)
    /\ why[t] \in {"placed", "resolve", "aborted", "uncommitted"} =>
         key[t] \in Starts
    /\ why[t] \in {"ended", "missing"} => key[t] \notin Starts
    /\ key[t] \in Starts /\ Placed(t) => target[t] \in Calls
    /\ key[t] # None /\ key[t] \notin Starts =>
         target[t] \in Calls /\ row[target[t]] # "absent"

\* A command is sent once, after its entry was made, and dials one call.
Sent ==
  /\ \A k \in Commands :
       /\ dispatched[k] \in {0, 1}
       /\ status[k] = "absent" => dispatched[k] = 0
       /\ dispatched[k] = 0 => ~Dialled(k)
  /\ \A t \in Threads :
       /\ key[t] # None /\ pc[t] \in {"lock", "ready"} => dispatched[key[t]] = 0
       /\ pc[t] = "await" => dispatched[key[t]] = 1
       /\ key[t] \in Starts /\ pc[t] = "await" => ~Dialled(key[t])
  /\ \A c \in Calls : call[c] = "none" => origin[c] = None
  /\ \A c, d \in Calls : origin[c] = origin[d] /\ origin[c] # None => c = d

\* A call's row is never closed while the modem has the call, except while
\* the last committed snapshot left the call out because its subscription is
\* claimed twice.  A snapshot taken before a change may only be committed
\* before the next one is taken (refreshLocked and every command hold
\* coordinatorMu around both).
RowsTruthful ==
  \A c \in Calls :
    /\ row[c] = "closed" => call[c] = "over" \/ hidden[c] = "now"
    /\ row[c] = "open" => call[c] # "none"
    /\ boundTo[c] # None => row[c] # "absent" /\ origin[c] = boundTo[c]

\* Only a call that the modem listed is left out, and it has no open row.
HiddenCalls ==
  \A c \in Calls :
    /\ hidden[c] # "never" => call[c] # "none"
    /\ hidden[c] = "now" => row[c] # "open"

\* The snapshot being committed is newer than every row.
Recent ==
  \A t \in Threads : pc[t] = "commit" =>
    \A c \in Calls :
      /\ c \in snap[t] => /\ call[c] # "none"
                          /\ row[c] = "closed" => hidden[c] = "now"
      /\ c \notin snap[t] /\ (row[c] = "open" \/ hidden[c] = "now") =>
           call[c] = "over"

\* What a running command has established about its call.
Established ==
  \A t \in Threads :
    /\ key[t] \in Starts /\ Placed(t) => origin[target[t]] = key[t]
    /\ why[t] = "placed" => row[target[t]] = "absent"
    /\ why[t] = "placed" /\ pc[t] = "commit" => target[t] \in snap[t]
    /\ why[t] = "completed" /\ key[t] \in Starts =>
         boundTo[target[t]] = key[t]
    /\ why[t] \in {"ended", "missing"} => call[target[t]] = "over"
    /\ why[t] \in {"ended", "missing"} /\ pc[t] = "commit" =>
         target[t] \notin snap[t]
    /\ why[t] = "completed" /\ key[t] \notin Starts =>
         row[target[t]] = "closed"

\* What the journal calls completed is so in call_history: a start has its
\* call, bound to its request id; a hang-up's call has a closed row, and if
\* that is open again a quarantine had closed it.  (RowsTruthful says when a
\* call with a closed row is over.)
CompletedIsTrue ==
  \A k \in Commands : status[k] = "completed" =>
    /\ resource[k] \in Calls
    /\ k \in Starts => boundTo[resource[k]] = k
    /\ k \notin Starts => \/ row[resource[k]] = "closed"
                         \/ /\ row[resource[k]] = "open"
                            /\ hidden[resource[k]] # "never"

IInv ==
  /\ TypeOK
  /\ Exclusive
  /\ Owned
  /\ Shape
  /\ Sent
  /\ RowsTruthful
  /\ HiddenCalls
  /\ Recent
  /\ Established
  /\ CompletedIsTrue

\* A start that the journal calls failed made no call, so that its user may
\* safely dial again (service_test.go:836-873, message at service.go:2426).
FailedIsNotPlaced ==
  \A k \in Starts : status[k] = "failed" => ~Dialled(k)

\* When StartCall's error lets the HTTP layer release the reservation, a call
\* that was dialled is over or has an open row to be found and ended by
\* (docs/call-ownership-and-convergence.md:155-157), unless a committed
\* snapshot left it out because its subscription is claimed twice: the row
\* that closed keeps its ended_at, and ActiveCalls does not list it again.
ReleasedIsResolved ==
  \A c \in Calls :
    origin[c] \in released /\ call[c] = "live" /\ hidden[c] = "never" =>
      row[c] = "open"

\* A start whose call was left out of its own snapshot: it was told to end
\* the call, and its entry waits for the next restart.
Stranded(k) ==
  \E c \in Calls : origin[c] = k /\ boundTo[c] = None /\ hidden[c] # "never"

\* "The same command is already in progress" is true when it is answered: a
\* pending entry has a thread that works on it, or is a stranded start's.
PendingMeansRunning ==
  \A k \in Commands :
    status[k] = "pending" /\ up =>
      (\E t \in Threads : key[t] = k) \/ Stranded(k)

-----------------------------------------------------------------------------
(* The journal, for a reader who sees only it                               *)

Journal == INSTANCE CommandJournal WITH sends <- dispatched

\* No command is dispatched before it is journalled, twice, or again after a
\* crash, a timeout or a replay; a verdict is never revised.
ImplementsJournal == Journal!Spec

-----------------------------------------------------------------------------
(* Liveness                                                                 *)

\* Contexts bound every wait for the agent or the database, Go's mutexes
\* starve nobody, the poll loop goes on, the agent and the database do not
\* fail every time, and a stopped application is started again.
Fairness ==
  /\ WF_vars(Restart)
  /\ \A t \in Threads :
       /\ SF_vars(Poll(t)) /\ SF_vars(Acquire(t))
       /\ SF_vars(Observe(t)) /\ SF_vars(Commit(t))
       /\ WF_vars(Run(t))

FairSpec == Spec /\ Fairness

\* Every command gets a verdict, even if only "indeterminate" after a crash;
\* a stranded start gets it from the next restart, if there is one.
CommandsSettle ==
  \A k \in Commands :
    status[k] = "pending" ~> status[k] \in Verdicts \/ Stranded(k)

\* A call that ended is shown as ended.
RowsConverge ==
  \A c \in Calls : call[c] = "over" /\ row[c] = "open" ~> row[c] = "closed"
=============================================================================
