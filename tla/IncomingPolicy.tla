--------------------------- MODULE IncomingPolicy ---------------------------
(***************************************************************************)
(* Incoming calls of one line and the policy for them                      *)
(* (store/call_policies.go, the calls of store/hardware.go and             *)
(* communication/service.go).  A snapshot that shows a new ringing call    *)
(* decides in the same transaction: a notification, or an action that      *)
(* rejects the call.  Actions are claimed and executed after the commit,   *)
(* still under the coordinator's lock, which answering a call takes too.   *)
(* A snapshot with the revision of the last only closes calls it misses:   *)
(* none, as its calls are the last one's.                                  *)
(***************************************************************************)
EXTENDS Naturals, FiniteSets

CONSTANTS
  RingingCalls,
  Limit,      \* maxIncomingCallActions
  MaxChanges, \* bound: changes of the policy
  MaxHidden   \* bound: snapshots that miss a call

VARIABLES
  phases,     \* phase of each call: none, ringing, active, gone
  answered,   \* calls the agent has answered
  rejects,    \* how often the agent was asked to reject each call
  history,    \* call_history: [phase, connected, ended], ended being ended_at
  decided,    \* the policy each call was discovered under
  action,     \* modemdeck_incoming_call_actions: status of each call
  events,     \* notification events: <<kind, call>>
  receives,   \* modemdeck_call_settings
  line,       \* the line's policy: [policy, changes]
  lock        \* the coordinator: [pc, snap, hidden, claimed, now]

icVars == <<phases, answered, rejects, history, decided, action, events, receives,
            line, lock>>
policies == <<receives, line>>

Open == {"ringing", "active"}
Absent == [phase |-> "none", connected |-> FALSE, ended |-> FALSE]
NoSnapshot == [c \in RingingCalls |-> "none"]

IncomingInit ==
  /\ phases = NoSnapshot /\ answered = {}
  /\ rejects = [c \in RingingCalls |-> 0]
  /\ history = [c \in RingingCalls |-> Absent]
  /\ decided = [c \in RingingCalls |-> "none"]
  /\ action = [c \in RingingCalls |-> "none"]
  /\ events = {} /\ receives = TRUE
  /\ line = [policy |-> "follow", changes |-> 0]
  /\ lock = [pc |-> "idle", snap |-> NoSnapshot, hidden |-> 0, claimed |-> {},
             now |-> "none"]

-----------------------------------------------------------------------------
(* The callers, and the administrator.                                       *)

Ring(c) ==
  /\ phases[c] = "none"
  /\ phases' = [phases EXCEPT ![c] = "ringing"]
  /\ UNCHANGED <<answered, rejects, history, decided, action, events, policies, lock>>

\* The caller gives up, or somebody rejects or hangs up.
Leave(c) ==
  /\ phases[c] \in Open
  /\ phases' = [phases EXCEPT ![c] = "gone"]
  /\ UNCHANGED <<answered, rejects, history, decided, action, events, policies, lock>>

\* UpdateGlobalCallSettings and UpdateLineCallPolicy, at the revision they read.
UpdateSettings(on) ==
  /\ line.changes < MaxChanges
  /\ receives' = on
  /\ line' = [line EXCEPT !.changes = @ + 1]
  /\ UNCHANGED <<phases, answered, rejects, history, decided, action, events, lock>>

UpdateLinePolicy(p) ==
  /\ line.changes < MaxChanges
  /\ line' = [policy |-> p, changes |-> line.changes + 1]
  /\ UNCHANGED <<phases, answered, rejects, history, decided, action, events,
                 receives, lock>>

\* effectiveCallPolicy
EffectiveDND ==
  line.policy = "dnd" \/ (line.policy = "follow" /\ ~receives)

-----------------------------------------------------------------------------
(* The coordinator.                                                          *)

Coordinator(pc) == lock' = [lock EXCEPT !.pc = pc]

Seen == {s \in [RingingCalls -> {"none", "ringing", "active", "gone"}] :
           \A c \in RingingCalls : s[c] \in {phases[c], "none"}}

\* The snapshot of a refresh; a modem that is not ready lists no calls.
Fetch ==
  \E s \in Seen :
    LET misses == s # phases
    IN /\ misses => lock.hidden < MaxHidden
       /\ lock' = [lock EXCEPT !.pc = "fetched", !.snap = s,
                              !.hidden = @ + IF misses THEN 1 ELSE 0]

RefreshCalls ==
  /\ lock.pc = "idle"
  /\ Fetch
  /\ UNCHANGED <<phases, answered, rejects, history, decided, action, events, policies>>

\* CallAction "answer": on a call whose row is open; the agent may fail before
\* or after it answered, and then nothing is refreshed.
Answer(c) ==
  /\ lock.pc = "idle" /\ history[c].phase \in Open
  /\ \/ /\ phases[c] = "ringing"
        /\ phases' = [phases EXCEPT ![c] = "active"]
        /\ answered' = answered \cup {c}
        /\ Coordinator("refresh") \/ UNCHANGED lock
     \/ UNCHANGED <<phases, answered, lock>>
  /\ UNCHANGED <<rejects, history, decided, action, events, policies>>

RefreshAfterAnswer ==
  /\ lock.pc = "refresh"
  /\ Fetch \/ Coordinator("idle")
  /\ UNCHANGED <<phases, answered, rejects, history, decided, action, events, policies>>

\* upsertHardwareCall and closeMissingCalls: a listed call has the phase of
\* the snapshot, also one that was closed before; an open one that is not
\* listed is closed.
RowAfter(r, seen) ==
  LET over == seen = "gone" \/ (seen = "none" /\ r.phase \in Open)
      phase == IF over THEN "ended" ELSE IF seen = "none" THEN r.phase ELSE seen
  IN [phase |-> phase, connected |-> r.connected \/ seen = "active",
      ended |-> r.ended \/ over]

\* A call with no row that is listed, in whatever phase.
Discovered(c, seen) == history[c].phase = "none" /\ seen # "none"

\* Mutant: only a call that was seen before can be missed.
MissedKnown(c, new) == new.ended /\ ~history[c].ended /\ ~new.connected
                       /\ history[c].phase # "none"

\* The first terminal observation of a call that was never connected.
\* (closeMissingCalls excepts calls with the reason or failure code "rejected",
\* which no state reason of the agent is: modemmanager/parse.go:519.)
Missed(c, new) == new.ended /\ ~history[c].ended /\ ~new.connected

\* enqueueIncomingCallAction
Enqueued(fresh) ==
  [c \in RingingCalls |->
     IF c \in fresh /\ EffectiveDND THEN "pending" ELSE action[c]]

CommitCalls ==
  LET new == [c \in RingingCalls |-> RowAfter(history[c], lock.snap[c])]
      fresh == {c \in RingingCalls : Discovered(c, lock.snap[c])
                                     /\ lock.snap[c] = "ringing"}
      missed == {c \in RingingCalls : Missed(c, new[c])}
  IN /\ lock.pc = "fetched"
     /\ \/ /\ history' = new
           /\ decided' = [c \in RingingCalls |->
                IF c \in fresh THEN IF EffectiveDND THEN "dnd" ELSE "receive"
                ELSE decided[c]]
           /\ action' = Enqueued(fresh)
           /\ events' = events \cup {<<"missed", c>> : c \in missed}
                \cup (IF EffectiveDND THEN {} ELSE {<<"incoming", c>> : c \in fresh})
           /\ Coordinator("committed")
        \/ Coordinator("idle") /\ UNCHANGED <<history, decided, action, events>>
     /\ UNCHANGED <<phases, answered, rejects, policies>>

\* ClaimIncomingCallActions, unless what comes before it in the refresh fails.
ClaimActions ==
  LET pending == {c \in RingingCalls : action[c] = "pending"}
  IN /\ lock.pc = "committed"
     /\ \/ \E S \in SUBSET pending :
             /\ Cardinality(S) <= Limit /\ (S = pending \/ Cardinality(S) = Limit)
             /\ action' = [c \in RingingCalls |->
                             IF c \in S THEN "sending" ELSE action[c]]
             /\ lock' = [lock EXCEPT !.pc = "acting", !.claimed = S]
        \/ Coordinator("idle") /\ UNCHANGED action
     /\ UNCHANGED <<phases, answered, rejects, history, decided, events, policies>>

\* Mutant: the call only has to be listed.
ListedInSnapshot(c) == lock.snap[c] # "none"

\* currentIncomingRingingCall: in the snapshot of this refresh.
RingingInSnapshot(c) == lock.snap[c] = "ringing"

\* executeIncomingCallAction: the agent may fail with or without effect.
Execute(c) ==
  /\ lock.pc = "acting" /\ c \in lock.claimed
  /\ lock' = [lock EXCEPT !.pc = "finishing", !.now = c]
  /\ IF RingingInSnapshot(c)
     THEN /\ rejects' = [rejects EXCEPT ![c] = @ + 1]
          /\ \/ phases' = [phases EXCEPT ![c] = IF @ \in Open THEN "gone" ELSE @]
             \/ UNCHANGED phases
     ELSE UNCHANGED <<rejects, phases>>
  /\ UNCHANGED <<answered, history, decided, action, events, policies>>

\* FinishIncomingCallAction; a failure leaves the claimed ones in sending.
Unlocked == [lock EXCEPT !.pc = "idle", !.claimed = {}, !.now = "none"]

FinishAction(c) ==
  /\ lock.pc = "finishing" /\ lock.now = c
  /\ \/ /\ action' = [action EXCEPT ![c] = "finished"]
        /\ lock' = [lock EXCEPT !.pc = "acting", !.claimed = @ \ {c},
                               !.now = "none"]
     \/ lock' = Unlocked /\ UNCHANGED action
  /\ UNCHANGED <<phases, answered, rejects, history, decided, events, policies>>

Done ==
  /\ lock.pc = "acting" /\ lock.claimed = {}
  /\ Coordinator("idle")
  /\ UNCHANGED <<phases, answered, rejects, history, decided, action, events, policies>>

\* The process dies; what was being sent is indeterminate at its start.
ProcessDies ==
  /\ lock' = [Unlocked EXCEPT !.snap = NoSnapshot]
  /\ action' = [c \in RingingCalls |->
                  IF action[c] = "sending" THEN "finished" ELSE action[c]]
  /\ UNCHANGED <<phases, answered, rejects, history, decided, events, policies>>

IncomingNext ==
  \/ \E c \in RingingCalls : Ring(c) \/ Leave(c) \/ Answer(c) \/ Execute(c)
                             \/ FinishAction(c)
  \/ \E on \in BOOLEAN : UpdateSettings(on)
  \/ \E p \in {"follow", "receive", "dnd"} : UpdateLinePolicy(p)
  \/ RefreshCalls \/ RefreshAfterAnswer \/ CommitCalls \/ ClaimActions \/ Done \/ ProcessDies

-----------------------------------------------------------------------------
\* A call is announced or rejected, by the policy it was discovered under, and
\* no crash or failed write makes it rejected twice (enqueueIncomingCallAction,
\* ClaimIncomingCallActions).
PolicyIsObeyed ==
  \A c \in RingingCalls :
    /\ <<"incoming", c>> \in events => decided[c] = "receive"
    /\ rejects[c] > 0 => decided[c] = "dnd"
    /\ rejects[c] <= 1

\* A call that ended without a connection is reported as missed, and no call is
\* before it has ended (upsertHardwareCall, closeMissingCalls).
MissedCallsAreReported ==
  \A c \in RingingCalls :
    /\ history[c].phase = "ended" /\ ~history[c].connected => <<"missed", c>> \in events
    /\ <<"missed", c>> \in events => history[c].ended

IncomingIsTrue == PolicyIsObeyed /\ MissedCallsAreReported

\* A call somebody has answered is not rejected by a policy
\* (executeIncomingCallAction, under the coordinator's lock).
AnsweredIsKept ==
  \A c \in RingingCalls : rejects'[c] > rejects[c] => c \notin answered
=============================================================================
