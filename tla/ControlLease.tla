---------------------------- MODULE ControlLease ----------------------------
(***************************************************************************)
(* The agent's control lease (agent/internal/controllease/manager.go) with *)
(* the HTTP handlers that run provider commands under it, the provider's   *)
(* call commands, and the agent process from startup recovery to shutdown  *)
(* or crash.                                                               *)
(*                                                                         *)
(* The gate is a sync.RWMutex: a command holds its shared side from the    *)
(* lease check to the end of the provider command; expiry, release,        *)
(* recovery and shutdown hold the exclusive side while they hang up every  *)
(* call.  A writer that has announced itself blocks new readers; the       *)
(* readers it blocked enter when it unlocks.                               *)
(*                                                                         *)
(* Renew, Protect and beginExpiration read the clock just before they take *)
(* the inner mutex.  A late use of an old reading has the effect of the    *)
(* operation at the reading followed by ticks, so each is one action.      *)
(***************************************************************************)
EXTENDS Integers

CONSTANTS
  Controllers,   \* application instances (a fresh id per process)
  Calls,         \* modem calls, each an object that is never reused
  Lines,
  Handlers,      \* HTTP handler goroutines of the agent
  Ticker, Main,  \* the goroutine of Run, and main
  None,
  Duration       \* Options.Duration, in ticks

ASSUME ControlAssumption ==
  /\ None \notin Controllers
  /\ Ticker \notin Handlers /\ Main \notin Handlers /\ Ticker # Main
  /\ Duration \in Nat \ {0}

VARIABLES
  agent,       \* the process: down, recovering, serving, stopping
  controller,  \* controllerID
  left,        \* ticks until expiresAt
  expiring, closed,
  pc,          \* where each goroutine is with the gate
  who,         \* the controller named by a handler's request
  todo,        \* calls of the safety snapshot still to be hung up
  err,         \* hangupAll has an error to return
  call,        \* the modem's calls
  fault        \* history: a provider command of this sweep really failed

vars == <<agent, controller, left, expiring, closed, pc, who, todo, err, call,
          fault>>

lease == <<controller, left, expiring, closed>>
sweep == <<todo, err, fault>>

Goroutines == Handlers \cup {Ticker, Main}

Up == agent \in {"serving", "stopping"}

Writing(g) == pc[g] \in {"pending", "inspecting", "sweeping"}
Reading(h) == pc[h] \in {"shared", "running", "leaving"}

Announced == \E g \in Goroutines : Writing(g)

-----------------------------------------------------------------------------
(* Calls of the modem                                                      *)

\* A terminated call stays in the provider's view ("ended") for a while
\* before it is forgotten ("gone").
Ongoing(c) == call[c].phase \in {"ringing", "live"}
Alive(c) == call[c].phase = "live"

Ended(S) ==
  [c \in Calls |-> IF c \in S THEN [call[c] EXCEPT !.phase = "ended"]
                   ELSE call[c]]

OnLine(l) == {c \in Calls : Ongoing(c) /\ call[c].line = l}

\* What happens to calls without the lease: they arrive, either side ends them
\* (the hangup and reject handlers are not protected), they are forgotten.
Arrive(c, l) ==
  /\ call[c].phase = "none"
  /\ call' = [call EXCEPT ![c] = [phase |-> "ringing", line |-> l, by |-> None]]

HangUp(c) == Ongoing(c) /\ call' = Ended({c})

\* terminateCall: a hangup that fails, or does not take, resets the modem.
Reset(c) == Ongoing(c) /\ call' = Ended(OnLine(call[c].line))

Forget(c) ==
  /\ call[c].phase = "ended"
  /\ call' = [call EXCEPT ![c].phase = "gone"]

Outside ==
  /\ \E c \in Calls :
       \/ \E l \in Lines : Arrive(c, l)
       \/ HangUp(c) \/ (Up /\ Reset(c)) \/ Forget(c)
  /\ UNCHANGED <<agent, lease, pc, who, sweep>>

-----------------------------------------------------------------------------
(* The lease                                                               *)

\* Mutant: pending cleanup does not keep the lease from the next controller.
RenewableWhileExpiring(a) ==
  ~closed /\ (controller = None \/ (controller = a /\ left > 0))

Renewable(a) ==
  /\ ~closed /\ ~expiring
  /\ controller = None \/ (controller = a /\ left > 0)

\* A refused renewal changes nothing.
Renew(a) ==
  /\ Up
  /\ Renewable(a)
  /\ controller' = a /\ left' = Duration
  /\ UNCHANGED <<agent, expiring, closed, pc, who, sweep, call>>

Elapse == left > 0 /\ left' = left - 1

Tick ==
  /\ Elapse
  /\ UNCHANGED <<agent, controller, expiring, closed, pc, who, sweep, call>>

-----------------------------------------------------------------------------
(* Protected commands                                                      *)

\* Protect, RLock: a handler enters, or waits behind an announced writer.
Enter(h, a) ==
  /\ Up /\ pc[h] = "idle"
  /\ who' = [who EXCEPT ![h] = a]
  /\ pc' = [pc EXCEPT ![h] = IF Announced THEN "blocked" ELSE "shared"]
  /\ UNCHANGED <<agent, lease, sweep, call>>

Valid(a) == ~closed /\ controller = a /\ left > 0

\* Mutant: a refused command keeps the shared side.
CheckLeaks(h) ==
  /\ pc[h] = "shared"
  /\ Valid(who[h])
  /\ pc' = [pc EXCEPT ![h] = "running"]
  /\ UNCHANGED <<agent, lease, who, sweep, call>>

\* Protect, the check: an invalid lease gives the shared side back.
Check(h) ==
  /\ pc[h] = "shared"
  /\ pc' = [pc EXCEPT ![h] = IF Valid(who[h]) THEN "running" ELSE "idle"]
  /\ UNCHANGED <<agent, lease, who, sweep, call>>

\* StartCall: the line must be free.  The call exists whatever the receipt
\* says, so a lost or failed receipt is this action too.
Dial(h, c, l) ==
  /\ pc[h] = "running"
  /\ OnLine(l) = {} /\ call[c].phase = "none"
  /\ call' = [call EXCEPT ![c] = [phase |-> "live", line |-> l, by |-> who[h]]]
  /\ pc' = [pc EXCEPT ![h] = "leaving"]
  /\ UNCHANGED <<agent, lease, who, sweep>>

\* AnswerCall: the call must ring, and ring alone.
Answer(h, c) ==
  /\ pc[h] = "running"
  /\ call[c].phase = "ringing" /\ OnLine(call[c].line) = {c}
  /\ call' = [call EXCEPT ![c].phase = "live", ![c].by = who[h]]
  /\ pc' = [pc EXCEPT ![h] = "leaving"]
  /\ UNCHANGED <<agent, lease, who, sweep>>

\* releaseControl, after the command above, after one that was refused or
\* failed, and after tones and media, which start no call.
Leave(h) ==
  /\ pc[h] \in {"running", "leaving"}
  /\ pc' = [pc EXCEPT ![h] = "idle"]
  /\ UNCHANGED <<agent, lease, who, sweep, call>>

-----------------------------------------------------------------------------
(* The exclusive side: expiry, release, recovery, shutdown                 *)

\* gate.Lock is called; one writer at a time.
Announce(g) == ~Announced /\ pc[g] = "idle" /\ pc' = [pc EXCEPT ![g] = "pending"]

Expire ==
  /\ Up /\ Announce(Ticker)
  /\ UNCHANGED <<agent, lease, who, sweep, call>>

Release(h, a) ==
  /\ Up /\ Announce(h)
  /\ who' = [who EXCEPT ![h] = a]
  /\ UNCHANGED <<agent, lease, sweep, call>>

Stop ==
  /\ agent = "serving" /\ Announce(Main)
  /\ agent' = "stopping"
  /\ UNCHANGED <<lease, who, sweep, call>>

\* Unlock: the readers this writer blocked hold the shared side at once.
Unlocked(g) ==
  [x \in Goroutines |-> IF x = g THEN "idle"
                        ELSE IF pc[x] = "blocked" THEN "shared" ELSE pc[x]]

\* Mutants: cleanup that failed once is not tried again; the ticker only
\* repeats what a release left behind.
DueOnce == ~closed /\ ~expiring /\ controller # None /\ left = 0
DueAgain == ~closed /\ expiring

\* beginExpiration.
Due == ~closed /\ (expiring \/ (controller # None /\ left = 0))

\* What the owner of the exclusive side finds to do.
Revokes(g) ==
  CASE g = Ticker -> Due
    [] g = Main -> TRUE
    [] OTHER -> ~closed /\ ~expiring /\ controller # None /\ controller = who[g]

\* gate.Lock returns: nothing to do, or the controller loses the lease.
Locked(g) ==
  /\ pc[g] = "pending"
  /\ \A h \in Handlers : ~Reading(h)
  /\ \/ /\ ~Revokes(g)
        /\ pc' = Unlocked(g)
        /\ UNCHANGED lease
     \/ /\ Revokes(g)
        /\ pc' = [pc EXCEPT ![g] = "inspecting"]
        /\ controller' = None /\ left' = 0 /\ expiring' = TRUE
        /\ closed' = (closed \/ g = Main)
  /\ UNCHANGED <<agent, who, sweep, call>>

\* hangupAll, the safety snapshot.
Inspect(g) ==
  /\ pc[g] = "inspecting"
  /\ pc' = [pc EXCEPT ![g] = "sweeping"]
  /\ todo' = {c \in Calls : Ongoing(c)}
  /\ err' = FALSE /\ fault' = FALSE
  /\ UNCHANGED <<agent, lease, who, call>>

InspectFails(g) ==
  /\ pc[g] = "inspecting"
  /\ pc' = [pc EXCEPT ![g] = "sweeping"]
  /\ todo' = {} /\ err' = TRUE /\ fault' = TRUE
  /\ UNCHANGED <<agent, lease, who, call>>

\* After an error the rest of its line is skipped.
SkipLine(c) == todo' = {d \in todo : call[d].line # call[c].line}

\* One HangupCall that works, and is verified.
HangsUp(g, c) ==
  /\ pc[g] = "sweeping" /\ c \in todo
  /\ HangUp(c)
  /\ todo' = todo \ {c}
  /\ UNCHANGED <<agent, lease, pc, who, err, fault>>

\* The call is not found any more: nothing to do.
NotFound(g, c) ==
  /\ pc[g] = "sweeping" /\ c \in todo
  /\ call[c].phase = "gone"
  /\ todo' = todo \ {c}
  /\ UNCHANGED <<agent, lease, pc, who, err, call, fault>>

\* ErrForcedCallTermination: reported, but not an error of the sweep.
Forced(g, c) ==
  /\ pc[g] = "sweeping" /\ c \in todo
  /\ Reset(c)
  /\ SkipLine(c)
  /\ UNCHANGED <<agent, lease, pc, who, err, fault>>

\* The provider still shows the call as terminated and answers with a conflict.
Terminated(g, c) ==
  /\ pc[g] = "sweeping" /\ c \in todo
  /\ call[c].phase = "ended"
  /\ SkipLine(c)
  /\ err' = TRUE
  /\ UNCHANGED <<agent, lease, pc, who, call, fault>>

\* Hangup and reset fail, or the modem cannot be read.
HangupFails(g, c) ==
  /\ pc[g] = "sweeping" /\ c \in todo
  /\ SkipLine(c)
  /\ err' = TRUE /\ fault' = TRUE
  /\ UNCHANGED <<agent, lease, pc, who, call>>

\* Mutant: the result of the sweep is ignored.
CleanAnyway == TRUE

Clean == ~err

\* finishExpiration and the unlock, or main's next step.
Finish(g) ==
  /\ pc[g] = "sweeping" /\ todo = {}
  /\ pc' = Unlocked(g)
  /\ expiring' = (expiring /\ (~Clean \/ closed))
  /\ agent' = IF agent # "recovering" THEN agent
              ELSE IF Clean THEN "serving" ELSE "down"
  /\ UNCHANGED <<controller, left, closed, who, sweep, call>>

Sweep(g) ==
  \/ Locked(g) \/ Inspect(g) \/ InspectFails(g) \/ Finish(g)
  \/ \E c \in Calls : \/ HangsUp(g, c) \/ NotFound(g, c) \/ Forced(g, c)
                      \/ Terminated(g, c) \/ HangupFails(g, c)

-----------------------------------------------------------------------------
(* The agent process                                                       *)

Fresh(state) ==
  /\ agent' = state
  /\ controller' = None /\ left' = 0 /\ expiring' = FALSE /\ closed' = FALSE
  /\ who' = [h \in Handlers |-> None]
  /\ todo' = {} /\ err' = FALSE /\ fault' = FALSE

\* main: Recover runs before anything is served.
Launch ==
  /\ agent = "down"
  /\ Fresh("recovering")
  /\ pc' = [g \in Goroutines |-> IF g = Main THEN "inspecting" ELSE "idle"]
  /\ UNCHANGED call

\* A crash at any point, and the end of an orderly shutdown.
Exit ==
  /\ agent # "down"
  /\ Fresh("down")
  /\ pc' = [g \in Goroutines |-> "idle"]
  /\ UNCHANGED call

\* Calls of an earlier process may be left over.
Init ==
  /\ agent = "down" /\ controller = None /\ left = 0
  /\ expiring = FALSE /\ closed = FALSE
  /\ pc = [g \in Goroutines |-> "idle"]
  /\ who = [h \in Handlers |-> None]
  /\ todo = {} /\ err = FALSE /\ fault = FALSE
  /\ call \in [Calls -> [phase : {"none"}, line : {None}, by : {None}]
                   \cup [phase : {"ringing"}, line : Lines, by : {None}]
                   \cup [phase : {"live"}, line : Lines, by : Controllers]]

Command(h) ==
  \/ \E a \in Controllers : Enter(h, a) \/ Release(h, a)
  \/ Check(h) \/ Leave(h)
  \/ \E c \in Calls : Answer(h, c) \/ \E l \in Lines : Dial(h, c, l)

Next ==
  \/ \E a \in Controllers : Renew(a)
  \/ \E h \in Handlers : Command(h)
  \/ \E g \in Goroutines : Sweep(g)
  \/ Expire \/ Stop \/ Tick \/ Launch \/ Exit \/ Outside

Spec == Init /\ [][Next]_vars

-----------------------------------------------------------------------------
(* Properties                                                              *)

CallType ==
  [phase : {"none", "ringing", "live", "ended", "gone"},
   line : Lines \cup {None}, by : Controllers \cup {None}]

TypeOK ==
  /\ agent \in {"down", "recovering", "serving", "stopping"}
  /\ controller \in Controllers \cup {None}
  /\ left \in 0..Duration
  /\ expiring \in BOOLEAN /\ closed \in BOOLEAN
  /\ pc \in [Goroutines -> {"idle", "blocked", "shared", "running", "leaving",
                            "pending", "inspecting", "sweeping"}]
  /\ who \in [Handlers -> Controllers \cup {None}]
  /\ todo \subseteq Calls
  /\ err \in BOOLEAN /\ fault \in BOOLEAN
  /\ call \in [Calls -> CallType]

\* Every connected call belongs to the application that holds the lease, or is
\* about to be hung up: a command that was checked before the lease ended never
\* leaves a call behind the safety snapshot, and no other application takes
\* over before the calls of the last one are gone, agent restarts included.
CallsUnderLease ==
  Up => \A c \in Calls :
          Alive(c) => \/ call[c].by = controller
                      \/ controller = None /\ expiring

\* The manager and the provider implement LeasedControl.
Leased ==
  INSTANCE LeasedControl WITH
    holder <- controller,
    user   <- [c \in Calls |-> IF Alive(c) THEN call[c].by ELSE None]

ImplementsLease == Leased!Spec

-----------------------------------------------------------------------------
(* The inductive invariant                                                 *)

\* One writer, and no reader beside a writer that has the lock.
GateExcludes ==
  /\ \A g, x \in Goroutines : Writing(g) /\ Writing(x) => g = x
  /\ \A g \in Goroutines : pc[g] \in {"inspecting", "sweeping"} =>
       \A h \in Handlers : ~Reading(h)
  /\ \A g \in {Ticker, Main} : ~Reading(g) /\ pc[g] # "blocked"

\* A running command still has the lease it was checked against.
CommandsOwnLease ==
  \A h \in Handlers :
    pc[h] = "running" => controller # None /\ who[h] = controller

LeaseShape ==
  /\ left > 0 => controller # None
  /\ expiring => controller = None
  /\ closed => expiring
  /\ \A g \in Goroutines :
       Up /\ pc[g] \in {"inspecting", "sweeping"} => expiring

ProcessShape ==
  ~Up => /\ controller = None /\ ~expiring
         /\ \A g \in Goroutines :
              pc[g] # "idle" =>
                /\ agent = "recovering" /\ g = Main
                /\ pc[g] \in {"inspecting", "sweeping"}

\* A sweep without an error has every connected call before it.
SweepMissesNothing ==
  \A g \in Goroutines, c \in Calls :
    pc[g] = "sweeping" /\ ~err /\ Alive(c) => c \in todo

Connected == \A c \in Calls : Alive(c) => call[c].by # None

IInv ==
  /\ TypeOK
  /\ GateExcludes
  /\ CommandsOwnLease
  /\ LeaseShape
  /\ ProcessShape
  /\ SweepMissesNothing
  /\ Connected
  /\ CallsUnderLease

-----------------------------------------------------------------------------
(* A rule a comment states and the code does not keep                      *)

\* manager.go:300: the absence of one call must not suppress the cleanup of
\* another still-live call of its line.  If no provider command of the sweep
\* has failed, a call of the snapshot is crossed off only when it is over.
NothingSuppressed ==
  [][Up /\ Up' /\ ~fault' =>
       \A c \in todo \ todo' : ~(Ongoing(c) /\ Ongoing(c)')]_vars

-----------------------------------------------------------------------------
(* Liveness                                                                *)

\* Go runs every goroutine and its mutexes starve nobody; contexts bound every
\* provider command; the modem, read and commanded again and again, does not
\* fail every time.
Fairness ==
  /\ WF_vars(Tick) /\ SF_vars(Expire)
  /\ \A h \in Handlers : WF_vars(Check(h)) /\ WF_vars(Leave(h))
  /\ \A g \in Goroutines :
       /\ WF_vars(Locked(g)) /\ WF_vars(Finish(g)) /\ SF_vars(Inspect(g))
       /\ \A c \in Calls :
            /\ SF_vars(HangsUp(g, c))
            /\ WF_vars(NotFound(g, c)) /\ WF_vars(Terminated(g, c))

FairSpec == Spec /\ Fairness

\* An application that stops renewing loses its calls: each one ends, although
\* sweeps may fail and be repeated, unless the agent stops first.
AbandonedCallsEnd ==
  \A a \in Controllers, c \in Calls :
    <>[][controller' = a => left' <= left \/ controller # a]_vars =>
      ((agent = "serving" /\ Alive(c) /\ call[c].by = a)
         ~> (agent # "serving" \/ ~Alive(c)))

\* A command that waits behind a writer is answered, and so is one that has
\* entered: the gate is always given back.
CommandsAnswered ==
  \A h \in Handlers :
    pc[h] \in {"blocked", "shared", "running", "leaving"} ~> pc[h] = "idle"

\* A lease that has ended is available again, once its calls are gone.
CleanupEnds ==
  (agent = "serving" /\ expiring) ~> (agent # "serving" \/ ~expiring)
=============================================================================
