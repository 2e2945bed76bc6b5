---------------------------- MODULE Synchronizer ----------------------------
(***************************************************************************)
(* The application's view of the hardware (internal/communication): the    *)
(* loop Run, the watcher of the agent's change events, complete refreshes, *)
(* the lighter telemetry, what pages are told, and the upkeep of the       *)
(* agent's control lease.  Calls, messages and line states are one version *)
(* number, `calls`; signal readings, which send no event, are `radio`.     *)
(***************************************************************************)
EXTENDS Absence, Naturals

CONSTANTS
  MaxCalls,   \* bound: changes of calls, messages and lines
  MaxRadio,   \* bound: changes of the signal
  MaxEpoch    \* bound: lives of the agent

VARIABLES
  calls, radio, \* what the modems are doing now
  agent,      \* [up, epoch]
  buffer,     \* the agent's subscriber channel: None, "empty" or "full"
  watcher,    \* watchAgentChanges
  changed,    \* a token is in changeEvents
  coalescing, \* the change timer is set
  run,        \* what Run is doing
  sample,     \* telemetry read and not yet applied, or None
  refresh,    \* the refresh that holds coordinatorMu, or None
  db,         \* the version of calls the last snapshot committed
  status,     \* [connected, error, events, epoch, radio]
  digest,     \* runtimeProjection: [lines, calls], None where cleared
  shown,      \* what a page has that fetched when it was last told
  control     \* [supported, healthy, wanted]

syncVars == <<calls, radio, agent, buffer, watcher, changed, coalescing, run,
              sample, refresh, db, status, digest, shown, control>>

SyncInit ==
  /\ calls = 0 /\ radio = 0
  /\ agent \in [up : BOOLEAN, epoch : {1}]
  /\ buffer = None
  /\ watcher = "off" /\ changed = FALSE /\ coalescing = FALSE
  /\ run = "refresh"
  /\ sample = None /\ refresh = None
  /\ db = 0
  /\ status = [connected |-> FALSE, error |-> None, events |-> FALSE,
               epoch |-> 0, radio |-> 0]
  /\ digest = [lines |-> None, calls |-> None]
  /\ shown = [lines |-> None, calls |-> None]
  /\ control = [supported |-> FALSE, healthy |-> FALSE, wanted |-> FALSE]

appVars == <<watcher, changed, coalescing, run, sample, refresh, db, status,
             digest, shown, control>>
loopVars == <<watcher, changed, coalescing, run>>
viewVars == <<db, status, digest, shown>>

-----------------------------------------------------------------------------
(* The modems and the agent. *)

\* A D-Bus signal that affects the snapshot; publish never blocks.
Change ==
  /\ calls < MaxCalls
  /\ calls' = calls + 1
  /\ buffer' = IF buffer = None THEN None ELSE "full"
  /\ UNCHANGED <<radio, agent, appVars>>

\* Signal readings change without an event.
Fade ==
  /\ radio < MaxRadio
  /\ radio' = radio + 1
  /\ UNCHANGED <<calls, agent, buffer, appVars>>

AgentStops ==
  /\ agent.up
  /\ agent' = [agent EXCEPT !.up = FALSE]
  /\ buffer' = None
  /\ UNCHANGED <<calls, radio, appVars>>

AgentStarts ==
  /\ ~agent.up /\ agent.epoch < MaxEpoch
  /\ agent' = [up |-> TRUE, epoch |-> agent.epoch + 1]
  /\ UNCHANGED <<calls, radio, buffer, appVars>>

-----------------------------------------------------------------------------
(* The watcher goroutine.  In "opened" it offers TRUE to Run and in "lost"   *)
(* FALSE, on a channel without buffer; "told" is between the offer and the   *)
(* token that follows it.                                                    *)

\* The agent subscribes before it writes "ready".
Subscribe ==
  /\ watcher = "dialing"
  /\ \/ /\ agent.up
        /\ watcher' = "opened" /\ buffer' = "empty"
     \/ watcher' = "waiting" /\ UNCHANGED buffer
  /\ UNCHANGED <<calls, radio, agent, changed, coalescing, run, sample,
                 refresh, viewVars, control>>

\* Mutant: a token is only left while the loop waits in its select.
NotifyUnlessBusy ==
  /\ \/ watcher = "told" /\ watcher' = "open" /\ UNCHANGED buffer
     \/ /\ watcher = "open" /\ buffer = "full"
        /\ buffer' = "empty" /\ UNCHANGED watcher
  /\ changed' = (changed \/ run = "select")
  /\ UNCHANGED <<calls, radio, agent, coalescing, run, sample, refresh,
                 viewVars, control>>

\* notify: a token when the channel has room.
Notify ==
  /\ \/ watcher = "told" /\ watcher' = "open" /\ UNCHANGED buffer
     \/ /\ watcher = "open" /\ buffer = "full"
        /\ buffer' = "empty" /\ UNCHANGED watcher
  /\ changed' = TRUE
  /\ UNCHANGED <<calls, radio, agent, coalescing, run, sample, refresh,
                 viewVars, control>>

\* The connection ends, with the agent or without, or is silent for too long.
StreamEnds ==
  /\ watcher = "open"
  /\ watcher' = "lost" /\ buffer' = None
  /\ UNCHANGED <<calls, radio, agent, changed, coalescing, run, sample,
                 refresh, viewVars, control>>

Redial ==
  /\ watcher = "waiting"
  /\ watcher' = "dialing"
  /\ UNCHANGED <<calls, radio, agent, buffer, changed, coalescing, run,
                 sample, refresh, viewVars, control>>

-----------------------------------------------------------------------------
(* A refresh, by Run or by a caller (Status, a command). *)

LinesView == <<status.epoch, status.radio>>

\* recordRefreshFailure: pages are told once, and the digests are cleared so
\* that the next success tells them again.
RecordFailure(error) ==
  /\ status' = [status EXCEPT !.connected = FALSE, !.error = error]
  /\ IF status.connected \/ status.error # error
     THEN /\ digest' = [lines |-> None, calls |-> None]
          /\ shown' = [shown EXCEPT !.lines = None]
     ELSE UNCHANGED <<digest, shown>>

\* The lock is given back; Run starts the watcher when a refresh of its own
\* succeeded (one that a sample led to does not count).
EndRefresh(ok) ==
  /\ refresh' = None
  /\ run' = IF refresh.by = "caller" THEN run ELSE "select"
  /\ watcher' = IF ok /\ refresh.by = "run" /\ watcher = "off"
                THEN "dialing" ELSE watcher

BeginRefresh(by) ==
  /\ refresh = None
  /\ IF by = "run" THEN run = "refresh" ELSE run # "stopped"
  /\ refresh' = [by |-> by, step |-> "observe", seen |-> None]
  /\ UNCHANGED <<calls, radio, agent, buffer, loopVars, sample, viewVars,
                 control>>

\* The agent's health and one complete snapshot.
Observe ==
  /\ refresh # None /\ refresh.step = "observe" /\ agent.up
  /\ refresh' = [refresh EXCEPT !.step = "apply",
       !.seen = [epoch |-> agent.epoch, calls |-> calls, radio |-> radio]]
  /\ UNCHANGED <<calls, radio, agent, buffer, loopVars, sample, viewVars,
                 control>>

\* The snapshot becomes rows in one transaction.
ApplySnapshot ==
  /\ refresh # None /\ refresh.step = "apply"
  /\ db' = refresh.seen.calls
  /\ refresh' = [refresh EXCEPT !.step = "show"]
  /\ UNCHANGED <<calls, radio, agent, buffer, loopVars, sample, status,
                 digest, shown, control>>

\* The agent or the database refuses, before or after the rows are written.
RefreshFails ==
  /\ refresh # None /\ refresh.step \in {"observe", "apply", "show"}
  /\ RecordFailure(IF refresh.step = "observe" THEN "agent" ELSE "store")
  /\ EndRefresh(FALSE)
  /\ UNCHANGED <<calls, radio, agent, buffer, changed, coalescing, sample, db,
                 control>>

\* The new status, and what it says of the lease.
Show ==
  /\ refresh # None /\ refresh.step = "show"
  /\ status' = [connected |-> TRUE, error |-> None, events |-> TRUE,
                epoch |-> refresh.seen.epoch, radio |-> refresh.seen.radio]
  /\ control' = [control EXCEPT !.supported = TRUE]
  /\ refresh' = [refresh EXCEPT !.step = "reconcile"]
  /\ UNCHANGED <<calls, radio, agent, buffer, loopVars, sample, db, digest,
                 shown>>

\* Ownership, media and recordings are brought in line, or one of them fails
\* and nothing is published.
Reconcile ==
  /\ refresh # None /\ refresh.step = "reconcile"
  /\ \/ /\ refresh' = [refresh EXCEPT !.step = "publish"]
        /\ UNCHANGED <<watcher, run>>
     \/ EndRefresh(FALSE)
  /\ UNCHANGED <<calls, radio, agent, buffer, changed, coalescing, sample,
                 viewVars, control>>

\* publishRuntimeSnapshot; then the incoming-call actions, which may fail.
Publish ==
  /\ refresh # None /\ refresh.step = "publish"
  /\ digest' = [lines |-> LinesView, calls |-> <<status.epoch, db>>]
  /\ shown' = [lines |-> IF digest.lines # LinesView THEN LinesView
                         ELSE shown.lines,
               calls |-> IF digest.calls # <<status.epoch, db>> THEN db
                         ELSE shown.calls]
  /\ \E ok \in BOOLEAN : EndRefresh(ok)
  /\ UNCHANGED <<calls, radio, agent, buffer, changed, coalescing, sample, db,
                 status, control>>

-----------------------------------------------------------------------------
(* The loop. *)

\* A case of the select that only leads to another step of Run.
TakeCase ==
  /\ run = "select"
  /\ \/ /\ watcher = "opened" /\ watcher' = "told" \* watchStates: true
        /\ control' = [control EXCEPT !.healthy = TRUE]
        /\ run' = "renew"
        /\ UNCHANGED <<changed, coalescing>>
     \/ /\ watcher = "lost" /\ watcher' = "waiting" \* watchStates: false
        /\ control' = [control EXCEPT !.healthy = FALSE]
        /\ run' = "release"
        /\ UNCHANGED <<changed, coalescing>>
     \/ /\ changed /\ changed' = FALSE     \* changeEvents
        /\ coalescing' = TRUE
        /\ UNCHANGED <<watcher, control, run>>
     \/ /\ coalescing /\ coalescing' = FALSE \* changeTimerC
        /\ changed' = FALSE
        /\ run' = "refresh"
        /\ UNCHANGED <<watcher, control>>
     \/ /\ control.supported /\ control.wanted /\ control.healthy
        /\ run' = "renew"                  \* controlLeaseTicker
        /\ UNCHANGED <<watcher, control, changed, coalescing>>
  /\ UNCHANGED <<calls, radio, agent, buffer, sample, refresh, viewVars>>

\* maintenanceTimer: with events a sample of the signal, else a refresh.
Maintain ==
  /\ run = "select"
  /\ run' = IF status.events THEN "sample" ELSE "refresh"
  /\ UNCHANGED <<calls, radio, agent, buffer, watcher, changed, coalescing,
                 sample, refresh, viewVars, control>>

\* A sample is read before the lock is taken.
TakeSample ==
  /\ run = "sample" /\ sample = None
  /\ \/ /\ agent.up
        /\ sample' = [epoch |-> agent.epoch, radio |-> radio]
        /\ UNCHANGED run
     \/ run' = "select" /\ UNCHANGED sample
  /\ UNCHANGED <<calls, radio, agent, buffer, watcher, changed, coalescing,
                 refresh, viewVars, control>>

\* refreshTelemetry under the lock: a full refresh after a failure or a new
\* epoch, nothing when the sample is older than what is shown.
ApplySample ==
  /\ run = "sample" /\ sample # None /\ refresh = None
  /\ sample' = None
  /\ IF ~status.connected \/ status.epoch # sample.epoch
     THEN /\ refresh' = [by |-> "sampler", step |-> "observe", seen |-> None]
          /\ run' = "wait"
          /\ UNCHANGED <<status, digest, shown>>
     ELSE /\ run' = "select"
          /\ \/ /\ sample.radio >= status.radio
                /\ status' = [status EXCEPT !.radio = sample.radio]
                /\ digest' = [digest EXCEPT !.lines = LinesView']
                /\ shown' = [shown EXCEPT !.lines = LinesView']
             \/ /\ sample.radio <= status.radio
                /\ UNCHANGED <<status, digest, shown>>
          /\ UNCHANGED refresh
  /\ UNCHANGED <<calls, radio, agent, buffer, watcher, changed, coalescing,
                 db, control>>

\* A renewal changes nothing here, whether it succeeds or not.
Renew ==
  /\ run = "renew"
  /\ run' = "select"
  /\ UNCHANGED <<calls, radio, agent, buffer, watcher, changed, coalescing,
                 sample, refresh, viewVars, control>>

\* The lease is not wanted any more, whether the agent hears of it or not.
Release ==
  /\ run \in {"release", "leaving"}
  /\ control' = [control EXCEPT !.wanted = FALSE]
  /\ run' = IF run = "release" THEN "select" ELSE "stopped"
  /\ UNCHANGED <<calls, radio, agent, buffer, watcher, changed, coalescing,
                 sample, refresh, viewVars>>

\* ctx.Done: the watcher ends with the loop.
Stop ==
  /\ run = "select"
  /\ run' = "leaving"
  /\ watcher' = "ended" /\ buffer' = None
  /\ UNCHANGED <<calls, radio, agent, changed, coalescing, sample, refresh,
                 viewVars, control>>

\* A command wants the lease before it goes to the agent.
Ensure ==
  /\ refresh = None
  /\ control.supported /\ control.healthy
  /\ \E renewed \in BOOLEAN : control' = [control EXCEPT !.wanted = renewed]
  /\ UNCHANGED <<calls, radio, agent, buffer, loopVars, sample, refresh,
                 viewVars>>

SyncNext ==
  \/ Change \/ Fade \/ AgentStops \/ AgentStarts
  \/ Subscribe \/ Notify \/ StreamEnds \/ Redial
  \/ \E by \in {"run", "caller"} : BeginRefresh(by)
  \/ Observe \/ ApplySnapshot \/ RefreshFails \/ Show \/ Reconcile \/ Publish
  \/ TakeCase \/ Maintain \/ TakeSample \/ ApplySample
  \/ Renew \/ Release \/ Stop \/ Ensure

-----------------------------------------------------------------------------
(* What fairness is about: who has a step to take.                         *)

HearsWatcher == TakeCase /\ watcher' # watcher
HearsChanges == TakeCase /\ coalescing' # coalescing
WatcherStep == Subscribe \/ Redial \/ Notify \/ (StreamEnds /\ ~agent.up)
LoopStep == TakeSample \/ ApplySample \/ Renew \/ Release
RefreshStep ==
  Observe \/ ApplySnapshot \/ Show \/ RefreshFails \/ Reconcile \/ Publish

\* A request to the agent, or the database, fails.
Failure ==
  \/ RefreshFails
  \/ Subscribe /\ watcher' = "waiting"
  \/ TakeSample /\ run' = "select"

-----------------------------------------------------------------------------
\* Between refreshes the digests say what pages were told, a cleared one that
\* they were told of a failure, and pages know when the agent is not seen
\* (recordRefreshFailure, publishRuntimeSnapshot, publishRuntimeLines).
PagesAreTold ==
  refresh = None =>
    /\ shown.lines = digest.lines
    /\ digest.calls # None => shown.calls = digest.calls[2]
    /\ ~status.connected => digest.lines = None

\* The lease is only wanted while the loop believes in the event stream, and
\* it believes in it only until the watcher has reported the end
\* (ensureAgentControlLease, Run).
LeaseIsWatched ==
  run \notin {"leaving", "stopped"} =>
    /\ control.wanted => control.healthy \/ run = "release"
    /\ control.healthy => watcher \in {"told", "open", "lost"}

SyncIsOrdered == PagesAreTold /\ LeaseIsWatched

\* Neither a refresh nor a sample that was read earlier and applied later
\* takes an observation back (refreshTelemetry, coordinatorMu).
ObservationsAdvance ==
  /\ db' >= db
  /\ status'.epoch = status.epoch => status'.radio >= status.radio

\* With an agent that stays and a watcher that was started, pages come to have
\* the last change, unless its reconciliation failed (Run, watchAgentChanges).
Up == agent.up /\ run \notin {"leaving", "stopped"}
Unpublished == status.connected /\ digest.calls # <<status.epoch, db>>
ChangesAreShown ==
  <>[]Up => []<>(watcher = "off" \/ Unpublished \/ shown.calls = calls)
=============================================================================
