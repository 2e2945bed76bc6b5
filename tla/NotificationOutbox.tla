------------------------- MODULE NotificationOutbox -------------------------
(***************************************************************************)
(* The notification outbox of the application: the rows the store         *)
(* allocates in the transaction that records a message or a missed call,  *)
(* the Telegram dispatcher (telegramruntime.Manager) and the Apple push    *)
(* sender (applepush.Runtime) that work them off, and what a restart does  *)
(* to a row that was being sent.                                           *)
(*                                                                         *)
(* Every event has one row per channel: one Telegram unit and one Apple    *)
(* credential stand for all of them, because a row is worked off alone.    *)
(* The text of a notification is left out; whether it reached the service  *)
(* is kept in `told` (Telegram) and `rang` (Apple), which the program      *)
(* cannot read.                                                            *)
(***************************************************************************)
EXTENDS Absence, Naturals, FiniteSets

CONSTANTS Events,        \* event keys of the outbox
          MaxDeliveries  \* maximumDeliveryAttempts of the Apple sender

VARIABLES
  known,     \* modemdeck_notification_events: the events the store has recorded
  teleRow,   \* status of the Telegram row of each event
  teleUnit,  \* the unit's settings allow the notification (store)
  config,    \* ... in the configuration the dispatcher runs with
  batch,     \* rows the dispatcher listed and has not handled yet
  hand,      \* [event, step, outcome] of the row the dispatcher has claimed
  told,      \* messages Telegram has accepted for each event
  spared,    \* events the unit's settings ended without a message
  push,      \* [status, attempts, due, late] of the Apple row of each event
  pushBatch, \* rows the Apple sender listed, with what it read of them
  grip,      \* [event, attempts, able, step, outcome] of its claimed row
  able,      \* the credential may receive the event (user, token, line, call)
  rang,      \* pushes APNs has accepted for each event
  dispatcher \* "up" once the dispatcher has recovered its rows, else "down"

outboxVars == <<known, teleRow, teleUnit, config, batch, hand, told, spared,
                push, pushBatch, grip, able, rang, dispatcher>>

teleVars == <<teleRow, teleUnit, config, batch, hand, told, spared>>
pushVars == <<push, pushBatch, grip, able, rang>>

Idle == [event |-> None, step |-> "idle", outcome |-> None]
NoPush == [event |-> None, attempts |-> 0, able |-> FALSE,
            step |-> "idle", outcome |-> None]

Unqueued == [status |-> None, attempts |-> 0, due |-> FALSE, late |-> FALSE]

Statuses == {"pending", "sending", "sent", "failed", "indeterminate"}
PushStatuses == {"pending", "sending", "accepted", "failed", "cancelled",
                 "expired"}

OutboxTypeOK ==
  /\ known \subseteq Events
  /\ teleRow \in [Events -> Statuses \cup {None}]
  /\ teleUnit \in BOOLEAN /\ config \in BOOLEAN
  /\ batch \subseteq Events
  /\ hand \in [event : Events \cup {None}, step : {"idle", "claimed", "asked"},
               outcome : {"sent", "failed", "indeterminate", None}]
  /\ told \in [Events -> 0..2] /\ spared \subseteq Events
  /\ push \in [Events -> [status : PushStatuses \cup {None},
                          attempts : 0..MaxDeliveries + 1,
                          due : BOOLEAN, late : BOOLEAN]]
  /\ \A l \in pushBatch : l.event \in Events /\ l.attempts \in 0..MaxDeliveries + 1
  /\ grip.event \in Events \cup {None}
  /\ grip.step \in {"idle", "claimed", "asked"}
  /\ able \in BOOLEAN
  /\ rang \in [Events -> 0..MaxDeliveries + 2]
  /\ dispatcher \in {"up", "down"}

OutboxInit ==
  /\ known = {}
  /\ teleRow = [e \in Events |-> None]
  /\ teleUnit = TRUE /\ config = TRUE
  /\ batch = {} /\ hand = Idle
  /\ told = [e \in Events |-> 0] /\ spared = {}
  /\ push = [e \in Events |-> Unqueued]
  /\ pushBatch = {} /\ grip = NoPush
  /\ able \in BOOLEAN
  /\ rang = [e \in Events |-> 0]
  /\ dispatcher = "down"

-----------------------------------------------------------------------------
(* Allocation.                                                             *)

\* The Telegram row an observed event has afterwards: allocated with the event
\* when the unit wants it, and left alone when the event is known already.
RowFor(e) == IF e \in known \/ ~teleUnit THEN teleRow[e] ELSE "pending"

PushFor(e) ==
  IF e \in known \/ ~able THEN push[e]
  ELSE [Unqueued EXCEPT !.status = "pending", !.due = TRUE]

\* The transaction that records a message or a call enqueues its notification;
\* the agent reports the same message again in every snapshot.
Observe(e) ==
  /\ known' = known \cup {e}
  /\ teleRow' = [teleRow EXCEPT ![e] = RowFor(e)]
  /\ push' = [push EXCEPT ![e] = PushFor(e)]
  /\ UNCHANGED <<teleUnit, config, batch, hand, told, spared, pushBatch, grip,
                 able, rang, dispatcher>>

-----------------------------------------------------------------------------
(* Telegram.                                                               *)

\* Mutant: a row that was being sent at the crash is queued again.
RecoveredQueued(status) == IF status = "sending" THEN "pending" ELSE status

\* What the dispatcher does at its start to a row the last process left.
Recovered(status) == IF status = "sending" THEN "indeterminate" ELSE status

\* Run: no update of the rows, no dispatching.
Start ==
  /\ dispatcher = "down"
  /\ dispatcher' = "up"
  /\ teleRow' = [e \in Events |-> Recovered(teleRow[e])]
  /\ config' = teleUnit
  /\ UNCHANGED <<known, teleUnit, batch, hand, told, spared, pushVars>>

\* The notification ticker: the rows still pending, oldest first.
ListPending ==
  /\ dispatcher = "up" /\ hand = Idle /\ batch = {}
  /\ batch' = {e \in Events : teleRow[e] = "pending"}
  /\ batch' # {}
  /\ UNCHANGED <<known, teleRow, teleUnit, config, hand, told, spared, pushVars,
                 dispatcher>>

\* The conditional update that takes one row; a row that is no longer pending
\* is skipped.
Claim(e) ==
  /\ hand = Idle /\ e \in batch
  /\ batch' = batch \ {e}
  /\ IF teleRow[e] = "pending"
       THEN /\ teleRow' = [teleRow EXCEPT ![e] = "sending"]
            /\ hand' = [event |-> e, step |-> "claimed", outcome |-> None]
       ELSE UNCHANGED <<teleRow, hand>>
  /\ UNCHANGED <<known, teleUnit, config, told, spared, pushVars, dispatcher>>

\* notificationFailureStatus: a refusal of the service (4xx but 429) is
\* `failed`, whatever leaves the delivery unknown is `indeterminate`.
Outcome(reached, answer) ==
  CASE answer = "ok"      -> "sent"
    [] answer = "refused" -> "failed"
    [] OTHER              -> "indeterminate"

\* notify: settings that no longer want the event end it without a message;
\* otherwise the message reaches Telegram or not, and the answer comes back or
\* is lost (timeout, cancelled unit, a reply binding that cannot be stored).
Notify ==
  /\ hand.step = "claimed"
  /\ IF ~config
       THEN /\ hand' = [hand EXCEPT !.step = "asked", !.outcome = "sent"]
            /\ spared' = spared \cup {hand.event}
            /\ UNCHANGED told
       ELSE \E reached \in BOOLEAN, answer \in {"ok", "refused", "unknown"} :
              /\ answer = "ok" => reached
              /\ answer = "refused" => ~reached
              /\ hand' = [hand EXCEPT !.step = "asked",
                                      !.outcome = Outcome(reached, answer)]
              /\ told' = IF reached /\ told[hand.event] < 2
                           THEN [told EXCEPT ![hand.event] = @ + 1] ELSE told
              /\ UNCHANGED spared
  /\ UNCHANGED <<known, teleRow, teleUnit, config, batch, pushVars, dispatcher>>

\* FinishTelegramNotificationDelivery; an error of the database ends the batch
\* and leaves the row in `sending` until the next start.
FinishNotification ==
  /\ hand.step = "asked"
  /\ hand' = Idle
  /\ \/ /\ teleRow' = [teleRow EXCEPT ![hand.event] = hand.outcome]
        /\ UNCHANGED batch
     \/ /\ batch' = {}
        /\ UNCHANGED teleRow
  /\ UNCHANGED <<known, teleUnit, config, told, spared, pushVars, dispatcher>>

\* telegramsettings.Service changes the unit; reconcile restarts it with the
\* new configuration at the next signal.
ChangeUnit ==
  /\ teleUnit' = ~teleUnit
  /\ UNCHANGED <<known, teleRow, config, batch, hand, told, spared, pushVars,
                 dispatcher>>

Reconcile ==
  /\ dispatcher = "up" /\ hand = Idle /\ batch = {}
  /\ config # teleUnit /\ config' = teleUnit
  /\ UNCHANGED <<known, teleRow, teleUnit, batch, hand, told, spared, pushVars,
                 dispatcher>>

-----------------------------------------------------------------------------
(* Apple push.                                                             *)

\* drainOutbox: the rows that are due, with the facts the query joins in.
ListDue ==
  /\ grip = NoPush /\ pushBatch = {}
  /\ pushBatch' = {[event |-> e, attempts |-> push[e].attempts, able |-> able] :
                  e \in {x \in Events : push[x].status = "pending" /\ push[x].due}}
  /\ pushBatch' # {}
  /\ UNCHANGED <<known, teleVars, push, grip, able, rang, dispatcher>>

\* ClaimApplePushDelivery counts the attempt before it is made. (The count is
\* kept exact up to one above the limit, where nothing depends on it any more.)
Counted(n) == IF n > MaxDeliveries THEN n ELSE n + 1

ClaimPush(l) ==
  /\ grip = NoPush /\ l \in pushBatch
  /\ pushBatch' = pushBatch \ {l}
  /\ IF push[l.event].status = "pending"
       THEN /\ push' = [push EXCEPT ![l.event].status = "sending",
                                    ![l.event].attempts = Counted(@)]
            /\ grip' = [event |-> l.event, attempts |-> l.attempts,
                        able |-> l.able, step |-> "claimed", outcome |-> None]
       ELSE UNCHANGED <<push, grip>>
  /\ UNCHANGED <<known, teleVars, able, rang, dispatcher>>

Answered(outcome) == [grip EXCEPT !.step = "asked", !.outcome = outcome]

\* sendOutboxDelivery before it asks APNs: expired, not eligible as listed, or
\* out of attempts.
Withhold ==
  /\ grip.step = "claimed"
  /\ \/ push[grip.event].late /\ grip' = Answered("expired")
     \/ /\ ~push[grip.event].late /\ ~grip.able
        /\ \E outcome \in {"cancelled", "expired", "failed"} :
             grip' = Answered(outcome)
     \/ /\ ~push[grip.event].late /\ grip.able /\ grip.attempts >= MaxDeliveries
        /\ grip' = Answered("failed")
  /\ UNCHANGED <<known, teleVars, push, pushBatch, able, rang, dispatcher>>

\* An attempt whose outcome allows a retry: the next one is scheduled unless
\* the attempts or the time are used up.
RetryOutcome ==
  IF grip.attempts + 1 >= MaxDeliveries \/ push[grip.event].late
    THEN "expired" ELSE "pending"

\* The push itself. A 2xx is accepted; 429, 5xx and a lost answer are tried
\* again under the same apns-id; any other refusal ends it, and a token the
\* service calls invalid is cleared.
Send ==
  /\ grip.step = "claimed"
  /\ ~push[grip.event].late /\ grip.able /\ grip.attempts < MaxDeliveries
  /\ \E reached \in BOOLEAN, answer \in {"ok", "retry", "invalid", "refused"} :
       /\ answer = "ok" => reached
       /\ answer \in {"invalid", "refused"} => ~reached
       /\ grip' = Answered(CASE answer = "ok"    -> "accepted"
                             [] answer = "retry" -> RetryOutcome
                             [] OTHER            -> "failed")
       /\ able' = (able /\ answer # "invalid")
       /\ rang' = IF reached /\ rang[grip.event] < MaxDeliveries + 2
                    THEN [rang EXCEPT ![grip.event] = @ + 1] ELSE rang
  /\ UNCHANGED <<known, teleVars, push, pushBatch, dispatcher>>

\* FinishApplePushDelivery; a database error is logged and leaves the row in
\* `sending` until the next start.
FinishPush ==
  /\ grip.step = "asked"
  /\ grip' = NoPush
  /\ \/ push' = [push EXCEPT ![grip.event].status = grip.outcome,
                             ![grip.event].due = FALSE]
     \/ UNCHANGED push
  /\ UNCHANGED <<known, teleVars, pushBatch, able, rang, dispatcher>>

\* Time: the next attempt of a row becomes due, the row's window closes.
BecomeDue(e) ==
  /\ push[e].status = "pending" /\ ~push[e].due
  /\ push' = [push EXCEPT ![e].due = TRUE]
  /\ UNCHANGED <<known, teleVars, pushBatch, grip, able, rang, dispatcher>>

Lapse(e) ==
  /\ push[e].status \in {"pending", "sending"} /\ ~push[e].late
  /\ push' = [push EXCEPT ![e].late = TRUE]
  /\ UNCHANGED <<known, teleVars, pushBatch, grip, able, rang, dispatcher>>

\* The user, the pairing or the call changes: the credential becomes or stops
\* being entitled to the event.
ChangeTarget ==
  /\ able' = ~able
  /\ UNCHANGED <<known, teleVars, push, pushBatch, grip, rang, dispatcher>>

-----------------------------------------------------------------------------
\* The process dies at any moment and starts again: both workers forget their
\* rows. The Apple sender queues what was being sent again (unless the
\* database refuses, which it only logs); the Telegram dispatcher recovers its
\* rows when it runs (Start).
Restart ==
  /\ batch' = {} /\ hand' = Idle /\ pushBatch' = {} /\ grip' = NoPush
  /\ dispatcher' = "down"
  /\ \/ push' = [e \in Events |->
                   IF push[e].status = "sending"
                     THEN [push[e] EXCEPT !.status = "pending", !.due = TRUE]
                     ELSE push[e]]
     \/ UNCHANGED push
  /\ UNCHANGED <<known, teleRow, teleUnit, config, told, spared, able, rang>>

OutboxNext ==
  \/ \E e \in Events : \/ Observe(e) \/ Claim(e)
                       \/ BecomeDue(e) \/ Lapse(e)
  \/ \E l \in pushBatch : ClaimPush(l)
  \/ Start \/ ListPending \/ Notify \/ FinishNotification \/ ChangeUnit \/ Reconcile
  \/ ListDue \/ Withhold \/ Send \/ FinishPush \/ ChangeTarget
  \/ Restart

OutboxSpec == OutboxInit /\ [][OutboxNext]_outboxVars

-----------------------------------------------------------------------------
\* A Telegram message is posted at most once for an event, whatever crashes,
\* repeated snapshots and lost answers happen, and the row says the truth
\* about it: a pending row was never posted, a failed one was refused, and a
\* sent one was posted unless the unit stopped wanting it.
TelegramOnce ==
  \A e \in Events :
    /\ told[e] <= 1
    /\ teleRow[e] \in {"pending", "failed", None} => told[e] = 0
    /\ teleRow[e] = "sent" /\ e \notin spared => told[e] = 1

\* A device is rung at most MaxDeliveries times for an event across all crashes
\* and retries, because an attempt is counted in the row before it is made, and
\* an accepted row did reach the service.
PushesAreBounded ==
  \A e \in Events :
    /\ rang[e] <= MaxDeliveries
    /\ push[e].status = "accepted" => rang[e] >= 1

OutboxIsTruthful == TelegramOnce /\ PushesAreBounded
=============================================================================
