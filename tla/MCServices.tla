----------------------------- MODULE MCServices -----------------------------
(***************************************************************************)
(* The application's components around the call.  Each is a specification  *)
(* of its own and none reads another's variables, so a behaviour of this   *)
(* module is a behaviour of one of them, `service`: the state graphs add   *)
(* up instead of multiplying.  The components take turns over the same     *)
(* variables, v1 to v17; a state's `service` says whose variables they     *)
(* are.                                                                    *)
(***************************************************************************)
EXTENDS Naturals, TLC

CONSTANTS
  Services,     \* the components a run is about
  Preps, Requests, Window,              \* OutgoingPreparation
  Calls, Owners, Hubs, LoneOwner, TwoHubs, \* CallMedia
  RecCalls, Segments,                   \* Recording
  Proxies, MaxRev, MaxEpoch,            \* NetworkRuntime
  Events, MaxAttempts,                  \* NotificationOutbox, NetworkRuntime
  Bots, LoneBot,                        \* TelegramBot
  Streams, Sessions, Sections, CallSection, Reassigned, \* RuntimeEvents
  PerSession, Global,
  Tokens, Devices, Slots, MaxSessions, MaxDevices, MaxRevision, \* Accounts
  None

VARIABLES
  service, v1, v2, v3, v4, v5, v6, v7, v8, v9, v10, v11, v12, v13, v14, v15,
  v16, v17

\* What is done for one call: its preparation and its recording.
P == INSTANCE CallProofs WITH
       \* OutgoingPreparation
       state <- v1, req <- v2, listed <- v3, left <- v4, timer <- v5,
       commit <- v6, delete <- v7, cancelRequested <- v8, dispatch <- v9,
       session <- v10, binder <- v11, lease <- v12, revoked <- v13,
       status <- v14, call <- v15, tried <- v16, dials <- v17,
       \* Recording
       app <- v1, phase <- v2, media <- v3, known <- v4, rec <- v5,
       seg <- v6, of <- v7, file <- v8, worker <- v9, work <- v10,
       cancelled <- v11, job <- v12, target <- v13, fresh <- v14,
       todo <- v15, refused <- v16

\* The other components around a call: two owners that share a hub, two bots
\* with one update each.
S == INSTANCE RuntimeProofs WITH
       \* Accounts
       account <- v1, webSession <- v2, op <- v3, form <- v4, acting <- v5,
       iosDevice <- v6,
       \* NetworkRuntime
       row <- v1, policy <- v2, running <- v3, selected <- v4, epoch <- v5,
       accepted <- v6, applyStatus <- v7, view <- v8, mutator <- v9,
       apply <- v10, tokens <- v11, seen <- v12, chosen <- v13, rest <- v14,
       \* RuntimeEvents
       MaxSignals <- MaxRevision, revision <- v1, cache <- v2, stream <- v3,
       page <- v4, valid <- v5, rights <- v6, limiter <- v7,
       \* CallMedia
       core <- v1, authority <- v2, life <- v3, sweep <- v4, stage <- v5,
       key <- v6, held <- v7, linked <- v8, ended <- v9, packets <- v10,
       connected <- v11, binding <- v12, hubRef <- v13, hub <- v14,
       hubCall <- v15, table <- v16, alive <- v17,
       \* TelegramBot
       Last <- [b \in Bots |-> 1], botUnit <- v1, edit <- v2, manager <- v3,
       poller <- v4, sms <- v5, texted <- v6, arrived <- v7,
       confirmed <- v8, handled <- v9, crossed <- v10,
       \* NotificationOutbox
       MaxDeliveries <- MaxAttempts, teleRow <- v1, teleUnit <- v2,
       config <- v3, batch <- v4, hand <- v5, told <- v6, spared <- v7,
       push <- v8, pushBatch <- v9, grip <- v10, able <- v11, rang <- v12,
       dispatcher <- v13, known <- v14

\* One owner that comes again while a hub of its last time is still closing,
\* and one bot that sends two updates.
T == INSTANCE RuntimeProofs WITH
       Owners <- LoneOwner, Hubs <- TwoHubs, Bots <- LoneBot,
       Last <- [b \in LoneBot |-> 2],
       \* Accounts
       account <- v1, webSession <- v2, op <- v3, form <- v4, acting <- v5,
       iosDevice <- v6,
       \* NetworkRuntime
       row <- v1, policy <- v2, running <- v3, selected <- v4, epoch <- v5,
       accepted <- v6, applyStatus <- v7, view <- v8, mutator <- v9,
       apply <- v10, tokens <- v11, seen <- v12, chosen <- v13, rest <- v14,
       \* RuntimeEvents
       MaxSignals <- MaxRevision, revision <- v1, cache <- v2, stream <- v3,
       page <- v4, valid <- v5, rights <- v6, limiter <- v7,
       \* CallMedia
       core <- v1, authority <- v2, life <- v3, sweep <- v4, stage <- v5,
       key <- v6, held <- v7, linked <- v8, ended <- v9, packets <- v10,
       connected <- v11, binding <- v12, hubRef <- v13, hub <- v14,
       hubCall <- v15, table <- v16, alive <- v17,
       \* TelegramBot
       botUnit <- v1, edit <- v2, manager <- v3,
       poller <- v4, sms <- v5, texted <- v6, arrived <- v7,
       confirmed <- v8, handled <- v9, crossed <- v10,
       \* NotificationOutbox
       MaxDeliveries <- MaxAttempts, teleRow <- v1, teleUnit <- v2,
       config <- v3, batch <- v4, hand <- v5, told <- v6, spared <- v7,
       push <- v8, pushBatch <- v9, grip <- v10, able <- v11, rang <- v12,
       dispatcher <- v13, known <- v14

\* The variables from the n-th on, which a component with fewer leaves None.
From17 == <<v17>>
From16 == <<v16, From17>>
From15 == <<v15, From16>>
From14 == <<v14, From15>>
From13 == <<v13, From14>>
From12 == <<v12, From13>>
From11 == <<v11, From12>>
From10 == <<v10, From11>>
From9 == <<v9, From10>>
From8 == <<v8, From9>>
From7 == <<v7, From8>>

Unused17 == v17 = None
Unused16 == v16 = None /\ Unused17
Unused15 == v15 = None /\ Unused16
Unused14 == v14 = None /\ Unused15
Unused13 == v13 = None /\ Unused14
Unused12 == v12 = None /\ Unused13
Unused11 == v11 = None /\ Unused12
Unused10 == v10 = None /\ Unused11
Unused9 == v9 = None /\ Unused10
Unused8 == v8 = None /\ Unused9
Unused7 == v7 = None /\ Unused8

Init ==
  /\ service \in Services
  /\ \/ /\ service = "preparation" /\ P!PrepInit
     \/ /\ service = "media" /\ S!MediaInit
     \/ /\ service = "media_hubs" /\ T!MediaInit
     \/ /\ service = "recording" /\ P!RecInit /\ Unused17
     \/ /\ service = "network" /\ S!NetInit /\ Unused15
     \/ /\ service = "outbox" /\ S!OutboxInit /\ Unused15
     \/ /\ service = "telegram" /\ S!BotInit /\ Unused11
     \/ /\ service = "telegram_batch" /\ T!BotInit /\ Unused11
     \/ /\ service = "events" /\ S!EventsInit /\ Unused8
     \/ /\ service = "accounts" /\ S!AccountInit /\ Unused7

Next ==
  \/ /\ service = "preparation" /\ P!PrepNext
     /\ UNCHANGED service
  \/ /\ service = "media" /\ S!MediaNext
     /\ UNCHANGED service
  \/ /\ service = "media_hubs" /\ T!MediaNext
     /\ UNCHANGED service
  \/ /\ service = "recording" /\ P!RecNext
     /\ UNCHANGED <<service, From17>>
  \/ /\ service = "network" /\ S!NetNext
     /\ UNCHANGED <<service, From15>>
  \/ /\ service = "outbox" /\ S!OutboxNext
     /\ UNCHANGED <<service, From15>>
  \/ /\ service = "telegram" /\ S!BotNext
     /\ UNCHANGED <<service, From11>>
  \/ /\ service = "telegram_batch" /\ T!BotNext
     /\ UNCHANGED <<service, From11>>
  \/ /\ service = "events" /\ S!EventsNext
     /\ UNCHANGED <<service, From8>>
  \/ /\ service = "accounts" /\ S!AccountNext
     /\ UNCHANGED <<service, From7>>

vars == <<service, v1, v2, v3, v4, v5, v6, v7, v8, v9, v10, v11, v12, v13,
          v14, v15, v16, v17>>

Spec == Init /\ [][Next]_vars

\* Values the components do not tell apart.  One group serves every component:
\* none has two sets that share values.
Symmetry == Permutations(Preps)

\* What the proofs need of the constants, component by component.
ASSUME ServicesAssumption ==
  /\ P!PrepAssumption /\ P!RecAssumption /\ S!NetAssumption /\ S!OutboxAssumption
  /\ S!MediaAssumption /\ T!MediaAssumption
  /\ S!BotAssumption /\ T!BotAssumption
  /\ S!EventsAssumption /\ S!AccountAssumption

-----------------------------------------------------------------------------
\* A repeated commit, a second preparation of the request or a restart never
\* dials the request again.
RequestDialledOnce == service = "preparation" => P!RequestDialledOnce

\* No commit decides to dial once a DELETE has got past its flag.
NoDialAfterCancel ==
  [][service = "preparation" => P!UndisturbedDial]_vars

\* A call has one owner and one hub at work, and what was reported about its
\* media is true.
MediaIsTrue ==
  /\ service = "media" => S!MediaIsTrue
  /\ service = "media_hubs" => T!MediaIsTrue

\* What the tables say of a recording agrees with its files and its worker.
RecordingIsTrue == service = "recording" => P!RecordingIsTrue

\* What the tables call applied is what an agent accepted.
NetworkIsApplied == service = "network" => S!NetworkIsApplied

\* The outcome stored for a notification is not contradicted by what the
\* service has accepted, and nothing is sent twice on purpose; an update leads
\* to at most one SMS, and none is confirmed unhandled.
DeliveryIsTruthful ==
  /\ service = "outbox" => S!OutboxIsTruthful
  /\ service = "telegram" => S!BotIsExact
  /\ service = "telegram_batch" => T!BotIsExact

\* A page is behind only where its stream still has to tell it; the limiter
\* counts the streams there are.
StreamsAreServed == service = "events" => S!StreamsAreServed

\* No session and no device outlives the password or the flags it was made
\* under.
AccountsAreCurrent == service = "accounts" => S!AccountsAreCurrent
=============================================================================
