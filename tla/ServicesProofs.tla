--------------------------- MODULE ServicesProofs ---------------------------
(***************************************************************************)
(* The components of MCServices, one after the other: the invariant of the *)
(* component whose turn it is holds of the variables it shares with the    *)
(* others, because a step of this module is a step of that component.      *)
(***************************************************************************)
EXTENDS MCServices, TLAPS

-----------------------------------------------------------------------------
(* The invariants                                                          *)

PreparationInv == service = "preparation" => P!PrepInv
MediaInv == service = "media" => S!MediaInv
MediaHubsInv == service = "media_hubs" => T!MediaInv
RecordingInv == service = "recording" => P!RecInv
NetworkInv == service = "network" => S!NetInv
OutboxInv == service = "outbox" => S!OutboxInv
TelegramInv == service = "telegram" => S!BotInv
TelegramBatchInv == service = "telegram_batch" => T!BotInv
EventsInv == service = "events" => S!EventsInv
AccountsInv == service = "accounts" => S!AccountInv

-----------------------------------------------------------------------------
(* They hold at the start and are kept                                     *)

\* A call that is being prepared: the first state.
LEMMA PreparationStart ==
  ASSUME Init
  PROVE  PreparationInv
<1>1. service = "preparation" => P!PrepInit
  BY DEF Init
<1>2. QED
  BY <1>1, ServicesAssumption, P!PrepInvInit DEF PreparationInv

\* A call that is being prepared: a step of this module is one of the component or none.
LEMMA PreparationStep ==
  ASSUME PreparationInv, [Next]_vars
  PROVE  PreparationInv'
<1>1. UNCHANGED service
  BY DEF Next, vars
<1>2. service = "preparation" =>
        [P!PrepNext]_<<v1, v2, v3, v4, v5, v6, v7, v8, v9, v10, v11, v12,
                       v13, v14, v15, v16, v17>>
  BY DEF Next, vars
<1>3. service = "preparation" => [P!PrepNext]_(P!prepVars)
  BY <1>2 DEF P!prepVars, P!handlers, P!outside
<1>4. QED
  BY <1>1, <1>3, ServicesAssumption, P!PrepInvNext DEF PreparationInv

\* The media of a call with one hub: the first state.
LEMMA MediaStart ==
  ASSUME Init
  PROVE  MediaInv
<1>1. service = "media" => S!MediaInit
  BY DEF Init
<1>2. QED
  BY <1>1, ServicesAssumption, S!MediaInvInit DEF MediaInv

\* The media of a call with one hub: a step of this module is one of the component or none.
LEMMA MediaStep ==
  ASSUME MediaInv, [Next]_vars
  PROVE  MediaInv'
<1>1. UNCHANGED service
  BY DEF Next, vars
<1>2. service = "media" =>
        [S!MediaNext]_<<v1, v2, v3, v4, v5, v6, v7, v8, v9, v10, v11, v12,
                        v13, v14, v15, v16, v17>>
  BY DEF Next, vars
<1>3. service = "media" => [S!MediaNext]_(S!mediaVars)
  BY <1>2 DEF S!mediaVars, S!owner, S!hubs
<1>4. QED
  BY <1>1, <1>3, ServicesAssumption, S!MediaInvNext DEF MediaInv

\* The media of a call with several hubs: the first state.
LEMMA MediaHubsStart ==
  ASSUME Init
  PROVE  MediaHubsInv
<1>1. service = "media_hubs" => T!MediaInit
  BY DEF Init
<1>2. QED
  BY <1>1, ServicesAssumption, T!MediaInvInit DEF MediaHubsInv

\* The media of a call with several hubs: a step of this module is one of the component or none.
LEMMA MediaHubsStep ==
  ASSUME MediaHubsInv, [Next]_vars
  PROVE  MediaHubsInv'
<1>1. UNCHANGED service
  BY DEF Next, vars
<1>2. service = "media_hubs" =>
        [T!MediaNext]_<<v1, v2, v3, v4, v5, v6, v7, v8, v9, v10, v11, v12,
                        v13, v14, v15, v16, v17>>
  BY DEF Next, vars
<1>3. service = "media_hubs" => [T!MediaNext]_(T!mediaVars)
  BY <1>2 DEF T!mediaVars, T!owner, T!hubs
<1>4. QED
  BY <1>1, <1>3, ServicesAssumption, T!MediaInvNext DEF MediaHubsInv

\* The recordings of a call: the first state.
LEMMA RecordingStart ==
  ASSUME Init
  PROVE  RecordingInv
<1>1. service = "recording" => P!RecInit
  BY DEF Init
<1>2. QED
  BY <1>1, ServicesAssumption, P!RecInvInit DEF RecordingInv

\* The recordings of a call: a step of this module is one of the component or none.
LEMMA RecordingStep ==
  ASSUME RecordingInv, [Next]_vars
  PROVE  RecordingInv'
<1>1. UNCHANGED service
  BY DEF Next, vars
<1>2. service = "recording" =>
        [P!RecNext]_<<v1, v2, v3, v4, v5, v6, v7, v8, v9, v10, v11, v12,
                      v13, v14, v15, v16>>
  BY DEF Next, vars
<1>3. service = "recording" => [P!RecNext]_(P!recVars)
  BY <1>2 DEF P!recVars, P!rows, P!workers, P!locked
<1>4. QED
  BY <1>1, <1>3, ServicesAssumption, P!RecInvNext DEF RecordingInv

\* The network of a line: the first state.
LEMMA NetworkStart ==
  ASSUME Init
  PROVE  NetworkInv
<1>1. service = "network" => S!NetInit
  BY DEF Init
<1>2. QED
  BY <1>1, ServicesAssumption, S!NetInvInit DEF NetworkInv

\* The network of a line: a step of this module is one of the component or none.
LEMMA NetworkStep ==
  ASSUME NetworkInv, [Next]_vars
  PROVE  NetworkInv'
<1>1. UNCHANGED service
  BY DEF Next, vars
<1>2. service = "network" =>
        [S!NetNext]_<<v1, v2, v3, v4, v5, v6, v7, v8, v9, v10, v11, v12,
                      v13, v14>>
  BY DEF Next, vars
<1>3. service = "network" => [S!NetNext]_(S!netVars)
  BY <1>2 DEF S!netVars, S!tables, S!agent, S!applier
<1>4. QED
  BY <1>1, <1>3, ServicesAssumption, S!NetInvNext DEF NetworkInv

\* The notifications: the first state.
LEMMA OutboxStart ==
  ASSUME Init
  PROVE  OutboxInv
<1>1. service = "outbox" => S!OutboxInit
  BY DEF Init
<1>2. QED
  BY <1>1, ServicesAssumption, S!OutboxInvInit DEF OutboxInv

\* The notifications: a step of this module is one of the component or none.
LEMMA OutboxStep ==
  ASSUME OutboxInv, [Next]_vars
  PROVE  OutboxInv'
<1>1. UNCHANGED service
  BY DEF Next, vars
<1>2. service = "outbox" =>
        [S!OutboxNext]_<<v1, v2, v3, v4, v5, v6, v7, v8, v9, v10, v11, v12,
                         v13, v14>>
  BY DEF Next, vars
<1>3. service = "outbox" => [S!OutboxNext]_(S!outboxVars)
  BY <1>2 DEF S!outboxVars
<1>4. QED
  BY <1>1, <1>3, ServicesAssumption, S!OutboxInvNext DEF OutboxInv

\* The bots: the first state.
LEMMA TelegramStart ==
  ASSUME Init
  PROVE  TelegramInv
<1>1. service = "telegram" => S!BotInit
  BY DEF Init
<1>2. QED
  BY <1>1, ServicesAssumption, S!BotInvInit DEF TelegramInv

\* The bots: a step of this module is one of the component or none.
LEMMA TelegramStep ==
  ASSUME TelegramInv, [Next]_vars
  PROVE  TelegramInv'
<1>1. UNCHANGED service
  BY DEF Next, vars
<1>2. service = "telegram" =>
        [S!BotNext]_<<v1, v2, v3, v4, v5, v6, v7, v8, v9, v10>>
  BY DEF Next, vars
<1>3. service = "telegram" => [S!BotNext]_(S!botVars)
  BY <1>2 DEF S!botVars
<1>4. QED
  BY <1>1, <1>3, ServicesAssumption, S!BotInvNext DEF TelegramInv

\* One bot with a batch of updates: the first state.
LEMMA TelegramBatchStart ==
  ASSUME Init
  PROVE  TelegramBatchInv
<1>1. service = "telegram_batch" => T!BotInit
  BY DEF Init
<1>2. QED
  BY <1>1, ServicesAssumption, T!BotInvInit DEF TelegramBatchInv

\* One bot with a batch of updates: a step of this module is one of the component or none.
LEMMA TelegramBatchStep ==
  ASSUME TelegramBatchInv, [Next]_vars
  PROVE  TelegramBatchInv'
<1>1. UNCHANGED service
  BY DEF Next, vars
<1>2. service = "telegram_batch" =>
        [T!BotNext]_<<v1, v2, v3, v4, v5, v6, v7, v8, v9, v10>>
  BY DEF Next, vars
<1>3. service = "telegram_batch" => [T!BotNext]_(T!botVars)
  BY <1>2 DEF T!botVars
<1>4. QED
  BY <1>1, <1>3, ServicesAssumption, T!BotInvNext DEF TelegramBatchInv

\* The streams of events: the first state.
LEMMA EventsStart ==
  ASSUME Init
  PROVE  EventsInv
<1>1. service = "events" => S!EventsInit
  BY DEF Init
<1>2. QED
  BY <1>1, ServicesAssumption, S!EventsInvInit DEF EventsInv

\* The streams of events: a step of this module is one of the component or none.
LEMMA EventsStep ==
  ASSUME EventsInv, [Next]_vars
  PROVE  EventsInv'
<1>1. UNCHANGED service
  BY DEF Next, vars
<1>2. service = "events" =>
        [S!EventsNext]_<<v1, v2, v3, v4, v5, v6, v7>>
  BY DEF Next, vars
<1>3. service = "events" => [S!EventsNext]_(S!eventVars)
  BY <1>2 DEF S!eventVars
<1>4. QED
  BY <1>1, <1>3, ServicesAssumption, S!EventsInvNext DEF EventsInv

\* Sessions and devices: the first state.
LEMMA AccountsStart ==
  ASSUME Init
  PROVE  AccountsInv
<1>1. service = "accounts" => S!AccountInit
  BY DEF Init
<1>2. QED
  BY <1>1, ServicesAssumption, S!AccountInvInit DEF AccountsInv

\* Sessions and devices: a step of this module is one of the component or none.
LEMMA AccountsStep ==
  ASSUME AccountsInv, [Next]_vars
  PROVE  AccountsInv'
<1>1. UNCHANGED service
  BY DEF Next, vars
<1>2. service = "accounts" =>
        [S!AccountNext]_<<v1, v2, v3, v4, v5, v6>>
  BY DEF Next, vars
<1>3. service = "accounts" => [S!AccountNext]_(S!accountVars)
  BY <1>2 DEF S!accountVars
<1>4. QED
  BY <1>1, <1>3, ServicesAssumption, S!AccountInvNext DEF AccountsInv

-----------------------------------------------------------------------------
(* The properties                                                          *)

\* However the commits, cancellations, restarts and revocations of the preparations
\* interleave, the modem is asked at most once to dial a request.
THEOREM RequestsAreDialledOnce == Spec => []RequestDialledOnce
<1>1. Spec => []PreparationInv
  BY PreparationStart, PreparationStep, PTL DEF Spec
<1>2. PreparationInv => RequestDialledOnce
  BY DEF PreparationInv, RequestDialledOnce, P!PrepInv
<1>3. QED
  BY <1>1, <1>2, PTL

\* No step of any handler decides to dial once a DELETE of the preparation has
\* set its flag.
THEOREM CancelledCallsAreNotDialled == Spec => NoDialAfterCancel
<1>1. Spec => []PreparationInv
  BY PreparationStart, PreparationStep, PTL DEF Spec
<1>2. PreparationInv /\ [Next]_vars =>
        [service = "preparation" => P!UndisturbedDial]_vars
  <2>1. ASSUME PreparationInv, Next, service = "preparation"
        PROVE  P!UndisturbedDial
    <3>1. P!PrepNext /\ P!PrepInv
      BY <2>1 DEF Next, PreparationInv
    <3>2. QED
      BY <3>1, P!PrepDialsUndisturbed
  <2>2. QED
    BY <2>1 DEF vars
<1>3. QED
  BY <1>1, <1>2, PTL DEF Spec, NoDialAfterCancel

\* A call has one owner with a session and one hub at work, and what is told of its
\* media is true, whichever of the two instances takes its turn.
THEOREM MediaIsAlwaysTrue == Spec => []MediaIsTrue
<1>1. Spec => []MediaInv
  BY MediaStart, MediaStep, PTL DEF Spec
<1>2. Spec => []MediaHubsInv
  BY MediaHubsStart, MediaHubsStep, PTL DEF Spec
<1>3. MediaInv /\ MediaHubsInv => MediaIsTrue
  BY S!MediaInvImplies, T!MediaInvImplies
  DEF MediaInv, MediaHubsInv, MediaIsTrue
<1>4. QED
  BY <1>1, <1>2, <1>3, PTL

\* Whatever fails and whenever the process stops, what is offered can be played, a
\* segment has one writer, and a call shown as being recorded is.
THEOREM RecordingsAreTrue == Spec => []RecordingIsTrue
<1>1. Spec => []RecordingInv
  BY RecordingStart, RecordingStep, PTL DEF Spec
<1>2. RecordingInv => RecordingIsTrue
  BY ServicesAssumption, P!RecInvImplies DEF RecordingInv, RecordingIsTrue
<1>3. QED
  BY <1>1, <1>2, PTL

\* A row the tables show as applied is what an agent has accepted in its current
\* epoch.
THEOREM AppliedNetworksAreAccepted == Spec => []NetworkIsApplied
<1>1. Spec => []NetworkInv
  BY NetworkStart, NetworkStep, PTL DEF Spec
<1>2. NetworkInv => NetworkIsApplied
  BY DEF NetworkInv, NetworkIsApplied, S!NetInv, S!NetworkIsApplied
<1>3. QED
  BY <1>1, <1>2, PTL

\* No notification is reported against what the service has accepted or sent a
\* second time on purpose, and every update of a bot leads to at most one SMS and is
\* confirmed only when it was handled.
THEOREM DeliveriesAreTruthful == Spec => []DeliveryIsTruthful
<1>1. Spec => []OutboxInv
  BY OutboxStart, OutboxStep, PTL DEF Spec
<1>2. Spec => []TelegramInv
  BY TelegramStart, TelegramStep, PTL DEF Spec
<1>3. Spec => []TelegramBatchInv
  BY TelegramBatchStart, TelegramBatchStep, PTL DEF Spec
<1>4. OutboxInv /\ TelegramInv /\ TelegramBatchInv => DeliveryIsTruthful
  BY S!OutboxInvImplies, S!BotInvImplies, T!BotInvImplies
  DEF OutboxInv, TelegramInv, TelegramBatchInv, DeliveryIsTruthful
<1>5. QED
  BY <1>1, <1>2, <1>3, <1>4, PTL

\* No stream of events leaves a page behind without a signal under way, and the
\* limiter counts the streams that are open.
THEOREM StreamsAreAlwaysServed == Spec => []StreamsAreServed
<1>1. Spec => []EventsInv
  BY EventsStart, EventsStep, PTL DEF Spec
<1>2. EventsInv => StreamsAreServed
  BY S!EventsInvImplies DEF EventsInv, StreamsAreServed
<1>3. QED
  BY <1>1, <1>2, PTL

\* No session and no device outlives the password or the flags it was made under.
THEOREM AccountsStayCurrent == Spec => []AccountsAreCurrent
<1>1. Spec => []AccountsInv
  BY AccountsStart, AccountsStep, PTL DEF Spec
<1>2. AccountsInv => AccountsAreCurrent
  BY DEF AccountsInv, AccountsAreCurrent, S!AccountInv
<1>3. QED
  BY <1>1, <1>2, PTL
=============================================================================
