# A TLA+ verification of ModemDeck

ModemDeck lets signed-in users place and answer real phone calls and send and
receive messages through cellular modems.  Two processes matter:

* the **application** (`src/cmd/modemdeck`, `src/internal`): HTTP and WebSocket
  API, SQLite database, call ownership, call media, recording, notifications;
* the **agent** (`src/agent`): talks to the modems (ModemManager over D-Bus,
  ALSA audio, network interfaces) and is commanded by the application over a
  Unix socket.

A call is started in a browser, owned by one session, dialed by the agent,
observed through complete snapshots of the agent, carried as audio through the
application, recorded, and ended.  What makes the system hard is that those
steps run in different goroutines and processes: an answer of a command may be
lost after the call was placed, a snapshot may show a call before the command
that made it returns, browsers vanish, sessions are revoked, deadlines pass and
either process may restart.  This directory holds models of the parts that
decide who may act on which call, when a call must end, and what is told to whom,
model-checked on small instances, with machine-checked proofs of their invariants
for instances of any size.

## 1. Inventory

State that survives a restart is marked (db).  "Hard" names the behaviour a
test hardly reaches; the hazards in `PROJECT.json` give the lines.

| component | state | operations | correct when | hard |
|---|---|---|---|---|
| call ownership manager `internal/calllease` | ownership records, `initialized` | prepare, renew, begin, activate, await, release, cancel an outgoing call; claim, renew, require a call; media connected, disconnected; revoke; reconcile one snapshot; expire | one session per line and one call per session; ownership never moves; a pre-restart call is never claimable; orphans end | database reads before the mutex, snapshots racing with dial answers, expiry racing with heartbeats, restart |
| agent control lease `agent/internal/controllease` | controller, expiry, `expiring`, `closed`, read-write gate | renew, protect, release, expire, shutdown, recover | no provider command runs without a lease; calls of a dead application are hung up before another takes over | commands in flight while the lease expires, hangup that fails half-way |
| communication coordinator `internal/communication` | observation versions, operation journal (db), call history (db), control lease | refresh, start call, end call, call action, send message, recover journal, renew lease | a command is sent at most once per request; an indeterminate answer is resolved by a snapshot | lost answers, retries, restart between command and journal, coordinator lock order |
| outgoing preparation API `internal/httpapi/outgoing_preparation.go` | preparations by request, dispatch mutex, timers | create, ready, renew, dial, cancel, expire | no dial after cancel or expiry; one dial per preparation | timers, cancellation during dispatch, media socket loss |
| call media `internal/callmedia` | sessions per call, duplex hub, owners and tokens | open, prepare, attach, take over, close | one media owner per call; resources released exactly once | takeover racing with close, hub start and stop |
| agent media `agent/internal/media` | active calls, leased endpoints, pending opens, sessions | open, abandon, close a session, close all | one session per call and one device per endpoint; no lease outlives its open | an open given up while the backend opens, close racing with start |
| recording `internal/recording` | workers, recording state and segments (db), files | set enabled, reconcile, start, stop, finalize, delete, recover, close | a segment is ready only with a complete file; a crash leaves no segment in progress | crash between file and database, stop racing with worker end |
| snapshot store `internal/store` | everything (db) | apply snapshot, close missing calls, messages, users, sessions | a call row only moves forward; identifiers are stable | snapshots with conflicts, retention |
| Telegram `internal/telegram*` | poll offset, chat binding, delivery queue (db) | poll, bind, send, commands | updates handled at least once, deliveries not lost | crash between send and mark, configuration change while polling |
| Apple push `internal/applepush` | delivery queue (db), provider token | enqueue, deliver, retry | a push is not lost; invalid tokens are dropped | retries, token expiry |
| network runtime `internal/networkruntime` | desired and applied network state (db) | set policy, reconcile, rotate | desired state is eventually applied | mutation during reconcile |
| authentication `internal/auth` | users, sessions, tokens (db) | login, refresh, revoke, change password | a revoked credential does nothing more | stream authentication between two checks |
| login limiter `internal/httpapi/login_limiter.go` | attempt buckets | check, record | limit holds, table bounded | eviction at the limit |
| event hubs `runtimeevents`, `callevents`, `messageevents` | subscribers, one coalesced signal for each | publish, subscribe, read the state | a page that was signalled reads the change; a revoked session loses its stream | signals while a page is being built, limits, revocation between two checks |
| call lifecycle `internal/calllifecycle` | a mutex | hands one snapshot to media, then to recording | both see snapshots in the same order | |
| mobile pairing `internal/mobilepairing` | pairing tokens (db) | create, redeem, expire | one redemption | |
| OTA updater `internal/ota`, `cmd/modemdeck-updater` | operation state on disk | check, apply, roll back, resume | an interrupted update leaves no half-installed version (an interrupted worker blocks later updates: section 7) | restart in every step |
| TLS managers `internal/tlsmanager` | active certificate, files | load, switch, maintain | | file and pointer switched together |
| agent providers `modemmanager`, `networking`, `qdc507*`, `volte`, `usbrecovery`, `deviceconfig` | modem objects, bearers, routes | list, dial, hang up, connect, recover | | D-Bus and kernel behaviour outside the repository |
| web and iOS clients `web`, `ios-client` | view state | | | |

How they interact: HTTP handlers call the ownership manager, then the
coordinator; the coordinator holds one mutex over refresh and commands, commits
each complete snapshot to the store and then calls `ReconcileAuthoritativeCalls`
of the ownership manager, of recording and of media; the ownership manager's
ticker calls `EndCall` of the coordinator; the coordinator renews the agent's
control lease, under which every provider command of the agent runs; the media
core tells the ownership manager when audio connects and disconnects.

## 2. Plan

Most important first.  Every module has constants with assumptions, one action
per operation and no recursive operator, so that it can be proved about.  A core
component has runs of its own; the others take turns in one module for TLC
(`MCServices`, `MCServicesLive`, `MCHardware`), because they do not read each
other's variables: their state graphs add up instead of multiplying.

Done, in this order:

1. `CallLease` with the abstract contract `CallOwnership`; `ControlLease` with
   `LeasedControl`; `CallCommand` with `CommandJournal`.  Invariants, action
   properties and all three refinements are proved.
2. The components around a call in the application: `OutgoingPreparation`,
   `CallMedia`, `Recording`, `NetworkRuntime`, `RuntimeEvents`, `TelegramBot`,
   `NotificationOutbox`, `Accounts`.  All their safety properties are proved.
3. The components around the modems: `AgentMedia`, `Synchronizer`,
   `LineIdentity`, `MessageExchange`, `IncomingPolicy`, `DataPlane`.  All their
   safety properties are proved.

Left: the hazards of `PROJECT.json` that no property covers (the OTA worker, the
watchdog), and the components section 8 lists.

## 3. Modules and the code

| module | role |
|---|---|
| `CallLease` | `internal/calllease/manager.go`, every operation production code reaches |
| `CallOwnership` | what the manager promises: abstract contract, no records and no deadlines |
| `ControlLease` | `agent/internal/controllease/manager.go`, the commands it protects, the agent process |
| `LeasedControl` | calls are only connected under a lease: abstract |
| `CallCommand` | `internal/communication/service.go` (StartCall, CallAction, EndCall, refresh), journal and call rows |
| `CommandJournal` | accepted once, sent at most once, one verdict: abstract |
| `OutgoingPreparation` | `internal/httpapi/outgoing_preparation.go`, `commitPreparedCall` |
| `CallMedia` | `internal/callmedia`: owners, sessions, hubs, callbacks |
| `Recording` | `internal/recording` and its tables |
| `NetworkRuntime` | `internal/networkruntime`, proxies and network selections |
| `RuntimeEvents` | `internal/runtimeevents`, the live state streams of `internal/httpapi`, the page that reads them |
| `TelegramBot` | `internal/telegram`, `telegramsettings`, `telegramruntime`: settings, poller, SMS commands |
| `NotificationOutbox` | the delivery queues of Telegram and Apple push |
| `Accounts` | `internal/auth` and pairing: password versions, sessions, devices |
| `AgentMedia` | `agent/internal/media/manager.go` |
| `Synchronizer` | the loop, the watcher and the refresh of `internal/communication` |
| `LineIdentity` | `internal/store/stable_lines.go`: which line a card belongs to |
| `MessageExchange` | messages sent and received, from the modem to the rows |
| `IncomingPolicy` | the policy for incoming calls and its actions |
| `DataPlane` | bearers, kernel state and leases of a line in the agent |
| `Absence` | the constant `None` |
| `MCCallLease`, `MCControlLease`, `MCCallCommand` | symmetry and views for TLC |
| `MCServices`, `MCServicesLive`, `MCHardware` | the components that take turns |
| `CallLeaseProofs`, `ControlLeaseProofs`, `CallCommandProofs` | theorems of the core |
| `CallProofs` | invariants of `OutgoingPreparation` and `Recording` |
| `RuntimeProofs` | invariants of `Accounts`, `NetworkRuntime`, `RuntimeEvents`, `CallMedia`, `TelegramBot`, `NotificationOutbox` |
| `ModemInvariants`, `ModemProofs` | inductive invariants and theorems of `AgentMedia`, `Synchronizer`, `IncomingPolicy`, `MessageExchange`, `DataPlane`, `LineIdentity` |
| `ServicesProofs`, `HardwareProofs` | the same facts as theorems of `MCServices` and `MCHardware` |

Definitions marked "Mutant" stand just before the definition they are a wrong
version of; nothing uses them in the specification.  They record which mistake
each property catches.

### 3.1 CallLease

`rec` is the slice of records by pointer; a pointer somebody still holds (a
missing record under verification, an expired record waiting for its EndCall)
keeps its slot.  Handlers that read the database before they take the mutex are
two actions: `ReadForPrepare`/`Prepare`, and `ReadCall` with `Activate`,
`Refresh` (Renew and Require) or `Claim`.  Everything else that takes the mutex
is one action.  The coordinator is `Commit` (one snapshot becomes rows of
`calls`), `BeginReconcile` (lock), `BindCall` for each call of the snapshot in
any order, `FinishReconcile` (drop, collect, unlock) and `VerifyMissing` for each
missing record, after the unlock; other goroutines run between all of them
except while the mutex is held (`Unlocked`).  `ExpireCalls` is the locked pass of
Run and `EndExpired` the second look before each EndCall.  Deadlines count ticks
left; `Tick` is the clock.

Abstractions: phases are ringing, live (dialing, ringing out, connecting,
active), unknown, ended and relisted; `endRequested` and `inherited` are history
variables.  A relisted row was closed by a quarantine (3.3) and its call is listed
again: `CallByID` shows its phase, so it can be claimed, but its `ended_at` stays
(`hardware.go:1532`) and `ActiveCalls` never lists it again, so no snapshot binds it
and the line counts as free.  `MaxRelisted` bounds such rows.

A reservation is filed under the id of its preparation, a row under the request id
of its start.  The two are the same unless the client chose a request id
(`outgoing_preparation.go:139-149`): `Named` are the preparations of such clients.
Their calls are never bound by request, only by line or by activation.

The clock is read before the mutex in several operations: a reading used late has
the effect of the operation at the reading followed by ticks.

Not modelled: `ReserveOutgoing` without preparation (no production caller);
`ControlStates` beyond the projection `ControlState` used in the properties.

### 3.2 ControlLease

`pc` says where a goroutine is with the read-write gate: waiting behind a writer
(`blocked`), holding the shared side (`shared`, `running` with a checked lease,
`leaving`), announced as a writer (`pending`) and holding the exclusive side
(`inspecting`, `sweeping`).  A command is `Enter`, `Check`, `Dial` or `Answer`,
`Leave`; expiry, release, shutdown and recovery share `Locked`, `Inspect`, one
action per result of one provider hang-up, and `Finish`.  `Launch` and `Exit` are
the process; calls of the modem survive them.  `fault` is a history variable.
Hang-up and reject are not protected in the code, so calls may end at any time.

### 3.3 CallCommand

A thread is a goroutine of the application that waits for or holds
`coordinatorMu`.  Its places follow StartCall and CallAction: `lock`, `ready`
(checks before dispatch), `await` (at the agent), `observe` and `commit` (the
refresh: list of the agent, then transaction and reconciliation), `abort`
(terminateEndpointCall), `settle` (FinishHardwareCommand).  `why` remembers what
the command makes of the snapshot, or the verdict it settles.  `status`,
`resource`, `row` and `boundTo` are database columns and survive `Crash`, as do
the modem's calls and hang-ups still running at the agent (`late`).

A commit begins with the quarantine (`snapshot_conflicts.go`): where modems claim
the same subscription, the lines that do not win lose their calls, messages and
reports from the snapshot, and `closeMissingCalls` closes the rows of calls the
modem still has.  `Commit` may therefore drop any of the snapshot's calls (fault
`quarantined`), and the history variable `hidden` says of a call whether the last
commit dropped it (`now`), an earlier one did (`once`) or none.  A call that comes
back opens its row again.  A start whose own call was dropped finds no row, tells
the agent to end the call and leaves its entry pending (`Stranded`).  What is left of
the properties: a row is closed only while its call is over or was just dropped; a
completed hang-up has a closed row unless a dropped call came back; a released
reservation's call is over or has an open row unless it was dropped.

The other modules that read snapshots take them after the quarantine: `LineIdentity`
has it as an operator; in `CallLease` it makes rows end and relist; in
`IncomingPolicy` and `CallMedia` a dropped call looks like one that ended (a modem
whose listing misses a call), and for `MessageExchange` it is a snapshot that lists
less for a while.

`Faults` names the error paths an instance allows; each element is a way the
code itself has of leaving the normal path (the comments at `AllFaults`).  The
agent's provider runs one command or snapshot at a time, so a dial whose answer
was lost is over when the next snapshot is taken; only hang-ups, whose context
the agent detaches from the request, can still run later.

Not modelled here: answer and tones (they neither end a call nor change its
row), observation revisions of rows (the mutex orders snapshots; `RowsTruthful`
shows what that order is worth).  Messages, the policy for incoming calls and the
refresh loop are `MessageExchange`, `IncomingPolicy` and `Synchronizer`.

### 3.4 OutgoingPreparation

A preparation has a timer, a media session, a binder that attaches its hardware and
perhaps a commit, which holds `preparation.mu`, and a DELETE; `dispatch` is the
context `dispatchCancel` cancels.  Of the ownership manager and the command journal
it has what the code asks them: the phase of the reservation, the journal's entry
(`StatusAfterRestart` is what a new process finds in it) and the modem's call.
`dials` counts how often a request was dialled.

### 3.5 CallMedia and AgentMedia

`CallMedia` has the owner's stages from opening to done, the lifetimes a snapshot's
sweep cancels, the shared hubs with their table, and what the last callback told the
ownership manager (`alive`).  A connection is reported only while the call's
lifetime exists (`Reportable`): a sweep that gave up waiting for an owner deletes the
lifetime, and the owner may then connect without a word.  `AgentMedia` has
for each open its caller and its runner, two goroutines with their part of
pendingOpens, activeEndpoints and sessions.  Audio itself is data.

### 3.6 Recording

`rec`, `seg` and `file` survive a crash; `worker` and `work` are the goroutine that
writes a segment, and `job`, `target`, `fresh` and `todo` what the holder of
reconcileMu is doing.  `Recover` is what the next start makes of tables and files.

### 3.7 NetworkRuntime, TelegramBot, NotificationOutbox

`NetworkRuntime` has the desired rows with their revisions, what the agent runs in its
boot epoch, and the goroutine that applies one to the other; `accepted` remembers
what any agent took.  `TelegramBot` has the unit's row, the settings request that
replaces the token, the poller and the journal of the SMS commands; `crossed` says
that the offset of one bot was written into the row of another (section 7).
`NotificationOutbox` has both delivery queues and, known only to the specification,
what the services accepted (`told`, `rang`).

### 3.8 RuntimeEvents and Accounts

`RuntimeEvents` has one coalesced signal per stream, the sections of the state and
their cache, the pages that read them, and the limiter.  `Accounts` has the rows of
account, sessions and devices, and the operations that check a password in one step
and write in another (`op`), so that changes of the password run between them.

### 3.9 Synchronizer, IncomingPolicy, MessageExchange

`Synchronizer` counts changes: calls, messages and line states are one version,
telemetry another, and every observation is the pair with the agent's epoch.
`refresh` is the holder of coordinatorMu, `run` the loop at its select, `watcher` the
stream from the agent.  `IncomingPolicy` has the modem's calls (`phases`), the rows
(`history`), the policy's queue and the coordinator that works it off.
`MessageExchange` has the modem's objects with the identity the agent gives them,
which a restart of ModemManager changes; a request of the application passes
`app` and the agent's `handler`, and snapshots run between their steps.

### 3.10 LineIdentity

What `ApplyHardwareSnapshot` does to the tables that say which line a card, a
number and a device belong to: one recursive function over the lines of a
snapshot (`Visited`), with the merge of two lines that turn out to be one.
People move cards and operators change numbers between snapshots.

### 3.11 DataPlane

`mm` is ModemManager with its bearers, `owned` and `net` the two files with what
memory has of them, `kernel` what is on the host, `runtime` the goroutine that keeps
the leases.  `op` walks the places of a bearer operation, `dp` those of a call into
the data plane, which holds its mutex; either may fail at each step and the agent
may die between any two.

## 4. Runs

All runs finish within the limits on two workers; the counts are distinct
states.  Symmetry is used in safety runs only.  Views leave out history
variables that no property of the run reads.

| run | instance | what it shows |
|---|---|---|
| `calls` (741 k) | 2 sessions, 1 request, 2 calls of one line, no relisted row | one owner per line, one record per identity and session, projections are exclusive, inherited calls stay occupied, ownership is final, the contract `CallOwnership` is implemented |
| `liveness` (116 k) | 1 session, 1 request of a client that named it, 1 call that may be relisted | orphans end, ending calls reach EndCall, reservations lapse |
| `line_match` | 1 session, 2 calls | finding 1 |
| `control_safety` (342 k) | 2 applications, 3 calls, 2 lines, 2 handlers, lease of 2 ticks | no connected call without its lease or a pending cleanup; `LeasedControl` is implemented |
| `control_liveness` (6 k) | 1 application, 2 calls of one line, 1 handler | abandoned calls end, commands are answered, cleanup ends |
| `control_suppressed` | 1 application, 2 calls | finding 2 |
| `command_safety` (1.0 M) | 2 starts, 1 hang-up, EndCall, 1 call, 2 threads, every fault | rows are true of the modem but for dropped calls, completed means done, `CommandJournal` is implemented |
| `command_outcome` (17.6 k) | 1 start, EndCall, 1 call, 2 threads; crash, lost, late, garbled, unseen, quarantined | verdicts and errors are true of the modem; commands settle, rows converge |
| `command_failed` | 1 start, 1 call; lost, refused | finding 3 |
| `services` (1.65 M) | the eight components around a call, ten instances | `MCServices`: one invariant per component and what no step may do |
| `hardware` (1.64 M) | the six components around the modems | `MCHardware`: what the application believes, one device per endpoint, what no step takes back, lines and the data plane |
| `services_live` | five components, smaller | `MCServicesLive`: what each owes in the end |

The instances of `services`: two preparations of one request and a window of 1;
two owners and one hub, and one owner and two hubs; one recorded call with two
segments; one proxy, two revisions, epochs and attempts; one event for both
queues; two bots with one update each, and one bot with two; two streams of one
session, two sections, limits of two; three tokens, two devices, two slots, limits
of two sessions and one device, two revisions.  Of `hardware`: two opens, calls and
endpoints; one change of the calls, of the signal and one agent restart; two
modems, cards and numbers, two lines and one move; one send, one incoming message,
one restart of ModemManager, two revisions of the policy; two ringing calls, one
action at a time, one change of the policy and one listing that misses a call; one
address by host SLAAC, one bearer per ModemManager process, and one restart or
replaced device.

Why the bounds are enough.  Two of whatever competes (sessions, requests,
handlers, applications, threads, owners, hubs, opens, bots, streams) is what a race
needs.  Two calls on one line are call waiting; two slots are what two calls, or a
call and a reservation, occupy.  A grace of one tick has all three cases -
running, due, none - and the lease of two ticks also "renewed before it was due".
Three calls and two lines in `control_safety` let a sweep skip the rest of one line
and go on with the other.  The lease runs use one line: the rule across lines is
`HolderExclusive`, proved for any number of lines.  `calls` has no relisted row and
no named request, whose safety the theorems cover (with one relisted row it has 1.73 M
states and passes); `liveness` has both.  In `command_outcome` one start
is enough because threads only meet in the journal and in `coordinatorMu`, which
`command_safety` covers with two.  One restart, crash or lost answer at any place
is enough where the state it leaves does not count them; where it does (epochs,
revisions, attempts) the bound is two.  Where there is a theorem (section 6) the
bound only decides how soon a mistake is found.  Larger instances were checked once
without a violation: `CallMedia` with two owners and two hubs (534 k),
`NetworkRuntime` with three revisions (234 k), `Synchronizer` with two changes
(655 k) and with two agent restarts (1.28 M), `LineIdentity` with three lines (23 k),
`DataPlane` with static bearers and SLAAC (963 k), with all three methods and a
replaced device (386 k) and with two restarts and two devices (2.18 M), and the
inductive invariants of section 6 on the instances of the runs.

Deadlock is checked in the control and command runs.  In the others it is not: when
all calls are over and all requests are used up, nothing is left to do.

Which properties meet which hazard is listed in `PROJECT.json`.

## 5. Fairness

* `CallLease`: the clock, the ticker's pass and each EndCall it owes, under
  strong fairness because the mutex enables and disables them (Go's mutex hands
  over to a waiter after 1 ms), and the coordinator's locked loop, under weak
  fairness because it holds the mutex.  Snapshots are NOT fair: liveness must
  hold when the agent never answers again.
* `ControlLease`: the clock, the ticker's wish for the gate, readers and the
  writer (sync.RWMutex starves neither), and the commands of a sweep.  The
  strong fairness of `Inspect` and `HangsUp` says that a modem that is asked
  again and again does not fail every time; without it no program can end a
  call.  Calls, renewals, release, shutdown and crash are not fair.
* `CallCommand`: the poll loop and the lock under strong fairness, each step of
  a thread that holds the lock under weak fairness (contexts bound every wait
  for the agent and the database), and strong fairness of `Observe` and `Commit`:
  the agent and the database do not fail every time.  The application is
  started again after a crash (the container's restart policy).  Crashes, lost
  answers and new commands are not fair.
* `OutgoingPreparation`: handlers run on, timers fire, the ticker and snapshots
  come.  Nobody has to renew, to delete or to send audio.
* `CallMedia`: goroutines run on, an open of the agent returns (its context has a
  deadline), a cancelled context is noticed.
* `Recording`: workers and the holder of the lock run on, snapshots come, and the
  database does not refuse every start (strong fairness).
* `RuntimeEvents`: a write to a stream returns, and select takes a case that is
  ready again and again (strong fairness of `AuthTick`: Go chooses among the ready
  cases at random).
* `Synchronizer`: watcher, loop and refresh run on, select does not pass over a
  case forever, and from some time on agent and database answer: with failures
  forever no page can be up to date.

## 6. What is proved

tlapm proves every step for every value of the constants, from the named
assumptions only.  Those of the core are `LeaseAssumption` (distinct markers, a
window not shorter than the grace), `ControlAssumption` (the ticker and main are
not handlers, the duration is positive), `FaultsAssumption` and `NamesAssumption`
(request ids, calls and the empty string are distinct; nothing about how many
there are).  Those of the components are collected in `ServicesAssumption` and
`HardwareAssumption`, which TLC evaluates on the instances: "nothing" (`None`) is
none of the things, bounds are naturals, the tables that are counted are finite, a
snapshot lists finitely many modems, a card has one IMSI, owners are not hubs.

**Ownership manager** (`CallLeaseProofs`).  `OneOwnerPerLine` is not inductive:
whether a step keeps it depends on what a record may look like.  `IInv` adds the
shape of records (only a reservation has no call, only a call is ending, a
preparation is not bound, a record stays on the line of its call), what a
handler may remember of its stale read (a line never changes, so the line it
read is still the call's), uniqueness per call and per request, and one record
per session.  Stale reads are harmless exactly because everything else is looked
at again under the mutex; `PrepareStep`, `ActivateStep`, `ClaimStep` and
`BindStep` are where that is shown.  Theorems: `Invariant`, `TypeCorrect`,
`LineExclusive`, `HolderExclusive`, `IdentityUnique`; `ProjectionIsExclusive` and
`InheritedCallsStayOccupied`, which need that a pre-restart call keeps a record
nobody holds; `FinalOwnership`, an action property; and `Implementation`: the
manager implements `CallOwnership`.  All seven properties of the run `calls` are
theorems.

**Control lease** (`ControlLeaseProofs`).  `CallsUnderLease` needs that a command
that runs still has the lease it was checked against, which needs the gate
(`GateExcludes`), and that a sweep without an error has every connected call
still before it (`SweepMissesNothing`).  Theorems: `Invariant`, `TypeCorrect`,
`OrphansAreCleaned`, and `Implementation`: the specification implements
`LeasedControl` under the refinement that forgets gate, clock and sweeps and
keeps of each call who connected it.

**Call commands** (`CallCommandProofs`).  `IInv` has ten parts: types,
`Exclusive` (one thread beyond the lock, none without a process), `Owned` (a
thread's command is pending and its own), `Shape` (which reason at which
place), `Sent` (sent at most once, a dial makes at most one call),
`RowsTruthful`, `HiddenCalls` (a dropped call was the modem's and has no open row),
`Recent` (the snapshot being committed is newer than every row,
the reason rows are truthful), `Established` (what the running command knows of
its call) and `CompletedIsTrue`.  On top of it three further invariants, each
under the exclusion of the faults that break it:

* `FailedStartsMadeNoCall`, unless the agent reports an error for a dial it
  made (`ghost`) or answers a snapshot with an error code (`refused`, finding 3);
* `ReleasedReservationsAreResolved`, unless snapshots or verdicts cannot be
  stored (`unsaved`, `unrecorded`) or the agent misreports (`ghost`), and but for a
  call that a quarantine dropped;
* `PendingCommandsRun`, unless a snapshot cannot be stored or reconciled or a
  verdict not recorded, and but for stranded starts.

Further theorems: `InvariantHolds`, `RowsAreTruthful`,
`CompletedCommandsAreTrue`, and `ImplementsTheJournal`: the coordinator implements
`CommandJournal`.  They hold under every fault.

**The components around a call** (`CallProofs`, `RuntimeProofs`; `ServicesProofs`
states the same of `MCServices`, so that all eight properties of the run `services`
are theorems).  Each has an inductive invariant:

* `PrepInv`: a commit holds a preparation that is still prepared; the handler between
  its journal entry and its dial is the only one of its request, and nothing has been
  dialled for what the journal does not know (`DiallingIsExclusive`,
  `JournalKnowsDials`).
* `RecInv` = `QuietIsIdle`, `StartInOrder`, `SegmentAtWork`, `EntryAtWork`,
  `ShownIsTended`: a segment in progress has a worker or a pass that knows of it.
* `MediaInv`: an owner with a session keeps its place in the table, a call has one owner
  there, and the last callback agrees with it unless a sweep took the owner's lifetime
  (`SweepInv`: while an owner is linked its lifetime exists); a hub that works in a lifetime that is
  not cancelled is its call's entry.
* `BotInv` = `HandledBelow` (what is confirmed was handled), `OffsetsFollowHandling`
  until `crossed`, `SmsIsJournalled`, `PollerIsManaged`.
* `OutboxInv` = `TeleInv`, `PushInv`, `UnknownIsUnqueued`: a row nobody claimed was not
  posted, and attempts count what the service may have accepted.
* `AccountInv`: with its types the property itself is inductive, because every
  operation looks at the account again in the transaction that writes.
* `NetInv`: what is called applied was accepted; rows that were read are not newer
  than the tables (`TokensAreOld`), an agent has accepted what was put (`PutWasTaken`),
  and the selection being told is the current one, because it changes under
  reconcileMu (`ChosenIsCurrent`, `ToldBySeen`, `NothingAhead`).
* `EventsInv`: what a stream has not shown is signalled or being built, and the
  limiter's counters are cardinalities of the sets of open streams.

**The components around the modems** (`ModemInvariants`, `ModemProofs`;
`HardwareProofs` states the same of `MCHardware`):

* `AgentMediaInv`: a lease belongs to exactly one open, pending open and session
  agree with the two goroutines of it, and an open device has an owner or a closer.
* `SyncInv` = `DigestsAreTold` (a digest is kept only of what pages were told),
  `LeaseIsWatched`, `RefreshIsAwaited`, `ObservedIsReal` (what is held by a refresh
  was true of the modems not after now).
* `IncomingInv` = `UnseenIsUntouched`, `ClaimedOnce`, `ClosedIsReported`,
  `AnsweredIsSeen`: an action is executed only on a call the snapshot under the lock
  shows ringing, and an answered call is in no later snapshot as ringing.
* `MessagesInv` = `ObjectsAreKnown`, `ObjectsAreUnique`, `HandledOnce`,
  `RowsFollowRequests`, `DeletedIsStored`, `NoMessageLost`, `RowsAreTrue`: an object
  identifies one try of one request in one ModemManager process, and is deleted only
  after a row has taken over what it said.
* `DataPlaneInv` is `DataPlaneIsOwned` with what each step of a setup, a release or a
  refresh holds in hand: a preparation is in the journal before it is on the host, what
  a setup has ready to write is of a device at least as new as the one before, the
  kernel has nothing any more of what it replaces, a release leaves neither leases nor
  a preparation, and a record names a bearer the agent made in the process of
  ModemManager it names.  The step that needs them together is the write of a new
  network: what is still in the kernel of the old one has to be in the new record, which
  holds only because nothing obsolete is left, items of a device are of the one that is
  there and indexes only grow.  That nobody else's bearer is ended is then a fact of the
  records and of the place of the operation.
* `LinesInv` says of the tables, as one transaction works on them, that keys are unique,
  names resolve, cards and modems agree (`PlacesAgree`), a line is in one place, a line
  without a number is one subscription's (`OneSubscriptionBut`: only a number makes cards
  replacements of each other) and a line left by an upgrade is nobody else's
  (`LegacyIsAlone`).  Within a visit each of these may fail for the one line the visit is
  about; `Ready` says what is true of it between the steps (found, made, merged, named,
  claimed, attached), and `AttachedStay` that no later visit of the snapshot merges away
  a line an earlier one has attached.  That holds because no two modems of a snapshot
  show one subscription after the quarantine (`QuarantineDistinct`) and a line with
  another number is not an alias.  The visits are a recursive function; that it exists
  and that the tables are consistent after every visit (`VisitsExist`, `VisitsKeep`) is
  an induction over the list, by the least place that is an exception (`CountUp`).

The four properties of the run `hardware` are theorems.

An attempt that failed showed a mistake of the model: two arms of a CASE in
`FinishLogin` of `Accounts` overlapped.  TLC takes the first; the logic allows either,
so that a session cut off by the cap could have kept its password.  The arms are
disjoint now.

Only model-checked: all liveness properties.  Fairness and ENABLED are outside the
prover.

## 7. Findings

1. **A reservation is matched by line although two calls could be meant**
   (`line_match`).  `docs/call-ownership-and-convergence.md:159-161`: "the sole
   pending reservation on that line may bind to the sole observed outgoing call".
   `matchPendingCallLocked` counts the reservations of the line, not the
   outgoing calls that were observed.
2. **A call that ends during a sweep takes another one out of it**
   (`control_suppressed`).  The comment at `manager.go:303-305` says absence must
   not suppress the cleanup of another call of the line; only ErrorNotFound is
   treated so, but the provider answers Conflict for a call it still lists as
   terminated.  Expiry and release repeat the sweep (`CleanupEnds` holds);
   shutdown does not, and a recovery ends the agent's start.
3. **An unknown dial is journalled as failed** (`command_failed`).
   `reconcileIndeterminateStart` joins the error of the failed snapshot to the
   cause, `agentErrorCode` finds the snapshot's agent error in it, and the dial
   whose outcome nobody knows is settled as failed; the test at
   `service_test.go:838` requires indeterminate.

Two consequences of one path are visible in the conditions of the theorems
above: when the snapshot after an accepted dial cannot be stored
(`service.go:2077-2122`), StartCall returns without settling its entry, which
stays pending with nothing running until the next start, and without the marker
that keeps the reservation, even if its own hang-up failed.

What the quarantine does to calls is not what the documentation says of snapshots:
`docs/call-ownership-and-convergence.md:155-157` lets a reservation go only after a
failure that proves no call was created or a snapshot that resolves it, but a snapshot
without the quarantined line's calls resolves it while the call is up, and its row
is closed: EndCall then finds nothing to end.  `ReleasedIsResolved` and `RowsTruthful`
state the exception.

What else the models show of the code.  These are in the models as the code has
them; the properties are stated so that they hold.

* *Preparation.*  `commitPreparedCall` returns between BeginOutgoing and the point
  from which the reservation is released (`httpapi/communications.go:537`, `557`):
  the line stays blocked until DELETE or revocation.  A dispatch cancelled before it
  starts leaves its media session open until the socket's next check
  (`outgoing_preparation.go:311`).
* *Recording.*  A recording that is pending without a segment when the process dies,
  and whose call ends meanwhile, stays pending until the next start
  (`recording/service.go:461`).
* *Network.*  After a restart of the agent only network selections are applied again;
  proxies are shown as applied until the next mutation.
* *Telegram.*  Replacing the token resets the offset while the old poller still runs;
  its AdvanceTelegramOffset may write the old bot's offset into the new bot's row
  (`telegramsettings/service.go:396`, `store/telegram.go:351`): `crossed`.
* *Streams.*  A section whose build fails counts as built for that revision
  (`runtime_events.go:636`) and is not tried again until the next signal.
* *Apple push.*  A finish or requeue that fails leaves the row "sending" until the
  next start.
* *Agent media.*  The paths of a pending open release the endpoint before the device
  is closed, unlike Session.Close; `OneDevicePerEndpoint` therefore speaks of leases,
  and of devices that are about to be closed.
* *Synchronizer.*  The watcher starts only after a refresh that Run itself made
  (`service.go:1375-1401`): if the first fails and a caller's succeeds, maintenance
  only reads telemetry, and commands are refused until the next start.  A failed
  reconcile leaves committed data unpublished until the next change.
* *Lines.*  The quarantine compares what a snapshot reports; two modems whose cards
  only the database knows to be one number make ApplyHardwareSnapshot refuse the
  whole snapshot until both report it.
* *Messages.*  A snapshot between the creation of an SMS object and its refused send
  stores an outgoing row nobody sent; a report seen before the request's row asked for
  it is consumed; SendMessage may overwrite "sent" by "unknown"; an incoming message
  that is still in the modem when ModemManager restarts is stored and notified twice.
* *Ownership.*  A call whose client chose its own request id is bound by its line or by
  its activation only (`calllease/manager.go:857`).  A relisted row can be claimed
  although its line counts as free.
* *Incoming calls.*  "rejected" is never an end reason (`modemmanager/parse.go:519`),
  so `Missed` leaves that check of `closeMissingCalls` out, and calls the policy rejected
  are notified as missed (`hardware.go:1626`).
* *Data plane.*  A crash between `apply` and `persist` leaves state the file does not
  list, which the next start takes for foreign and refuses to start
  (`data_plane_linux.go:1752`); rolling back a preparation forgets its journal entry
  even if the removal failed (`879`); a lease whose expiry could not be recorded is
  not tried again (`1175`): the orphans of the model.  Bearers are named by paths,
  which a restart of ModemManager gives to others: `EndsOwnBearers` holds while the
  operation's epoch is ModemManager's.
* *OTA.*  A worker that dies in an update leaves it "running", and every later one is
  refused (`ota/controller.go:130`); not modelled.

## 8. Not modelled

Every component of section 1 without a module is listed with its reason in
`PROJECT.json`.  Left out for good: what happens inside D-Bus, ModemManager, the
kernel and audio devices (modelled only as commands that work, fail, or get lost),
codecs and frames, wide SQL projections, certificates, user interfaces, and build
and deployment scripts.  Within the modelled components: line details and
configuration commands of the communication service, contacts, retention, and the
stream write that has no deadline (taken to return).  Read but not modelled: a call
whose Start fails stays in ModemManager and makes later starts conflict; hang-up
verification after a ModemManager restart succeeds because the id is unknown;
restarting a modem does not look for ongoing calls; the OTA updater and the call
watchdog, whose hazards no property covers yet.
