-------------------------- MODULE ModemInvariants ---------------------------
(***************************************************************************)
(* The components around the modems, in the agent and in the application:  *)
(* what the proofs need of the constants, and the invariants that are      *)
(* inductive, with their parts and what a step keeps on its way.  The      *)
(* parts are independent.                                                  *)
(***************************************************************************)
EXTENDS AgentMedia, Synchronizer, IncomingPolicy, MessageExchange,
        DataPlane, LineIdentity

-----------------------------------------------------------------------------
(***************************************************************************)
(* The audio devices of the host agent                                     *)
(***************************************************************************)

\* What the proofs need of the constants: "nothing" is none of the things.
AgentMediaAssumption ==
  None \notin Opens /\ None \notin ModemCalls /\ None \notin Endpoints

\* An open whose lifecycle has begun has a call, and the runner's place tells
\* how far it has come: a lease is taken before the backend opens the device,
\* the open stays pending until the backend answers, and it keeps its device
\* for the caller afterwards.
RunnerInOrder(o) ==
  /\ open[o].call = None <=> open[o].caller = "idle"
  /\ open[o].call = None <=> open[o].runner = "idle"
  /\ open[o].caller = "idle" => open[o] = Unused
  /\ open[o].opening =>
       /\ open[o].runner \in {"open", "finish"} /\ Owned(o)
       /\ open[o].endpoint # None /\ ~open[o].completed
  /\ open[o].completed => open[o].runner = "done"
  /\ open[o].runner = "resolve" => open[o].endpoint = None
  /\ open[o].runner = "open" => open[o].opening
  /\ open[o].runner = "finish" /\ open[o].endpoint # None => open[o].opening
  /\ open[o].runner = "done" /\ Owned(o) => open[o].completed

\* A pending open has somebody who waits for it, or was given up while the
\* backend opens its device; after Close there is none of the first kind.
CallerInOrder(o) ==
  /\ Owned(o) =>
       /\ \/ open[o].caller = "wait"
          \/ open[o].caller = "left" /\ open[o].abandoned
       /\ open[o].abandoned => open[o].opening
       /\ closed => open[o].abandoned
  /\ open[o].caller \in {"session", "release"} =>
       /\ open[o].runner = "done" /\ mediaSession[open[o].call] = o
       /\ open[o].endpoint # None

\* An open device is the one that was leased, and somebody will close it.
DeviceInOrder(o) ==
  /\ openDevice[o] # None =>
       /\ openDevice[o] = open[o].endpoint
       /\ open[o].runner \in {"finish", "done"}
       /\ \/ open[o].runner = "finish" \/ open[o].caller = "session"
          \/ Owned(o) \/ o \in closing
  /\ o \in closing =>
       /\ openDevice[o] # None /\ open[o].runner = "done" /\ ~Owned(o)
       /\ open[o].caller \in {"wait", "left"}

\* A call has a pending open or a session, never both.
CallsInOrder ==
  \A c \in ModemCalls :
    /\ pending[c] # None =>
         open[pending[c]].call = c /\ mediaSession[c] = None
    /\ mediaSession[c] # None =>
         /\ open[mediaSession[c]].call = c
         /\ open[mediaSession[c]].caller \in {"session", "release"}

\* The two halves of LeasesAreHeld.
EndpointsLeased ==
  /\ leased = {open[o].endpoint : o \in Holders}
  /\ \A o, p \in Holders : open[o].endpoint = open[p].endpoint => o = p

CallsActive ==
  active = {c \in ModemCalls : pending[c] # None \/ mediaSession[c] # None}

OpensInOrder ==
  \A o \in Opens : RunnerInOrder(o) /\ CallerInOrder(o) /\ DeviceInOrder(o)

AgentMediaInv ==
  /\ AgentMediaTypeOK
  /\ OpensInOrder
  /\ CallsInOrder
  /\ EndpointsLeased
  /\ CallsActive

-----------------------------------------------------------------------------
(***************************************************************************)
(* The refresh loop, the watcher and what pages were told                  *)
(***************************************************************************)

\* A refresh: who asked for it, how far it is and what it has observed.
Refreshes == [by : {"run", "caller", "sampler"},
              step : {"observe", "apply", "show", "reconcile", "publish"},
              seen : {None} \cup [epoch : Nat, calls : Nat, radio : Nat]]

\* The type invariant of the synchronizer.
SyncTypeOK ==
  /\ calls \in Nat /\ radio \in Nat /\ db \in Nat
  /\ agent \in [up : BOOLEAN, epoch : Nat]
  /\ watcher \in {"off", "dialing", "waiting", "opened", "told", "open",
                  "lost", "ended"}
  /\ run \in {"refresh", "wait", "select", "sample", "renew", "release",
              "leaving", "stopped"}
  /\ sample # None => sample \in [epoch : Nat, radio : Nat]
  /\ refresh # None => refresh \in Refreshes
  /\ status \in [connected : BOOLEAN, error : {None, "agent", "store"},
                 events : BOOLEAN, epoch : Nat, radio : Nat]
  /\ digest = [lines |-> digest.lines, calls |-> digest.calls]
  /\ shown = [lines |-> shown.lines, calls |-> shown.calls]
  /\ control \in [supported : BOOLEAN, healthy : BOOLEAN, wanted : BOOLEAN]

\* The digests are what pages were told, under the lock too.
DigestsAreTold ==
  /\ shown.lines = digest.lines
  /\ digest.calls # None => shown.calls = digest.calls[2]
  /\ ~status.connected => digest.lines = None

\* Run waits for a refresh of its own, and publishes while it is connected.
RefreshIsAwaited ==
  refresh # None =>
    /\ refresh.by = "run" => run = "refresh"
    /\ refresh.by = "sampler" => run = "wait"
    /\ refresh.step \in {"reconcile", "publish"} => status.connected

\* What was committed and shown was observed, and what the refresh under the
\* lock has seen is not older.
ObservedIsReal ==
  /\ db <= calls /\ status.radio <= radio
  /\ sample # None => sample.radio <= radio
  /\ (refresh # None /\ refresh.step # "observe") =>
       /\ refresh.seen \in [epoch : Nat, calls : Nat, radio : Nat]
       /\ refresh.seen.calls \in db .. calls
       /\ refresh.seen.radio \in status.radio .. radio

\* The inductive invariant of the synchronizer.
SyncInv ==
  SyncTypeOK /\ DigestsAreTold /\ LeaseIsWatched /\ RefreshIsAwaited /\ ObservedIsReal

-----------------------------------------------------------------------------
(***************************************************************************)
(* The policy for incoming calls                                           *)
(***************************************************************************)

\* What the modem has of a call.
Phases == {"none", "ringing", "active", "gone"}

\* The refresh or action that holds the coordinator.
Locks ==
  [pc : {"idle", "refresh", "fetched", "committed", "acting", "finishing"},
   snap : [RingingCalls -> Phases], hidden : Nat,
   claimed : SUBSET RingingCalls, now : RingingCalls \cup {"none"}]

\* The type invariant of the policy for incoming calls.
IncomingTypeOK ==
  /\ phases \in [RingingCalls -> Phases]
  /\ answered \subseteq RingingCalls
  /\ rejects \in [RingingCalls -> Nat]
  /\ history \in [RingingCalls ->
       [phase : {"none", "ringing", "active", "ended"}, connected : BOOLEAN,
        ended : BOOLEAN]]
  /\ decided \in [RingingCalls -> {"none", "dnd", "receive"}]
  /\ action \in [RingingCalls -> {"none", "pending", "sending", "finished"}]
  /\ lock \in Locks

\* A call without a row is neither decided, announced nor rejected; an action
\* is only made for a call whose policy rejects it.
UnseenIsUntouched ==
  \A c \in RingingCalls :
    /\ history[c].phase = "none" =>
         decided[c] = "none" /\ action[c] = "none" /\ ~history[c].ended
    /\ <<"incoming", c>> \in events => decided[c] = "receive"
    /\ action[c] # "none" => decided[c] = "dnd"

\* An action has not reached the agent before it was claimed, and of the claimed
\* ones only the one in hand.
ClaimedOnce ==
  /\ \A c \in RingingCalls :
       /\ rejects[c] <= 1
       /\ rejects[c] > 0 => action[c] \in {"sending", "finished"}
  /\ lock.pc \notin {"acting", "finishing"} => lock.claimed = {}
  /\ lock.pc = "finishing" => lock.now \in lock.claimed
  /\ \A c \in lock.claimed :
       /\ action[c] = "sending"
       /\ \/ lock.pc = "finishing" /\ lock.now = c
          \/ rejects[c] = 0

\* A call that was closed is reported unless it had been connected.
ClosedIsReported ==
  \A c \in RingingCalls :
    /\ history[c].phase = "ended" => history[c].ended
    /\ history[c].ended /\ ~history[c].connected => <<"missed", c>> \in events
    /\ <<"missed", c>> \in events => history[c].ended

\* The snapshot in hand has no call ringing that was answered.
AnsweredIsSeen ==
  \A c \in answered :
    /\ phases[c] # "ringing"
    /\ phases[c] # "none"
    /\ lock.pc \in {"fetched", "committed", "acting", "finishing"} =>
         lock.snap[c] # "ringing"

\* The inductive invariant of the policy for incoming calls.
IncomingInv ==
  IncomingTypeOK /\ UnseenIsUntouched /\ ClaimedOnce /\ ClosedIsReported /\ AnsweredIsSeen

\* A snapshot shows of each call what it is, or nothing.
Fetched ==
  /\ lock' \in Locks /\ lock'.pc = "fetched" /\ lock'.claimed = lock.claimed
  /\ \A c \in RingingCalls : lock'.snap[c] \in {phases[c], "none"}

-----------------------------------------------------------------------------
(***************************************************************************)
(* Messages from the modem to the rows                                     *)
(***************************************************************************)

\* What the proofs need of the constants: "nothing" is no request and no status.
MessagesAssumption ==
  None \notin Sends \cup {"executing", "completed", "failed", "indeterminate",
                          "submitted", "delivered"}

\* The identifiers of message objects, the objects, the rows made of them, the
\* handlers of the agent, the requests of the application and their statuses.
MessageIds ==
  [kind : {"in", "out", "report"}, of : Sends \cup Incoming, try : 0..2, epoch : Nat]

Objects ==
  [id : MessageIds,
   state : {"receiving", "received", "unknown", "sent", "delivered", "failed"},
   report : BOOLEAN]

MessageRows ==
  [id : MessageIds, req : Sends \cup {None}, whole : BOOLEAN, ref : BOOLEAN,
   asked : BOOLEAN, status : {None, "submitted", "delivered", "failed"}]

Handlers ==
  [pc : {"idle", "create", "send", "done", "error"}, report : BOOLEAN,
   refused : BOOLEAN, try : 0..2]

Requests ==
  [pc : {"idle", "begun", "waiting", "policy", "record", "finish"},
   rev : Nat, asks : BOOLEAN, of : 0..2 \cup {None}]

Statuses == {None, "executing", "completed", "failed", "indeterminate"}

\* Every object is of the process that is running.
MessagesTypeOK ==
  /\ epoch \in Nat /\ arrived \subseteq Incoming
  /\ modem \subseteq Objects
  /\ handler \in [Sends -> Handlers] /\ sent \in [Sends -> Nat]
  /\ app \in [Sends -> Requests] /\ journal \in [Sends -> Statuses]
  /\ policy.rev \in Nat /\ policy.enabled \in BOOLEAN
  /\ snap # None => snap \subseteq Objects
  /\ rows \subseteq MessageRows
  /\ cleanup \in [pending : SUBSET MessageIds, deleting : MessageIds \cup {None}]

Exists(o) == o \in modem \/ (snap # None /\ o \in snap)

\* An object is what its kind says, and a report is about a message that was sent.
ObjectsAreKnown ==
  \A o : Exists(o) =>
    /\ o.id.kind = "in" => o.id.of \in Incoming /\ o.state \in {"receiving", "received"}
    /\ o.id.kind # "in" => o.id.of \in Sends
    /\ o.id.kind = "out" => o.state \in {"unknown", "sent"}
    /\ o.id.kind = "report" => o.state \in {"delivered", "failed"}
    /\ o.id.kind = "report" \/ (o.id.kind = "out" /\ o.state = "sent") => sent[o.id.of] = 1

\* An identifier names one object: an incoming message arrives once, a request
\* has one object for each try, and a message one report.
ObjectsAreUnique ==
  /\ \A o \in modem : o.id.epoch = epoch
  /\ \A o \in modem : o.id.kind = "in" => o.id.of \in arrived /\ o.id.try = 1
  /\ \A o \in modem : o.id.kind # "in" =>
       o.id.try < handler[o.id.of].try + (IF handler[o.id.of].pc = "create" THEN 0 ELSE 1)
  /\ \A o, p \in modem :
       o.id.kind = p.id.kind /\ o.id.of = p.id.of /\ o.id.try = p.id.try => o = p
  /\ \A o, p \in modem :
       o.id.kind = "out" /\ o.report /\ p.id.kind = "report" =>
         o.id.of # p.id.of \/ o.id.try # p.id.try
  /\ snap # None => \A o, p \in snap : o.id = p.id => o = p

\* A request is handled once: the network has its message when the handler is
\* done, and not before it tries to send it.
HandledOnce ==
  \A s \in Sends :
    /\ sent[s] <= 1
    /\ handler[s].pc \in {"idle", "create", "send"} => sent[s] = 0
    /\ handler[s].pc = "done" => sent[s] = 1
    /\ handler[s].pc = "idle" => handler[s].try = 0
    /\ handler[s].pc # "idle" => handler[s].try \in {1, 2}
    /\ journal[s] = None => app[s].pc = "idle"
    /\ journal[s] = None \/ app[s].pc = "begun" => handler[s].pc = "idle"
    /\ app[s].pc \in {"policy", "record", "finish"} => sent[s] = 1 /\ app[s].of \in {1, 2}

\* A row with a request is the message of that request, and the request has it
\* when its handler has stored it.
RowsFollowRequests ==
  /\ \A r \in rows :
       /\ r.id.kind = "in" => r.whole /\ r.status = None
       /\ r.id.kind # "report"
       /\ r.id.kind = "out" => r.id.of \in Sends
       /\ r.req # None => r.id.kind = "out" /\ r.id.of = r.req
  /\ \A s \in Sends :
       /\ journal[s] = None \/ app[s].pc \in {"begun", "waiting", "policy", "record"} =>
            \A r \in rows : r.req # s
       /\ app[s].pc = "finish" => \E r \in rows : r.req = s
       /\ \A r, q \in rows : r.req = s /\ q.req = s => r = q
       /\ journal[s] = "completed" => sent[s] = 1 /\ \E r \in rows : r.req = s

\* What the cleanup deletes of incoming messages is stored.
DeletedIsStored ==
  \A id \in cleanup.pending \cup ({cleanup.deleting} \ {None}) :
    id.kind = "in" => \E r \in rows : r.id = id

\* The inductive invariant of the messages.
MessagesInv ==
  MessagesTypeOK /\ ObjectsAreKnown /\ ObjectsAreUnique /\ HandledOnce
    /\ RowsFollowRequests /\ DeletedIsStored /\ NoMessageLost /\ RowsAreTrue

-----------------------------------------------------------------------------
(***************************************************************************)
(* The data plane of a line                                                *)
(***************************************************************************)

\* The bearers, what the agent's files say of them and of the kernel, and leases.
BearerRecords ==
  [id : Nat, ours : BOOLEAN, connected : BOOLEAN, method : Methods \cup {"static", None},
   ip : IPs \cup {None}]

OwnRecords == [epoch : Nat, id : Nat]

Nets ==
  [method : Methods \cup {"static", None}, ip : IPs \cup {None}, index : Nat,
   prep : {"none", "found", "ours"}]

Docs == [applied : {None} \cup Nets, pending : {None} \cup Nets]

Runtimes ==
  [method : Methods \cup {"static", None}, ip : IPs \cup {None}, next : IPs \cup {None},
   live : BOOLEAN, renewed : BOOLEAN]

\* What the proofs need of the constants: "nothing" is none of the records.
PlaneAssumption ==
  None \notin OwnRecords /\ None \notin Nets /\ None \notin Runtimes

\* The places of an operation on the data plane: a setup, a release, and the
\* refresh of a lease.
SetupPcs == {"recover", "check", "prepare", "set", "acquire", "replace", "apply",
             "persist", "rollback"}

ReleasePcs == {"release", "drop"}

RefreshPcs == {"refresh", "reapply", "repersist"}

PlanePcs == SetupPcs \cup ReleasePcs \cup RefreshPcs \cup {"idle", "done"}

BearerPcs == {"idle", "off", "restore", "restoring", "activate", "deactivate", "reuse",
              "stale", "release", "disconnect", "delete", "unown", "create", "put",
              "connect", "configure"}

BearerOps ==
  [pc : BearerPcs, then : {"idle", "create"}, fail : {"idle", "off"},
   method : Methods \cup {None}, id : Nat, connected : BOOLEAN, epoch : Nat]

PlaneCalls ==
  [pc : PlanePcs, method : Methods \cup {"static", None}, ip : IPs \cup {None},
   prep : {"none", "found", "ours"}, journaled : BOOLEAN, desired : {None} \cup Nets,
   failed : BOOLEAN, ok : BOOLEAN]

PlaneTypeOK ==
  /\ mm \in [epoch : Nat, made : Nat, bearers : SUBSET BearerRecords]
  /\ knownEpoch \in Nat \ {0}
  /\ owned \in [disk : {None} \cup OwnRecords, mem : {None} \cup OwnRecords]
  /\ net \in [disk : Docs, mem : Docs]
  /\ host \in [index : Nat, already : BOOLEAN]
  /\ runtime \in {None} \cup Runtimes
  /\ op \in BearerOps /\ dp \in PlaneCalls
  /\ host.index > 0

\* The kernel has what the agent remembers, what it is adding, and the orphans;
\* items of a device are of the one that is there.
KernelIsKnown ==
  /\ kernel \subseteq Recorded(net.mem) \cup orphans
       \cup (IF dp.pc \in {"persist", "repersist"} THEN Items(dp.desired) ELSE {})
  /\ \A i \in kernel : OnDevice(i) => i[3] = host.index

\* Both journals can be read, and are about devices that are there or were.
JournalsLoad ==
  \A file \in {net.disk, net.mem} :
    /\ Loadable(file)
    /\ file.applied # None => file.applied.index <= host.index
    /\ file.pending # None => file.pending.index <= host.index

\* What a setup has prepared is in the journal's pending entry, if it is new.
PreparedInOrder ==
  /\ dp.pc \in {"check", "prepare"} => net.mem.pending = None
  /\ dp.pc \in {"acquire", "replace", "apply", "persist", "rollback", "set"} =>
       IF dp.journaled THEN net.mem.pending # None /\ dp.prep = "ours"
       ELSE net.mem.pending = None
  /\ dp.pc \in {"check", "recover", "prepare"} => ~dp.journaled /\ dp.prep = "none"
  /\ dp.pc = "set" => dp.journaled
  /\ dp.pc \in {"prepare", "set"} => Dynamic(dp.method)
  /\ dp.pc \in {"acquire", "replace", "apply", "persist"} =>
       (Dynamic(dp.method) <=> dp.prep # "none")

\* What a setup or a refresh is about to write can be read, is about a device at
\* least as new as the one before, and what it replaces is gone.
ReplacedInOrder ==
  /\ dp.pc \in {"replace", "apply", "persist"} =>
       /\ dp.desired # None /\ dp.desired.method = dp.method
       /\ dp.desired.prep = dp.prep
  /\ dp.pc \in RefreshPcs =>
       /\ dp.desired # None /\ net.mem.applied # None /\ runtime # None
  /\ dp.pc \in {"replace", "apply", "persist"} \cup RefreshPcs =>
       /\ LoadableApplied(dp.desired)
       /\ dp.desired.index <= host.index
       /\ net.mem.applied # None => net.mem.applied.index <= dp.desired.index
       /\ dp.journaled => net.mem.pending.index <= dp.desired.index
  /\ dp.pc \in {"apply", "persist", "reapply", "repersist"} /\ net.mem.applied # None =>
       kernel \cap Obsolete = {}

\* A release leaves nothing, and the data plane works for the step of the bearer
\* operation that called it.
ReleasedIsGone ==
  /\ dp.pc = "drop" => runtime = None /\ (~dp.failed => net.mem.pending = None)
  /\ op.pc \in {"release", "stale"} => dp.pc \in ReleasePcs \cup {"done"}
  /\ op.pc = "restore" => dp.pc \in ReleasePcs \cup {"done", "idle"}
  /\ op.pc = "restoring" => dp.pc \in SetupPcs \cup ReleasePcs \cup {"done"}
  /\ op.pc \in {"reuse", "configure"} => dp.pc \in SetupPcs \cup {"done"}
  /\ op.pc \notin {"release", "stale", "restore", "restoring", "reuse", "configure"} =>
       dp.pc \in RefreshPcs \cup {"idle"}
  /\ op.pc \in {"release", "stale", "restore"} /\ dp.pc = "done" /\ dp.ok =>
       net.mem = NoNet /\ runtime = None
  /\ op.pc \in {"disconnect", "delete", "unown"} =>
       net.mem = NoNet /\ runtime = None /\ dp.pc = "idle"
  /\ op.pc \in {"off", "restore"} => runtime = None
  /\ op.pc = "restoring" /\ ~(dp.pc = "done" /\ dp.ok) => runtime = None
  /\ op.pc = "stale" /\ op.fail = "off" => runtime = None
  /\ op.fail = "off" =>
       op.then = "idle" /\ op.pc \in {"restore", "restoring", "stale", "unown"}
  /\ op.pc = "restore" => op.fail = "off"
  /\ op.pc = "restore" /\ owned.mem = None /\ dp.pc = "idle" => net.mem = NoNet

\* A record names a bearer made for it.
RecordsAreOurs ==
  /\ knownEpoch <= mm.epoch /\ op.epoch <= knownEpoch
  /\ \A b \in mm.bearers : b.id <= mm.made
  /\ \A r \in {owned.disk, owned.mem} :
       r # None =>
         /\ r.epoch <= mm.epoch
         /\ r.epoch = mm.epoch => r.id <= mm.made /\ \A b \in Bearer(r.id) : b.ours
  /\ op.pc \in {"put", "connect"} /\ op.epoch = mm.epoch =>
       op.id <= mm.made /\ \A b \in Bearer(op.id) : b.ours
  /\ \A b \in mm.bearers : b.ours =>
       knownEpoch = mm.epoch /\ (op.pc \notin {"idle", "off"} => op.epoch = mm.epoch)

\* A bearer of ours that is connected is the recorded one.
ConnectedIsKnown ==
  /\ \A b \in mm.bearers : b.ours /\ b.connected =>
       /\ owned.disk = [epoch |-> mm.epoch, id |-> b.id] /\ owned.mem = owned.disk
       /\ op.pc \notin {"stale", "unown", "create", "put"}
  /\ op.pc = "connect" =>
       owned.mem = [epoch |-> op.epoch, id |-> op.id] /\ owned.disk = owned.mem
  /\ op.pc \in {"restoring", "reuse", "configure", "release", "stale", "disconnect",
                "delete", "unown"} => owned.mem # None
  /\ op.pc \in {"release", "disconnect", "delete"} =>
       /\ op.id = owned.mem.id
       /\ op.epoch = mm.epoch => owned.mem.epoch = mm.epoch
  /\ op.pc \in {"create", "put"} => owned.mem = None

\* The inductive invariant of the data plane.
DataPlaneInv ==
  /\ PlaneTypeOK /\ KernelIsKnown /\ JournalsLoad /\ PreparedInOrder
  /\ ReplacedInOrder /\ ReleasedIsGone /\ RecordsAreOurs /\ ConnectedIsKnown
  /\ NetworkHasBearer

-----------------------------------------------------------------------------
\* The data plane is asked for something, or for nothing any more.
Asks(to) ==
  /\ dp.pc \in {"idle", "done"}
  /\ dp' \in PlaneCalls /\ dp'.pc = to /\ dp'.prep = "none" /\ ~dp'.journaled

\* The bearers are those of before or fewer, and none is newly connected.
Fewer ==
  /\ mm' \in [epoch : Nat, made : Nat, bearers : SUBSET BearerRecords]
  /\ mm'.epoch = mm.epoch /\ mm'.made = mm.made
  /\ \A b \in mm'.bearers : \E c \in mm.bearers :
       c.id = b.id /\ c.ours = b.ours /\ (b.connected => c.connected)

-----------------------------------------------------------------------------
\* What may be written to the journal.
GoodDoc(doc) ==
  /\ doc \in Docs /\ Loadable(doc)
  /\ doc.applied # None => doc.applied.index <= host.index
  /\ doc.pending # None => doc.pending.index <= host.index

-----------------------------------------------------------------------------
(***************************************************************************)
(* Stable lines                                                            *)
(***************************************************************************)

\* What the proofs need of the constants: "nothing" is none of the things, and
\* a snapshot lists finitely many modems.
LinesAssumption ==
  /\ None \notin Nat \cup Modems \cup Cards \cup Subs \cup Numbers \cup Rows
  /\ IsFiniteSet(Modems)
  /\ Sub \in [Cards -> Subs]
  /\ First \in Numbers

\* What a modem may say after the quarantine.
Observations ==
  {Empty} \cup
  {o \in [iccid : Cards, imsi : Subs, number : {None} \cup Numbers,
          registered : BOOLEAN, present : BOOLEAN] : o.imsi = Sub[o.iccid]}

\* The tables are a record of these fields.
Whole(tb) ==
  DOMAIN tb = {"lines", "last", "cards", "subs", "devices", "legacy", "rows",
               "at", "ok"}

\* A table has one row for a key.
Keyed(table) == \A x, y \in table : x.id = y.id => x = y

\* The tables and their keys; lines are numbered as they are made.
TablesTypeOK(tb) ==
  /\ tb.last \in Nat
  /\ tb.lines \subseteq [id : 1 .. tb.last, number : {None} \cup Numbers,
                         policy : {"none", "initial", "set"}]
  /\ tb.cards \subseteq [id : Cards, line : Nat, at : {None} \cup Modems]
  /\ tb.subs \subseteq [id : Subs, line : Nat]
  /\ tb.devices \subseteq [id : Modems, card : Cards]
  /\ tb.legacy \subseteq [id : Modems, line : Nat]
  /\ tb.rows \subseteq [id : Rows, line : Nat, number : {None} \cup Numbers]
  /\ Keyed(tb.lines) /\ Keyed(tb.cards) /\ Keyed(tb.subs)
  /\ Keyed(tb.devices) /\ Keyed(tb.legacy) /\ Keyed(tb.rows)

\* Whatever names a line names one there is, a number names one line, and rows
\* are of the number they were stored under.
NamesResolve(tb) ==
  /\ \A x \in tb.cards : x.line \in Ids(tb.lines)
  /\ \A x \in tb.subs : x.line \in Ids(tb.lines)
  /\ \A x \in tb.legacy : x.line \in Ids(tb.lines)
  /\ \A x \in tb.rows : x.line \in Ids(tb.lines)
  /\ \A x, y \in tb.lines : x.number = y.number => x = y \/ x.number = None
  /\ \A x \in tb.rows, y \in tb.lines :
       x.number # None /\ y.id = x.line => y.number = x.number

\* The modem of a card and the card of a modem agree.
PlacesAgree(tb) ==
  /\ \A x \in tb.devices : \E y \in tb.cards : y.id = x.card /\ y.at = x.id
  /\ \A y \in tb.cards :
       y.at # None => \E x \in tb.devices : x.id = y.at /\ x.card = y.id

\* Of the cards of a line other than `line` one at most is in a modem.
OnePlaceBut(tb, target) ==
  \A x, y \in tb.cards :
    x.line = y.line /\ x.line # target /\ x # y => None \in {x.at, y.at}

\* The cards and the subscriptions of a line are of this subscription.
OwnedBy(tb, l, s) ==
  /\ \A x \in tb.cards : x.line = l => Sub[x.id] = s
  /\ \A x \in tb.subs : x.line = l => x.id = s

\* A line without a number other than `line` is one subscription's: only a
\* number makes cards replacements of each other.
OneSubscriptionBut(tb, target) ==
  \A l \in tb.lines :
    l.number = None /\ l.id # target => \E s \in {None} \cup Subs : OwnedBy(tb, l.id, s)

\* A line left by an upgrade is nobody else's and has no number.
LegacyIsAlone(tb) ==
  /\ \A x \in tb.legacy, y \in tb.lines : y.id = x.line => y.number = None
  /\ \A x \in tb.legacy : \A y \in tb.cards : y.line # x.line
  /\ \A x \in tb.legacy : \A y \in tb.subs : y.line # x.line
  /\ \A x, y \in tb.legacy : x.line = y.line => x = y
  /\ \A x \in tb.legacy, a \in tb.at : x.line # a.line

\* The consistency of the tables.
Consistent(tb) ==
  /\ TablesTypeOK(tb) /\ NamesResolve(tb) /\ PlacesAgree(tb)
  /\ OnePlaceBut(tb, None) /\ OneSubscriptionBut(tb, None) /\ LegacyIsAlone(tb)

\* A line the snapshot has attached is still there, and while it has no number
\* it is of the subscription that was seen.
AttachedStay(tb, seen) ==
  \A a \in tb.at :
    /\ a.id \in Modems /\ seen[a.id] # Empty
    /\ \E l \in tb.lines :
         /\ l.id = a.line
         /\ l.number = None => OwnedBy(tb, l.id, seen[a.id].imsi)

\* Rows are kept, and a row whose line was set by hand is of such a line.
SettingsKept(old, tb) ==
  /\ Ids(tb.rows) = Ids(old.rows)
  /\ \A x \in old.rows, y \in tb.rows, k \in old.lines, l \in tb.lines :
       x.id = y.id /\ k.id = x.line /\ l.id = y.line /\ k.policy = "set" =>
         l.policy = "set"

\* The types of the world and of a command under way.
LinesTypeOK ==
  /\ slot \in [Modems -> {None} \cup Cards]
  /\ num \in [Cards -> Numbers]
  /\ unstored = None \/ unstored \in [line : Nat, card : Cards]

\* The inductive invariant of the lines.
LinesInv == LinesTypeOK /\ Consistent(Tables)

\* Lines without a number are merged into one of the lines.
MayMerge(tb, target, A) ==
  /\ target \in Ids(tb.lines) /\ target \notin A
  /\ \A l \in A : \E x \in tb.lines : x.id = l /\ x.number = None

\* What the rows of a rebound table are.
Follows(new, old, target, A) ==
  \A y \in new : \E x \in old :
    x.id = y.id /\ y.line = IF x.line \in A THEN target ELSE x.line

\* The tables after a merge, as far as the rows tell.
MergedTo(d, tb, target, A) ==
  /\ d.devices = tb.devices /\ d.at = tb.at /\ d.last = tb.last
  /\ \A y \in d.lines : \E x \in tb.lines :
       /\ y.id = x.id /\ y.number = x.number /\ x.id \notin A
       /\ x.policy = "set" => y.policy = "set"
  /\ \A x \in tb.lines : x.id \notin A =>
       \E y \in d.lines : y.id = x.id /\ y.number = x.number
  /\ \A y \in d.cards : \E x \in tb.cards :
       /\ x.id = y.id /\ x.at = y.at
       /\ y.line = IF x.line \in A THEN target ELSE x.line
  /\ \A x \in tb.cards : \E y \in d.cards :
       /\ x.id = y.id /\ x.at = y.at
       /\ y.line = IF x.line \in A THEN target ELSE x.line
  /\ Follows(d.subs, tb.subs, target, A)
  /\ Follows(d.legacy, tb.legacy, target, A)
  /\ \A y \in d.rows : \E x \in tb.rows :
       /\ x.id = y.id /\ x.number = y.number
       /\ y.line = IF x.line \in A THEN target ELSE x.line
  /\ Ids(d.rows) = Ids(tb.rows)
  /\ \A x \in tb.lines, y \in d.lines :
       x.id \in A /\ y.id = target /\ x.policy = "set" => y.policy = "set"

\* What a step on the tables keeps, but for the line it is about.
Part(tb, target) ==
  /\ Whole(tb) /\ TablesTypeOK(tb) /\ NamesResolve(tb) /\ PlacesAgree(tb)
  /\ OnePlaceBut(tb, target) /\ OneSubscriptionBut(tb, target)

\* A line of the snapshot that is the line of the step has a number, and it is
\* none of those merged into another.
AttachedElsewhere(tb, target, A) ==
  \A a \in tb.at :
    /\ a.line \notin A
    /\ \A l \in tb.lines : a.line = target /\ l.id = target => l.number # None

\* Modems that claim one subscription are quarantined.
Distinct(seen) ==
  \A x, y \in Modems : seen[x].imsi = seen[y].imsi /\ seen[x].imsi # None => x = y

\* The matches are what the tables say.
MatchesTrue(tb, o, M) ==
  /\ M.iccid # None => \E x \in tb.cards : x.id = o.iccid /\ x.line = M.iccid
  /\ M.imsi # None => \E x \in tb.subs : x.id = o.imsi /\ x.line = M.imsi
  /\ M.number # None => /\ o.number # None
                        /\ \E x \in tb.lines : x.id = M.number /\ x.number = o.number
  /\ M.number = None /\ o.number # None => \A x \in tb.lines : x.number # o.number

\* A line is found by the card or the subscription.
Touched(tb, o, l) ==
  \/ \E x \in tb.cards : x.id = o.iccid /\ x.line = l
  \/ \E x \in tb.subs : x.id = o.imsi /\ x.line = l

\* What is true of the line that is chosen.
ChosenOK(tb, o, target) ==
  /\ target \in Nat /\ (target \in Ids(tb.lines) \/ target = tb.last + 1)
  /\ \A l \in tb.lines :
       /\ l.id = target /\ l.number = None => Touched(tb, o, target)
       /\ l.id = target /\ o.number # None => l.number \in {None, o.number}
       /\ o.number # None /\ l.number = o.number => l.id = target

\* The line is there, of a number if any was seen, and its own.
Ready(tb, o, target, seen) ==
  /\ Part(tb, target) /\ target \in Ids(tb.lines)
  /\ LegacyIsAlone(tb) /\ (\A x \in tb.legacy : x.line # target)
  /\ AttachedStay(tb, seen) /\ AttachedElsewhere(tb, target, {})
  /\ \A l \in tb.lines :
       /\ l.id = target /\ o.number # None => l.number \in {None, o.number}
       /\ o.number # None /\ l.number = o.number => l.id = target
       /\ l.id = target /\ l.number = None /\ o.number = None =>
            OwnedBy(tb, target, o.imsi)

\* The lines that are merged into it.
Aliases(tb, o, M, target) ==
  MergeableStableLineAliases(tb, target, FirstOf(NumberOf(tb, target), o.number),
                             {M.iccid, M.imsi, M.number})

\* A line without a number is of the subscription that was seen.
NamedOrOwn(tb, o, target) ==
  \A l \in tb.lines : l.id = target /\ l.number = None => OwnedBy(tb, target, o.imsi)

\* Before and after the line of an observation is found or made.
Visiting(tb, seen, m) ==
  /\ Whole(tb) /\ Consistent(tb) /\ seen \in [Modems -> Observations]
  /\ m \in Modems /\ Distinct(seen) /\ AttachedStay(tb, seen)
  /\ \A a \in tb.at : a.id # m

\* After it.
Resolved(r, tb, o, target, seen) ==
  /\ r.line = target /\ Ready(r.db, o, target, seen) /\ NamedOrOwn(r.db, o, target)
  /\ SettingsKept(tb, r.db) /\ r.db.legacy = tb.legacy /\ r.db.at = tb.at

\* The tables after each visit.
VisitedOK(tb, seen, order, n) ==
  /\ Whole(tb) /\ Consistent(tb) /\ AttachedStay(tb, seen)
  /\ SettingsKept(Tables, tb)
  /\ \A a \in tb.at : \E k \in 1 .. n : a.id = order[k]
=============================================================================
