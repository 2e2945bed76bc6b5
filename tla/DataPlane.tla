----------------------------- MODULE DataPlane -----------------------------
(***************************************************************************)
(* The cellular data plane of one line in the agent: the bearers it makes  *)
(* in ModemManager and the file that says which are its own                *)
(* (modemmanager/bearer_manager.go, bearer_ownership.go), the network      *)
(* state it puts into the kernel and the journal of that                   *)
(* (networking/data_plane_linux.go), and the leases of a dynamic bearer    *)
(* (dhcp4_linux.go, slaac_linux.go).  The agent may die between any two    *)
(* steps.  An address stands for the addresses, routes and MTU of a        *)
(* network, a rule for its policy rules, which survive the interface, and  *)
(* the setting for what host SLAAC prepares: sysctls, the link-local       *)
(* address and the link's state.                                           *)
(***************************************************************************)
EXTENDS Absence, Naturals

CONSTANTS
  Methods,    \* of a bearer: "static", or leased, "slaac", or "both" with DHCP
  IPs,
  MaxReplaced, \* bound: restarts of ModemManager and replaced devices
  MaxBearers  \* bound: bearers of a ModemManager process

VARIABLES
  mm,      \* ModemManager: [epoch, made, bearers]
  knownEpoch, \* the epoch the agent knows
  owned,   \* bearers.json: [disk, mem], None or [epoch, id]
  net,     \* network.json: [disk, mem], each [applied, pending]
  kernel,  \* the items of ours on the host
  host,    \* [index, already]: the device that has the interface's name, and
           \* whether the setting had its value before us
  runtime, \* dynamic leases: None or [method, ip, next, live, renewed]
  op,      \* the operation on bearers: [pc, then, fail, method, id, connected, epoch]
  dp,      \* the operation on the data plane, under its mutex
  orphans  \* items whose record was lost (history)

dpVars == <<mm, knownEpoch, owned, net, kernel, host, runtime, op, dp, orphans>>
files == <<owned, net>>
plane == <<net, kernel, runtime, dp, orphans>>

Dynamic(method) == method # "static"
NoNet == [applied |-> None, pending |-> None]
NoOp == [pc |-> "idle", then |-> "idle", fail |-> "idle", method |-> None, id |-> 0,
         connected |-> FALSE, epoch |-> 1]
NoCall == [pc |-> "idle", method |-> None, ip |-> None, prep |-> "none",
           journaled |-> FALSE, desired |-> None, failed |-> FALSE, ok |-> FALSE]

\* What a network, or a pending preparation, puts on the host.
Values(n) ==
  IF n = None THEN {}
  ELSE (IF n.prep = "ours" THEN {<<"setting", None>>} ELSE {})
         \cup (IF n.ip = None THEN {} ELSE {<<"address", n.ip>>, <<"rule", n.ip>>})
Placed(v, index) == <<v[1], v[2], IF v[1] = "rule" THEN 0 ELSE index>>
Items(n) == {Placed(v, n.index) : v \in Values(n)}
Preparation(index, prep) ==
  [method |-> None, ip |-> None, index |-> index, prep |-> prep]
Recorded(file) == Items(file.applied) \cup Items(file.pending)
OnDevice(item) == item[1] # "rule"
\* A record that only memory has is written with the next change; one that only
\* the file has, after an error that came too late, is overwritten by it.
Known == Recorded(net.disk) \cup Recorded(net.mem)

\* load: what a start accepts of the file; it refuses the rest and exits.
LoadableApplied(n) ==
  n # None => n.index > 0 /\ (Dynamic(n.method) <=> n.prep # "none")
LoadablePending(n) == n # None => n.index > 0 /\ n.ip = None /\ n.prep = "ours"
Loadable(file) == LoadableApplied(file.applied) /\ LoadablePending(file.pending)

DataPlaneInit ==
  /\ mm = [epoch |-> 1, made |-> 0, bearers |-> {}]
  /\ knownEpoch = 1
  /\ owned = [disk |-> None, mem |-> None]
  /\ net = [disk |-> NoNet, mem |-> NoNet]
  /\ kernel = {} /\ runtime = None /\ orphans = {}
  /\ host \in [index : {1}, already : BOOLEAN]
  /\ op = NoOp /\ dp = NoCall

-----------------------------------------------------------------------------
(* ModemManager, the network and the host.                                   *)

Bearer(id) == {b \in mm.bearers : b.id = id}
SetBearers(bs) == mm' = [mm EXCEPT !.bearers = bs]

\* A bearer of somebody else, or one of ours that the network drops.
Others ==
  \/ /\ mm.made < MaxBearers
     /\ \E ip \in IPs : mm' = [mm EXCEPT !.made = @ + 1, !.bearers = @ \cup
          {[id |-> mm.made + 1, ours |-> FALSE, connected |-> TRUE,
            method |-> "static", ip |-> ip]}]
     /\ UNCHANGED <<knownEpoch, files, kernel, host, runtime, op, dp, orphans>>
  \/ /\ \E b \in mm.bearers : b.connected /\ SetBearers(
          (mm.bearers \ {b}) \cup {[b EXCEPT !.connected = FALSE]})
     /\ UNCHANGED <<knownEpoch, files, kernel, host, runtime, op, dp, orphans>>

\* Bearer paths start over in a new process; the agent learns its epoch with
\* a later request.
ModemManagerRestarts ==
  /\ mm.epoch + host.index < MaxReplaced + 2
  /\ mm' = [epoch |-> mm.epoch + 1, made |-> 0, bearers |-> {}]
  /\ UNCHANGED <<knownEpoch, files, kernel, host, runtime, op, dp, orphans>>
LearnEpoch ==
  /\ op.pc # "off" /\ knownEpoch # mm.epoch /\ knownEpoch' = mm.epoch
  /\ UNCHANGED <<mm, files, kernel, host, runtime, op, dp, orphans>>

\* The device goes and another takes its interface's name.
DeviceReplaced ==
  /\ mm.epoch + host.index < MaxReplaced + 2
  /\ host' = [host EXCEPT !.index = @ + 1]
  /\ SetBearers({})
  /\ kernel' = {i \in kernel : ~OnDevice(i)}
  /\ orphans' = {i \in orphans : ~OnDevice(i)}
  /\ UNCHANGED <<knownEpoch, files, runtime, op, dp>>

\* The kernel drops an address at the end of the lease it was added under: a
\* renewed lease finds it present and does not extend it.
AddressLapses ==
  /\ \E i \in kernel :
       /\ i[1] = "address"
       /\ \E n \in {net.disk.applied, net.mem.applied} :
            n # None /\ i \in Items(n) /\ Dynamic(n.method)
       /\ ~(runtime # None /\ runtime.ip = i[2] /\ ~runtime.renewed)
       /\ kernel' = kernel \ {i} /\ orphans' = orphans \ {i}
  /\ UNCHANGED <<mm, knownEpoch, files, host, runtime, op, dp>>

-----------------------------------------------------------------------------
(* The data plane.                                                           *)

Journal == net.mem
\* persist: an error may come after the rename.
Saved(doc) == net' = [disk |-> doc, mem |-> doc]
NotSaved(doc) == \E d \in {net.disk, doc} : net' = [net EXCEPT !.disk = d]

Present(n) == {i \in Items(n) : OnDevice(i) => n.index = host.index}
\* remove: all that is listed, or an error and some of it is left.
Removed(items) == kernel' = kernel \ items
PartlyRemoved(items, left) == left # {} /\ kernel' = (kernel \ items) \cup left

Blocked(own) == \E i \in kernel \ own : i[1] = "address" \/ i[1] = "rule"
SettingApplied == host.already \/ \E i \in kernel : i[1] = "setting"
\* apply: refuses state that is not the line's, a device that was replaced and a
\* setting somebody else changed.  Foreign state is one of the reasons for which
\* a step fails.
MayApply(n, own) ==
  /\ ~Blocked(own) /\ n.index = host.index
  /\ n.prep = "found" => SettingApplied
  /\ n.prep = "ours" => Placed(<<"setting", None>>, n.index) \in own \/ ~SettingApplied

Step(to) == dp' = [dp EXCEPT !.pc = to]
Return(ok) == dp' = [NoCall EXCEPT !.pc = "done", !.ok = ok]

\* recoverPendingLocked
RecoverPending ==
  /\ dp.pc \in {"recover", "release"}
  /\ Journal.pending # None
  /\ LET items == Present(Journal.pending)
         doc == [Journal EXCEPT !.pending = None]
         Failed == IF dp.pc = "release"
                   THEN dp' = [dp EXCEPT !.pc = "drop", !.failed = TRUE] ELSE Return(FALSE)
     IN \/ /\ Removed(items) /\ Saved(doc)
           /\ IF dp.pc = "release" THEN Step("drop") ELSE Step("check")
        \/ Removed(items) /\ NotSaved(doc) /\ Failed
        \/ /\ \E left \in SUBSET (items \cap kernel) : PartlyRemoved(items, left)
           /\ Failed /\ UNCHANGED net
  /\ runtime' = IF dp.pc = "release" THEN None ELSE runtime
  /\ UNCHANGED <<mm, knownEpoch, owned, host, op, orphans>>
NothingPending ==
  /\ dp.pc \in {"recover", "release"}
  /\ Journal.pending = None
  /\ IF dp.pc = "release" THEN Step("drop") /\ runtime' = None
     ELSE Step("check") /\ UNCHANGED runtime
  /\ UNCHANGED <<mm, knownEpoch, files, kernel, host, op, orphans>>

\* Configure: leases of the same connection are left running; others end.
Check ==
  /\ dp.pc = "check"
  /\ IF runtime # None /\ runtime.method = dp.method
     THEN Return(TRUE) /\ UNCHANGED runtime
     ELSE /\ runtime' = None
          /\ \/ Step(IF Dynamic(dp.method) THEN "prepare" ELSE "acquire")
             \/ Return(FALSE)
  /\ UNCHANGED <<mm, knownEpoch, files, kernel, host, op, orphans>>

\* prepareDynamicLocked: the previous preparation is used again when its leases
\* were of these kinds and what it borrowed is still there, whatever device it
\* was made on.
Reusable ==
  LET p == Journal.applied
  IN /\ p # None /\ Dynamic(p.method) /\ p.method \in {dp.method, "both"}
     /\ p.prep = "found" => SettingApplied
ReusePreparation ==
  /\ dp.pc = "prepare" /\ Reusable
  /\ LET p == Journal.applied
         setting == Placed(<<"setting", None>>, host.index)
         here == [p EXCEPT !.index = host.index]
     IN \/ /\ MayApply(Preparation(host.index, p.prep), Items(here) \cup Items(p))
           /\ dp' = [dp EXCEPT !.pc = "acquire", !.prep = p.prep]
           /\ kernel' = kernel \cup (IF p.prep = "ours" THEN {setting} ELSE {})
           /\ orphans' = orphans \cup
                (IF p.prep = "ours" /\ p.index # host.index THEN {setting} ELSE {})
        \/ Return(FALSE) /\ UNCHANGED <<kernel, orphans>>
  /\ UNCHANGED <<mm, knownEpoch, files, host, runtime, op>>

\* buildDynamicPreparation, and its journal entry before anything is changed.
BuildPreparation ==
  /\ dp.pc = "prepare" /\ ~Reusable
  /\ IF SettingApplied
     THEN dp' = [dp EXCEPT !.pc = "acquire", !.prep = "found"] /\ UNCHANGED net
     ELSE LET doc == [Journal EXCEPT !.pending = Preparation(host.index, "ours")]
          IN \/ Saved(doc)
                  /\ dp' = [dp EXCEPT !.pc = "set", !.prep = "ours", !.journaled = TRUE]
             \/ NotSaved(doc) /\ Return(FALSE)
  /\ UNCHANGED <<mm, knownEpoch, owned, kernel, host, runtime, op, orphans>>
ApplyPreparation ==
  /\ dp.pc = "set"
  /\ LET own == Items(Journal.applied)
         p == Journal.pending
     IN \/ MayApply(p, own) /\ Step("acquire") /\ kernel' = kernel \cup Items(p)
        \/ Step("rollback") /\ UNCHANGED kernel
  /\ UNCHANGED <<mm, knownEpoch, files, host, runtime, op, orphans>>

\* acquireDynamicLocked and desiredNetwork.
Acquire ==
  /\ dp.pc = "acquire"
  /\ \/ Step("rollback")
     \/ \E ip \in IF Dynamic(dp.method) THEN IPs ELSE {dp.ip} :
          dp' = [dp EXCEPT !.pc = "replace", !.ip = ip, !.desired =
                   [method |-> dp.method, ip |-> ip, index |-> host.index,
                    prep |-> dp.prep]]
  /\ UNCHANGED <<mm, knownEpoch, files, kernel, host, runtime, op, orphans>>

\* splitReplacementState: what the new network has too is kept.
Obsolete == {Placed(v, Journal.applied.index) :
               v \in Values(Journal.applied) \ Values(dp.desired)}
Kept == {Placed(v, i) : v \in Values(Journal.applied) \cap Values(dp.desired),
                        i \in {Journal.applied.index, host.index}}
Replace ==
  /\ dp.pc \in {"replace", "refresh"}
  /\ Journal.applied # None
  /\ \/ Removed(Obsolete)
          /\ Step(IF dp.pc = "refresh" THEN "reapply" ELSE "apply")
     \/ \E left \in SUBSET (Obsolete \cap kernel) :
          /\ PartlyRemoved(Obsolete, left)
          /\ IF dp.pc = "refresh" THEN dp' = NoCall ELSE Step("rollback")
  /\ UNCHANGED <<mm, knownEpoch, files, host, runtime, op, orphans>>
NothingToReplace ==
  /\ dp.pc = "replace" /\ Journal.applied = None
  /\ Step("apply")
  /\ UNCHANGED <<mm, knownEpoch, files, kernel, host, runtime, op, orphans>>

\* The network Configure or a refresh replaces is put back after a failure.
Restored(base) ==
  \E back \in SUBSET Present(Journal.applied) : kernel' = base \cup back

Own ==
  IF Journal.applied = None
  THEN IF dp.journaled THEN Items(Journal.pending) ELSE {}
  ELSE Kept \cup (IF dp.journaled THEN Items(Journal.pending) ELSE {})
\* An error midway removes what was added; what that leaves has no record.
ApplyState ==
  /\ dp.pc \in {"apply", "reapply"}
  /\ \/ /\ MayApply(dp.desired, Own)
        /\ Step(IF dp.pc = "apply" THEN "persist" ELSE "repersist")
        /\ kernel' = kernel \cup Items(dp.desired)
        /\ UNCHANGED orphans
     \/ /\ IF dp.pc = "apply" THEN Step("rollback") ELSE dp' = NoCall
        /\ \E left \in SUBSET (IF MayApply(dp.desired, Own)
                               THEN Items(dp.desired) \ (kernel \cup Recorded(net.mem))
                               ELSE {}) :
             orphans' = orphans \cup left /\ Restored(kernel \cup left)
  /\ UNCHANGED <<mm, knownEpoch, files, host, runtime, op>>

Leases == [method |-> dp.method, ip |-> dp.ip, next |-> None, live |-> TRUE,
           renewed |-> FALSE]
Persist ==
  /\ dp.pc \in {"persist", "repersist"}
  /\ LET doc == [applied |-> dp.desired,
                 pending |-> IF dp.pc = "persist" THEN None ELSE Journal.pending]
     IN \/ /\ Saved(doc)
           /\ IF dp.pc = "persist"
              THEN /\ Return(TRUE)
                   /\ runtime' = IF Dynamic(dp.method) THEN Leases ELSE None
              ELSE /\ dp' = NoCall
                   /\ runtime' = [runtime EXCEPT !.next = None, !.ip = dp.ip,
                        !.renewed = runtime.ip = dp.ip]
           /\ UNCHANGED <<kernel, orphans>>
        \/ /\ NotSaved(doc)
           /\ IF dp.pc = "persist" THEN Step("rollback") ELSE dp' = NoCall
           /\ \E left \in SUBSET (kernel \cap Items(dp.desired)) :
                /\ orphans' = orphans \cup (left \ Recorded(net.mem))
                /\ Restored((kernel \ Items(dp.desired)) \cup left)
           /\ UNCHANGED runtime
  /\ UNCHANGED <<mm, knownEpoch, owned, host, op>>

\* rollbackPreparationLocked: the journal entry goes even if its state stays.
Rollback ==
  /\ dp.pc = "rollback"
  /\ Return(FALSE)
  /\ IF ~dp.journaled THEN UNCHANGED <<net, kernel, orphans>>
     ELSE LET items == Present(Journal.pending)
              doc == [Journal EXCEPT !.pending = None]
          IN /\ \E left \in SUBSET (items \cap kernel) :
                  /\ kernel' = (kernel \ items) \cup left
                  /\ orphans' = orphans \cup (left \ Recorded(doc))
             /\ (Saved(doc) \/ NotSaved(doc))
  /\ UNCHANGED <<mm, knownEpoch, owned, host, runtime, op>>

\* Mutant: the record goes even if some of the state stays.
DropAnyway ==
  /\ dp.pc = "drop"
  /\ LET n == Journal.applied
     IN IF n = None THEN Return(~dp.failed) /\ UNCHANGED <<net, kernel>>
        ELSE /\ \E left \in SUBSET (Present(n) \cap kernel) :
                  kernel' = (kernel \ Present(n)) \cup left
             /\ Saved([Journal EXCEPT !.applied = None]) /\ Return(~dp.failed)
  /\ UNCHANGED <<mm, knownEpoch, owned, host, runtime, op, orphans>>
\* Release: the record goes after the state.  Leases that could not be given
\* back and a pending setup that could not be undone are reported at the end.
Ends == \E ok \in BOOLEAN : Return(ok /\ ~dp.failed)
Drop ==
  /\ dp.pc = "drop"
  /\ LET n == Journal.applied
         doc == [Journal EXCEPT !.applied = None]
     IN IF n = None THEN Ends /\ UNCHANGED <<net, kernel>>
        ELSE \/ Return(FALSE) /\ UNCHANGED <<net, kernel>>
             \/ /\ \E left \in SUBSET (Present(n) \cap kernel) :
                     PartlyRemoved(Present(n), left)
                /\ Return(FALSE) /\ UNCHANGED net
             \/ Removed(Present(n)) /\ NotSaved(doc) /\ Return(FALSE)
             \/ Removed(Present(n)) /\ Saved(doc) /\ Ends
  /\ UNCHANGED <<mm, knownEpoch, owned, host, runtime, op, orphans>>

\* runDynamicRuntime: a lease is renewed, perhaps with another address, and
\* replaceRuntimeLeases puts it in place, again until it succeeds.
RefreshLease ==
  /\ dp.pc = "idle" /\ runtime # None /\ runtime.live
  /\ \/ \E ip \in IPs : runtime.next = None /\ runtime' = [runtime EXCEPT !.next = ip]
          /\ UNCHANGED dp
     \/ /\ runtime.next # None /\ Journal.applied # None
        /\ dp' = [NoCall EXCEPT !.pc = "refresh", !.method = runtime.method,
                    !.ip = runtime.next,
                    !.desired = [Journal.applied EXCEPT !.ip = runtime.next,
                                   !.index = host.index]]
        /\ UNCHANGED runtime
  /\ UNCHANGED <<mm, knownEpoch, files, kernel, host, op, orphans>>
\* expireDynamicRuntime: after a failure nobody tries again, and the leases
\* still count as running.
Expire ==
  /\ dp.pc = "idle" /\ runtime # None /\ runtime.live
  /\ LET n == Journal.applied
         doc == [Journal EXCEPT !.applied = None]
         Stays == runtime' = [runtime EXCEPT !.live = FALSE]
     IN IF n = None THEN runtime' = None /\ UNCHANGED <<net, kernel>>
        ELSE \/ Removed(Present(n)) /\ Saved(doc) /\ runtime' = None
             \/ NotSaved(doc) /\ Restored(kernel) /\ Stays
             \/ /\ \E left \in SUBSET (Present(n) \cap kernel) :
                     PartlyRemoved(Present(n), left)
                /\ Stays /\ UNCHANGED net
  /\ UNCHANGED <<mm, knownEpoch, owned, host, op, dp, orphans>>
-----------------------------------------------------------------------------
(* Bearers.  Each step is a call to ModemManager, a write of the file or a    *)
(* call into the data plane, after which the operation goes on.               *)

Goto(pc) ==
  op' = IF pc \in {"idle", "off"} THEN [NoOp EXCEPT !.pc = pc] ELSE [op EXCEPT !.pc = pc]
Fail == Goto(op.fail)
Call(pc, b) ==
  /\ dp.pc \in {"idle", "done"}
  /\ dp' = [NoCall EXCEPT !.pc = pc, !.method = b.method, !.ip = b.ip]
Anything == [method |-> None, ip |-> None]
Quiet == UNCHANGED <<net, kernel, host, runtime, orphans>>

Store(record) == owned' = [disk |-> record, mem |-> record]
StoreFails(record) == \E d \in {owned.disk, record} : owned' = [owned EXCEPT !.disk = d]
\* Mutant: the bearer's path is enough.
IsCurrentPath(record) == record # None
IsCurrent(record) == record # None /\ record.epoch = knownEpoch
\* The bearer a record names, in whatever process ModemManager is now.
Found == IF owned.mem = None THEN {} ELSE Bearer(owned.mem.id)

\* ReconcileDataPlane, when the agent starts: state that no bearer of this
\* ModemManager backs goes first.
Start ==
  /\ op.pc = "off" /\ dp.pc = "idle" /\ Loadable(net.disk)
  /\ knownEpoch' = mm.epoch
  /\ op' = [NoOp EXCEPT !.pc = "restore", !.fail = "off", !.epoch = mm.epoch]
  /\ IF net.mem # NoNet /\ ~(owned.mem # None /\ owned.mem.epoch = mm.epoch)
     THEN Call("release", Anything) ELSE UNCHANGED dp
  /\ UNCHANGED <<mm, owned>> /\ Quiet
Restore ==
  /\ op.pc = "restore" /\ dp.pc \in {"idle", "done"}
  /\ IF dp.pc = "done" /\ ~dp.ok THEN Fail /\ dp' = NoCall
     ELSE \/ owned.mem # None /\ Fail /\ dp' = NoCall
          \/ owned.mem = None /\ Goto("idle") /\ dp' = NoCall
          \/ /\ owned.mem # None /\ (IsCurrent(owned.mem) => Found = {})
             /\ Goto("stale") /\ Call("release", Anything)
          \/ \E b \in Found : /\ IsCurrent(owned.mem)
                             /\ Goto("restoring")
                             /\ IF b.connected THEN Call("recover", b)
                                ELSE Call("release", Anything)
  /\ UNCHANGED <<mm, knownEpoch, owned>> /\ Quiet
Restoring ==
  /\ op.pc \in {"restoring", "reuse"} /\ dp.pc = "done"
  /\ IF dp.ok THEN Goto("idle") ELSE Fail
  /\ dp' = NoCall
  /\ UNCHANGED <<mm, knownEpoch, owned>> /\ Quiet

\* activateOwnedBearerData and, for a disconnect or before the radio goes off,
\* deactivateOwnedBearerData.
Activate(method) ==
  /\ op.pc = "idle"
  /\ op' = [NoOp EXCEPT !.pc = "activate", !.method = method, !.epoch = knownEpoch]
  /\ UNCHANGED <<mm, knownEpoch, owned, dp>> /\ Quiet
Deactivate ==
  /\ op.pc = "idle"
  /\ op' = [NoOp EXCEPT !.pc = "deactivate", !.epoch = knownEpoch]
  /\ UNCHANGED <<mm, knownEpoch, owned, dp>> /\ Quiet

Inspect ==
  /\ op.pc = "activate"
  /\ \/ owned.mem = None /\ Goto("create") /\ UNCHANGED dp
     \/ owned.mem # None /\ Fail /\ UNCHANGED dp
     \/ /\ owned.mem # None /\ (IsCurrent(owned.mem) => Found = {})
        /\ op' = [op EXCEPT !.pc = "stale", !.then = "create"]
        /\ Call("release", Anything)
     \/ \E b \in Found :
          /\ IsCurrent(owned.mem)
          /\ \/ /\ b.connected /\ b.method = op.method
                /\ Goto("reuse") /\ Call("recover", b)
             \/ op' = [op EXCEPT !.pc = "deactivate", !.then = "create"] /\ UNCHANGED dp
  /\ UNCHANGED <<mm, knownEpoch, owned>> /\ Quiet

\* The read comes first; then the network state goes, and the bearer last.
Withdraw ==
  /\ op.pc = "deactivate"
  /\ \/ owned.mem = None /\ Goto(op.then) /\ UNCHANGED dp
     \/ owned.mem # None /\ Fail /\ UNCHANGED dp
     \/ /\ owned.mem # None /\ ~IsCurrent(owned.mem)
        /\ Goto("stale") /\ Call("release", Anything)
     \/ /\ IsCurrent(owned.mem)
        /\ op' = [op EXCEPT !.pc = "release", !.id = owned.mem.id,
                     !.connected = \E b \in Found : b.connected]
        /\ Call("release", Anything)
  /\ UNCHANGED <<mm, knownEpoch, owned>> /\ Quiet
Withdrawn ==
  /\ op.pc \in {"release", "stale"} /\ dp.pc = "done"
  /\ dp' = NoCall
  /\ IF ~dp.ok THEN Fail
     ELSE Goto(IF op.pc = "stale" THEN "unown"
               ELSE IF op.connected THEN "disconnect" ELSE "delete")
  /\ UNCHANGED <<mm, knownEpoch, owned>> /\ Quiet
\* A bearer that is gone counts as disconnected and deleted.
Disconnect ==
  /\ op.pc = "disconnect"
  /\ \/ Fail /\ UNCHANGED mm
     \/ /\ SetBearers({IF b.id = op.id THEN [b EXCEPT !.connected = FALSE] ELSE b :
                       b \in mm.bearers})
        /\ Goto("delete")
  /\ UNCHANGED <<knownEpoch, owned, dp>> /\ Quiet
DeleteBearer ==
  /\ op.pc = "delete"
  /\ \/ Fail /\ UNCHANGED mm
     \/ SetBearers(mm.bearers \ Bearer(op.id)) /\ Goto("unown")
  /\ UNCHANGED <<knownEpoch, owned, dp>> /\ Quiet
Unown ==
  /\ op.pc = "unown"
  /\ \/ Store(None) /\ Goto(op.then)
     \/ StoreFails(None) /\ Fail
  /\ UNCHANGED <<mm, knownEpoch, dp>> /\ Quiet

\* A connected bearer of somebody else is a conflict.
Create ==
  /\ op.pc = "create"
  /\ \/ Fail /\ UNCHANGED mm
     \/ /\ mm.made < MaxBearers /\ \A b \in mm.bearers : ~b.connected
        /\ mm' = [mm EXCEPT !.made = @ + 1, !.bearers = @ \cup
             {[id |-> mm.made + 1, ours |-> op.epoch = mm.epoch, connected |-> FALSE,
               method |-> op.method, ip |-> None]}]
        /\ op' = [op EXCEPT !.pc = "put", !.id = mm.made + 1]
  /\ UNCHANGED <<knownEpoch, owned, dp>> /\ Quiet
Put ==
  /\ op.pc = "put"
  /\ LET record == [epoch |-> op.epoch, id |-> op.id]
     IN \/ Store(record) /\ Goto("connect") /\ UNCHANGED mm
        \/ /\ StoreFails(record) /\ Fail
           /\ (UNCHANGED mm \/ SetBearers(mm.bearers \ Bearer(op.id)))
  /\ UNCHANGED <<knownEpoch, dp>> /\ Quiet

CleanUp == op' = [op EXCEPT !.pc = "deactivate", !.then = "idle"]
Connected(b, ip) ==
  SetBearers((mm.bearers \ {b}) \cup {[b EXCEPT !.connected = TRUE, !.ip = ip]})
\* Connect and waitBearerReady; a call that fails may have connected it.
Connect ==
  /\ op.pc = "connect"
  /\ \/ CleanUp /\ UNCHANGED <<mm, dp>>
     \/ \E b \in Bearer(op.id), ip \in IPs :
          /\ Connected(b, ip)
          /\ \/ Goto("configure") /\ Call("recover", [b EXCEPT !.ip = ip])
             \/ CleanUp /\ UNCHANGED dp
  /\ UNCHANGED <<knownEpoch, owned>> /\ Quiet
\* The configuration is read again before the request succeeds.
Configured ==
  /\ op.pc = "configure" /\ dp.pc = "done"
  /\ dp' = NoCall
  /\ (CleanUp \/ (dp.ok /\ Goto("idle")))
  /\ UNCHANGED <<mm, knownEpoch, owned>> /\ Quiet

\* The agent dies, or exits after a failed start.
AgentDies ==
  /\ (op.pc # "off" \/ runtime # None)
  /\ LET window == IF dp.pc \in {"persist", "repersist"} THEN Items(dp.desired) ELSE {}
     IN orphans' = orphans \cup
          ((kernel \cap (Recorded(net.mem) \cup window)) \ Recorded(net.disk))
  /\ net' = [net EXCEPT !.mem = net.disk]
  /\ owned' = [owned EXCEPT !.mem = owned.disk]
  /\ runtime' = None /\ op' = [NoOp EXCEPT !.pc = "off"] /\ dp' = NoCall
  /\ UNCHANGED <<mm, knownEpoch, kernel, host>>

Plane ==
  \/ RecoverPending \/ NothingPending \/ Check \/ ReusePreparation
  \/ BuildPreparation \/ ApplyPreparation \/ Acquire \/ Replace \/ NothingToReplace
  \/ ApplyState \/ Persist \/ Rollback \/ Drop \/ RefreshLease \/ Expire
Bearers ==
  \/ Start \/ Restore \/ Restoring \/ Deactivate \/ Inspect \/ Withdraw \/ Withdrawn
  \/ Disconnect \/ DeleteBearer \/ Unown \/ Create \/ Put \/ Connect \/ Configured
  \/ \E method \in Methods : Activate(method)
DataPlaneNext ==
  \/ Others \/ ModemManagerRestarts \/ LearnEpoch \/ DeviceReplaced \/ AddressLapses
  \/ Plane \/ Bearers \/ AgentDies

-----------------------------------------------------------------------------
\* What the agent put on the host is in its journal, whatever failed and wherever
\* it died, but for the orphans: what it was adding when it died between
\* changing the kernel and writing the file, or could not take back.
KernelIsRecorded ==
  kernel \subseteq Known \cup orphans \cup
    (IF dp.pc \in {"persist", "repersist"} THEN Items(dp.desired) ELSE {})

\* A bearer the agent connected is in its file, so that a restart finds it.
ConnectedIsRecorded ==
  \A b \in mm.bearers : b.ours /\ b.connected =>
    owned.disk = [epoch |-> mm.epoch, id |-> b.id]

\* No network state is recorded for a line without a bearer.
NetworkHasBearer ==
  net.mem # NoNet => owned.mem # None \/ op.pc \in {"off", "restore"}

\* The journal can be read again whenever the agent dies.
JournalLoads == Loadable(net.disk)

DataPlaneIsOwned ==
  KernelIsRecorded /\ ConnectedIsRecorded /\ NetworkHasBearer /\ JournalLoads

\* The agent ends only bearers of its own, and only after their network state is
\* gone from its journal, if ModemManager has not restarted under the operation.
EndsOwnBearers ==
  \A b \in mm.bearers :
    (Disconnect \/ DeleteBearer) /\ op.epoch = mm.epoch /\ b \notin mm'.bearers =>
      b.ours /\ net.mem = NoNet
=============================================================================
