--------------------------- MODULE NetworkRuntime ---------------------------
(* The network runtime (internal/networkruntime with store/network.go and   *)
(* store/network_selection.go): proxies and the network selection of a line *)
(* are desired in the database and applied at the host agent, which keeps   *)
(* them in memory and gives every start of its own a new boot epoch.        *)
(*                                                                          *)
(* A change is committed outside reconcileMu and applied under it, by the   *)
(* request or by the ticker; revisions tell what was applied from what has  *)
(* been changed since.  Revisions and epochs are bounded by MaxRev and      *)
(* MaxEpoch.  One line stands for all: policies do not meet.                *)
EXTENDS Absence, Naturals, FiniteSets

CONSTANTS Proxies, MaxRev, MaxEpoch, MaxAttempts

VARIABLES
  row,         \* a proxy's row: revision, applied_revision, desired_deleted; or None
  policy,      \* the line's selection: revision, applied_revision, boot epoch
  running,     \* the revision of each proxy the agent runs, 0 for none
  selected,    \* the revision of the selection this agent was told, 0 for none
  epoch,       \* the agent's boot epoch
  accepted,    \* revisions an agent has accepted (history)
  applyStatus, \* Service.state: ApplyPending, ApplyAttempts, ApplyExhausted
  view,        \* Service.state: Available, BootEpoch
  mutator,     \* the holder of mutationsMu
  apply,       \* the holder of reconcileMu: where it is
  tokens,      \* the rows Reconcile has read
  seen,        \* the boot epoch PutProxies or a snapshot answered with
  chosen,      \* the policy's revision being told to the agent
  rest         \* the answer FinalizeProxyApply gave: something is still pending

tables == <<row, policy>>
agent == <<running, selected, epoch, accepted>>
applier == <<apply, tokens, seen, chosen, rest>>
netVars == <<tables, agent, applyStatus, view, mutator, applier>>

Row == [rev : 1..MaxRev, applied : 0..MaxRev, deleted : BOOLEAN]
Policy == [rev : 1..MaxRev, applied : 0..MaxRev, at : 0..MaxEpoch, configured : BOOLEAN]

NetTypeOK ==
  /\ row \in [Proxies -> Row \cup {None}]
  /\ policy \in Policy
  /\ running \in [Proxies -> 0..MaxRev] /\ selected \in 0..MaxRev
  /\ epoch \in 1..MaxEpoch
  /\ accepted \subseteq Proxies \X (1..MaxRev)
  /\ applyStatus \in [pending : BOOLEAN, attempts : 0..MaxAttempts, exhausted : BOOLEAN]
  /\ view \in [available : BOOLEAN, epoch : 0..MaxEpoch]
  /\ mutator \in {"idle", "changed", "dirty"}
  /\ apply \in {"idle", "read", "put", "finalize", "list", "select", "mark",
                "finish", "choose", "tell", "told"}
  /\ tokens \in [Proxies -> Row \cup {None}]
  /\ seen \in 0..MaxEpoch /\ chosen \in 0..MaxRev /\ rest \in BOOLEAN

Dirty == [pending |-> TRUE, attempts |-> 0, exhausted |-> FALSE]
Clean == [Dirty EXCEPT !.pending = FALSE]
NoTokens == [p \in Proxies |-> None]

NetInit ==
  /\ row = NoTokens
  /\ policy = [rev |-> 1, applied |-> 0, at |-> 0, configured |-> FALSE]
  /\ running = [p \in Proxies |-> 0] /\ selected = 0
  /\ epoch = 1 /\ accepted = {}
  /\ applyStatus = Dirty /\ view = [available |-> FALSE, epoch |-> 0]
  /\ mutator = "idle" /\ apply = "idle" /\ tokens = NoTokens
  /\ seen = 0 /\ chosen = 0 /\ rest = FALSE

At(a) == apply' = a
\* reconcileMu is given back.
Return ==
  /\ At("idle") /\ tokens' = NoTokens /\ seen' = 0 /\ chosen' = 0 /\ rest' = FALSE
-----------------------------------------------------------------------------
(* Create, Update, Delete                                                   *)

Change(p, new) ==
  /\ mutator = "idle"
  /\ row' = [row EXCEPT ![p] = new]
  /\ mutator' = "changed"
  /\ UNCHANGED <<policy, agent, applyStatus, view, applier>>

Create(p) ==
  /\ row[p] = None
  /\ \A r \in 1..MaxRev : <<p, r>> \notin accepted   \* an id is used once here
  /\ Change(p, [rev |-> 1, applied |-> 0, deleted |-> FALSE])

\* Changed or deleted in one statement, at the revision the client has seen.
Modify(p) ==
  /\ row[p] # None /\ ~row[p].deleted /\ row[p].rev < MaxRev
  /\ \E gone \in BOOLEAN :
       Change(p, [row[p] EXCEPT !.rev = @ + 1, !.deleted = gone])

MarkDirty ==
  /\ mutator = "changed"
  /\ mutator' = "dirty" /\ applyStatus' = Dirty
  /\ UNCHANGED <<tables, agent, view, applier>>
-----------------------------------------------------------------------------
(* Reconcile                                                                *)

ShouldApply == applyStatus.pending /\ ~applyStatus.exhausted
Min2(a, b) == IF a < b THEN a ELSE b

\* noteApplyAttempt; the request's mutation is over when its Reconcile begins.
BeginReconcile ==
  /\ apply = "idle"
  /\ \/ mutator = "dirty" /\ mutator' = "idle"
     \/ ShouldApply /\ UNCHANGED mutator
  /\ At("read")
  /\ applyStatus' = [applyStatus EXCEPT !.pending = TRUE, !.attempts = Min2(@ + 1, MaxAttempts)]
  /\ UNCHANGED <<tables, agent, view, tokens, seen, chosen, rest>>

Attempted == applyStatus.attempts >= MaxAttempts

\* refreshLocked: the agent answers or not; a new boot epoch, or an agent that
\* is there again, with a selection to replay makes the service try again.
ReplayPending(e) ==
  policy.configured /\ (policy.applied # policy.rev \/ policy.at # e)

Refreshed(st) ==
  \/ /\ view' = [view EXCEPT !.available = FALSE] /\ applyStatus' = st
  \/ /\ view' = [available |-> TRUE, epoch |-> epoch]
     /\ applyStatus' = IF (view.epoch # epoch \/ ~view.available) /\ ReplayPending(epoch)
                    THEN Dirty ELSE st

\* applyFailedWithRefresh
ApplyFailed ==
  /\ Refreshed([applyStatus EXCEPT !.pending = TRUE, !.exhausted = Attempted])
  /\ Return
  /\ UNCHANGED <<tables, agent, mutator>>

ReadRows ==
  /\ apply = "read"
  /\ tokens' = row /\ At("put")
  /\ UNCHANGED <<tables, agent, applyStatus, view, mutator, seen, chosen, rest>>

\* What is wanted of a row: the revision, or nothing.
Desired(p) == IF tokens[p] = None \/ tokens[p].deleted THEN 0 ELSE tokens[p].rev

\* PutProxies replaces the agent's whole set; the answer may be lost.
AgentTakes ==
  /\ running' = [p \in Proxies |-> Desired(p)]
  /\ accepted' = accepted \cup {<<p, Desired(p)>> : p \in {q \in Proxies : Desired(q) > 0}}
  /\ UNCHANGED <<selected, epoch>>

Put ==
  /\ apply = "put"
  /\ AgentTakes
  /\ seen' = epoch /\ At("finalize")
  /\ UNCHANGED <<tables, applyStatus, view, mutator, tokens, chosen, rest>>

PutLost ==
  /\ apply = "put"
  /\ AgentTakes
  /\ Refreshed([applyStatus EXCEPT !.pending = TRUE, !.exhausted = Attempted])
  /\ Return
  /\ UNCHANGED <<tables, mutator>>

\* The rows, the agent or the database fail.
Fail == apply \in {"read", "put", "finalize"} /\ ApplyFailed

\* Mutant: whatever the row is now is taken for applied.
FinalizedAnyRevision(p) ==
  IF tokens[p] = None \/ row[p] = None THEN row[p]
  ELSE IF tokens[p].deleted THEN None
  ELSE [row[p] EXCEPT !.applied = row[p].rev]
\* FinalizeProxyApply: only rows that are still at the revision that was sent.
Finalized(p) ==
  IF tokens[p] = None \/ row[p] = None \/ row[p].rev # tokens[p].rev THEN row[p]
  ELSE IF tokens[p].deleted THEN None
  ELSE [row[p] EXCEPT !.applied = row[p].rev]

Finalize ==
  /\ apply = "finalize"
  /\ row' = [p \in Proxies |-> Finalized(p)]
  /\ rest' = \E p \in Proxies :
       row'[p] # None /\ (row'[p].deleted \/ row'[p].applied # row'[p].rev)
  /\ At("list")
  /\ UNCHANGED <<policy, agent, applyStatus, view, mutator, tokens, seen, chosen>>

\* The agent's lines are read, and the policies: what this boot was told already
\* is not told again.
List ==
  /\ apply = "list"
  /\ IF ReplayPending(seen)
       THEN At("select") /\ chosen' = policy.rev
       ELSE At("finish") /\ UNCHANGED chosen
  /\ UNCHANGED <<tables, agent, applyStatus, view, mutator, tokens, seen, rest>>

\* SetNetworkSelection
Tell ==
  /\ apply \in {"select", "tell"}
  /\ selected' = chosen
  /\ At(IF apply = "select" THEN "mark" ELSE "told")
  /\ UNCHANGED <<tables, running, epoch, accepted, applyStatus, view, mutator,
                 tokens, seen, chosen, rest>>

MarkApplied ==
  policy' = IF policy.rev = chosen
              THEN [policy EXCEPT !.applied = chosen, !.at = seen] ELSE policy

Mark ==
  /\ apply = "mark"
  /\ MarkApplied
  /\ rest' = (rest \/ policy.rev # chosen)
  /\ At("finish")
  /\ UNCHANGED <<row, agent, applyStatus, view, mutator, tokens, seen, chosen>>

\* The agent or the database fails: the snapshot is kept, the attempt counts.
SelectFails ==
  /\ apply \in {"list", "select", "mark"}
  /\ view' = [available |-> TRUE, epoch |-> seen]
  /\ applyStatus' = [applyStatus EXCEPT !.pending = TRUE, !.exhausted = Attempted]
  /\ Return
  /\ UNCHANGED <<tables, agent, mutator>>

Finish ==
  /\ apply = "finish"
  /\ view' = [available |-> TRUE, epoch |-> seen]
  /\ applyStatus' = IF rest THEN Dirty ELSE Clean
  /\ Return
  /\ UNCHANGED <<tables, agent, mutator>>
-----------------------------------------------------------------------------
(* Run's refresh, and UpdateNetworkSelection                                *)

\* A tick without anything to apply.
Refresh ==
  /\ apply = "idle" /\ ~ShouldApply
  /\ Refreshed(applyStatus)
  /\ UNCHANGED <<tables, agent, mutator, applier>>

\* After its refresh a tick looks for a selection this boot was not told.
TickerLooks == view.available /\ ReplayPending(view.epoch)

Replay ==
  /\ apply = "idle" /\ TickerLooks
  /\ applyStatus' = Dirty
  /\ UNCHANGED <<tables, agent, view, mutator, applier>>

\* The policy is changed with both mutexes held, then the agent is told; its
\* boot epoch is the one the service last saw, or is asked for.
Choose ==
  /\ mutator = "idle" /\ apply = "idle" /\ policy.rev < MaxRev
  /\ policy' = [policy EXCEPT !.rev = @ + 1, !.configured = TRUE]
  /\ chosen' = policy.rev + 1
  /\ \/ view.epoch # 0 /\ seen' = view.epoch /\ UNCHANGED view
     \/ view.epoch = 0 /\ seen' = epoch /\ view' = [available |-> TRUE, epoch |-> epoch]
  /\ At("tell")
  /\ UNCHANGED <<row, agent, applyStatus, mutator, tokens, rest>>

\* MarkNetworkSelectionApplied, or a failure on the way, which is noted.
Told ==
  /\ apply = "told"
  /\ MarkApplied /\ Return
  /\ UNCHANGED <<row, agent, applyStatus, view, mutator>>

TellFails ==
  /\ apply \in {"tell", "told"}
  /\ applyStatus' = Dirty /\ Return
  /\ UNCHANGED <<tables, agent, view, mutator>>
-----------------------------------------------------------------------------
(* Restarts                                                                 *)

AgentRestarts ==
  /\ epoch < MaxEpoch
  /\ epoch' = epoch + 1
  /\ running' = [p \in Proxies |-> 0] /\ selected' = 0
  /\ UNCHANGED <<tables, accepted, applyStatus, view, mutator, applier>>

AppRestarts ==
  /\ applyStatus' = Dirty /\ view' = [available |-> FALSE, epoch |-> 0]
  /\ mutator' = "idle" /\ Return
  /\ UNCHANGED <<tables, agent>>
-----------------------------------------------------------------------------
ReconcileStep ==
  \/ ReadRows \/ Put \/ PutLost \/ Fail \/ Finalize \/ List \/ Tell \/ Mark
  \/ SelectFails \/ Finish \/ Told \/ TellFails

NetNext ==
  \/ \E p \in Proxies : Create(p) \/ Modify(p)
  \/ MarkDirty \/ BeginReconcile \/ ReconcileStep
  \/ Refresh \/ Replay \/ Choose \/ AgentRestarts \/ AppRestarts

NetSpec == NetInit /\ [][NetNext]_netVars
-----------------------------------------------------------------------------
(* Properties                                                               *)

\* A proxy is shown as applied only at a revision an agent has accepted, and its
\* row disappears only when the agent does not run it any more, although rows
\* change while an apply is in flight (service.go:390).
AppliedWasSent ==
  \A p \in Proxies :
    IF row[p] = None THEN running[p] = 0
    ELSE row[p].applied > 0 => <<p, row[p].applied>> \in accepted

\* A selection counts as applied at this boot of the agent only if this boot was
\* told it; a boot epoch that was read before the agent restarted may only make
\* the service tell it again.
SelectionWasTold ==
  (policy.configured /\ policy.at = epoch /\ policy.applied = policy.rev) =>
    selected = policy.rev

NetworkIsApplied == AppliedWasSent /\ SelectionWasTold
=============================================================================
