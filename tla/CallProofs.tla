----------------------------- MODULE CallProofs -----------------------------
(***************************************************************************)
(* Theorems about what the application does for one call: the preparation  *)
(* of an outgoing call, for any number of preparations and request ids and *)
(* any length of the window, and the recording of a call, for any number   *)
(* of calls and segments.  The two parts are independent.                  *)
(***************************************************************************)
EXTENDS OutgoingPreparation, Recording, TLAPS

-----------------------------------------------------------------------------
(***************************************************************************)
(* The preparation of an outgoing call                                     *)
(***************************************************************************)

\* What the proofs need of the constants.
PrepAssumption == Window \in Nat

-----------------------------------------------------------------------------
(* Preparation: the inductive invariant                                    *)

\* A commit holds the mutex of a preparation that is still prepared, and a
\* preparation has a request.
CommitsArePrepared ==
  \A p \in Preps :
    /\ commit[p] # "idle" => state[p] = "prepared"
    /\ state[p] # "none" => req[p] \in Requests

\* Where the handler owns the journal entry it has inserted.
Dialling(p) == commit[p] \in {"ready", "dial"}

\* The handler between its journal entry and its dial is the only one of its
\* request; the entry is pending and nothing has been dialled for it.
DiallingIsExclusive ==
  \A p \in Preps : Dialling(p) =>
    /\ status[req[p]] = "pending" /\ dials[req[p]] = 0
    /\ \A q \in Preps : Dialling(q) /\ req[q] = req[p] => q = p

\* What the journal does not know was never dialled.
JournalKnowsDials == \A r \in Requests : status[r] = "absent" => dials[r] = 0

\* A DELETE has found its preparation and set its flag before it does anything
\* else, and only a committed preparation has its hardware attached.
HandlersInOrder ==
  \A p \in Preps :
    /\ delete[p] # "none" => p \in cancelRequested /\ state[p] # "none"
    /\ binder[p] # "none" => state[p] # "none"

PrepInv ==
  /\ PrepTypeOK
  /\ CommitsArePrepared
  /\ DiallingIsExclusive
  /\ JournalKnowsDials
  /\ RequestDialledOnce
  /\ HandlersInOrder

-----------------------------------------------------------------------------
(* Preparation: what the helpers keep                                      *)

LeasePhases == {"none", "preparing", "dispatching", "awaiting", "bound"}

LeasesTyped == lease \in [Preps -> LeasePhases] /\ revoked \subseteq Preps

LEMMA SetLeaseTypes ==
  ASSUME PrepTypeOK, NEW p \in Preps, NEW l \in LeasePhases, SetLease(p, l)
  PROVE  LeasesTyped'
BY DEF PrepTypeOK, SetLease, LeasesTyped, LeasePhases

LEMMA ReleaseTypes ==
  ASSUME PrepTypeOK, NEW p \in Preps, ReleaseOutgoing(p)
  PROVE  LeasesTyped'
BY SetLeaseTypes DEF ReleaseOutgoing, LeasePhases

LEMMA KeptLeaseTypes ==
  ASSUME PrepTypeOK, KeepLease
  PROVE  LeasesTyped'
BY DEF PrepTypeOK, KeepLease, LeasesTyped, LeasePhases

LEMMA EndCallTypes ==
  ASSUME PrepTypeOK, NEW p \in Preps, EndCall(p)
  PROVE  call' \in [Preps -> {"none", "live", "ended"}] /\ tried' \subseteq Preps
BY DEF PrepTypeOK, EndCall

LEMMA StopSessionTypes ==
  ASSUME PrepTypeOK, NEW p \in Preps, StopSession(p)
  PROVE  session' \in [Preps -> {"none", "open", "ready", "stopped"}]
BY DEF PrepTypeOK, StopSession

LEMMA SettleTypes ==
  ASSUME PrepTypeOK, NEW p \in Preps,
         NEW s \in {"pending", "completed", "failed", "indeterminate"},
         Settle(p, s)
  PROVE  status' \in [Requests -> {"absent", "pending", "completed", "failed",
                                   "indeterminate"}]
BY DEF PrepTypeOK, Settle

LEMMA DialledTypes ==
  ASSUME PrepTypeOK, NEW p \in Preps, req[p] \in Requests, Dialled(p)
  PROVE  dials' \in [Requests -> 0..2]
BY DEF PrepTypeOK, Dialled

\* The handler returns without a call: its preparation has failed.
FailedTyped ==
  /\ commit' \in [Preps -> {"idle", "begun", "published", "replay", "journal",
                            "ready", "dial", "placed", "bind"}]
  /\ state' \in [Preps -> {"none", "prepared", "committed", "failed", "cancelled"}]
  /\ dispatch' \in [Preps -> {"none", "live", "cancelled"}]

LEMMA FailTypes ==
  ASSUME PrepTypeOK, NEW p \in Preps, FailPreparation(p)
  PROVE  FailedTyped
BY DEF PrepTypeOK, FailPreparation, CommitAt, FailedTyped

\* A handler that returns without a call leaves the mutex, and its preparation
\* is no longer the one that dials.
LEMMA FailKeeps ==
  ASSUME PrepInv, NEW p \in Preps, commit[p] # "idle", FailPreparation(p)
  PROVE  /\ CommitsArePrepared' /\ HandlersInOrder'
         /\ \A q \in Preps : Dialling(q)' => q # p /\ Dialling(q) /\ req'[q] = req[q]
<1>1. CommitsArePrepared'
  BY DEF PrepInv, PrepTypeOK, CommitsArePrepared, FailPreparation, CommitAt
<1>2. HandlersInOrder'
  BY DEF PrepInv, HandlersInOrder, FailPreparation
<1>3. \A q \in Preps : Dialling(q)' => q # p /\ Dialling(q) /\ req'[q] = req[q]
  BY DEF PrepInv, PrepTypeOK, Dialling, FailPreparation, CommitAt
<1>4. QED
  BY <1>1, <1>2, <1>3

\* A step that leaves the commits, the requests and the journal alone can only
\* disturb the types and the deletes.
LEMMA QuietStep ==
  ASSUME PrepInv, PrepTypeOK', UNCHANGED <<state, req, commit, status, dials>>
  PROVE  /\ CommitsArePrepared' /\ DiallingIsExclusive'
         /\ JournalKnowsDials' /\ RequestDialledOnce'
BY DEF PrepInv, CommitsArePrepared, DiallingIsExclusive, Dialling,
   JournalKnowsDials, RequestDialledOnce

\* So does one that changes the state of a preparation whose mutex is free.
LEMMA StateStep ==
  ASSUME PrepInv, PrepTypeOK', NEW p \in Preps, commit[p] = "idle",
         \A q \in Preps \ {p} : state'[q] = state[q],
         state[p] # "none" \/ state'[p] = "none",
         UNCHANGED <<req, commit, status, dials>>
  PROVE  /\ CommitsArePrepared' /\ DiallingIsExclusive'
         /\ JournalKnowsDials' /\ RequestDialledOnce'
<1>1. CommitsArePrepared'
  BY DEF PrepInv, CommitsArePrepared
<1>2. QED
  BY <1>1 DEF PrepInv, DiallingIsExclusive, Dialling, JournalKnowsDials,
     RequestDialledOnce

-----------------------------------------------------------------------------
(* Preparation: steps that leave the commit and the journal alone          *)

LEMMA ForgetKeeps ==
  ASSUME PrepAssumption, PrepInv, NEW p \in Preps, Forget(p)
  PROVE  PrepInv'
<1>1. PrepTypeOK'
  BY DEF PrepAssumption, PrepInv, PrepTypeOK, Forget, handlers, outside
<1>2. UNCHANGED <<state, req, commit, status, dials, delete, cancelRequested>>
  BY DEF Forget, handlers, outside
<1>3. HandlersInOrder'
  BY <1>2 DEF PrepInv, PrepTypeOK, HandlersInOrder, Forget, handlers, outside
<1>4. QED
  BY <1>1, <1>2, <1>3, QuietStep DEF PrepInv

LEMMA RenewKeeps ==
  ASSUME PrepAssumption, PrepInv, NEW p \in Preps, Renew(p)
  PROVE  PrepInv'
<1>1. PrepTypeOK'
  BY DEF PrepAssumption, PrepInv, PrepTypeOK, Renew, handlers, outside
<1>2. UNCHANGED <<state, req, commit, status, dials, delete, cancelRequested>>
  BY DEF Renew, handlers, outside
<1>3. HandlersInOrder'
  BY <1>2 DEF PrepInv, PrepTypeOK, HandlersInOrder, Renew, handlers, outside
<1>4. QED
  BY <1>1, <1>2, <1>3, QuietStep DEF PrepInv

LEMMA OpenSocketKeeps ==
  ASSUME PrepAssumption, PrepInv, NEW p \in Preps, OpenSocket(p)
  PROVE  PrepInv'
<1>1. PrepTypeOK'
  BY DEF PrepAssumption, PrepInv, PrepTypeOK, OpenSocket, handlers, outside
<1>2. UNCHANGED <<state, req, commit, status, dials, delete, cancelRequested>>
  BY DEF OpenSocket, handlers, outside
<1>3. HandlersInOrder'
  BY <1>2 DEF PrepInv, PrepTypeOK, HandlersInOrder, OpenSocket, handlers, outside
<1>4. QED
  BY <1>1, <1>2, <1>3, QuietStep DEF PrepInv

LEMMA UplinkKeeps ==
  ASSUME PrepAssumption, PrepInv, NEW p \in Preps, Uplink(p)
  PROVE  PrepInv'
<1>1. PrepTypeOK'
  BY DEF PrepAssumption, PrepInv, PrepTypeOK, Uplink, handlers, outside
<1>2. UNCHANGED <<state, req, commit, status, dials, delete, cancelRequested>>
  BY DEF Uplink, handlers, outside
<1>3. HandlersInOrder'
  BY <1>2 DEF PrepInv, PrepTypeOK, HandlersInOrder, Uplink, handlers, outside
<1>4. QED
  BY <1>1, <1>2, <1>3, QuietStep DEF PrepInv

LEMMA SessionStopsKeeps ==
  ASSUME PrepAssumption, PrepInv, NEW p \in Preps, SessionStops(p)
  PROVE  PrepInv'
<1>1. PrepTypeOK'
  BY DEF PrepAssumption, PrepInv, PrepTypeOK, SessionStops, handlers, outside, StopSession, CancelDispatchContext
<1>2. UNCHANGED <<state, req, commit, status, dials, delete, cancelRequested>>
  BY DEF SessionStops, handlers, outside
<1>3. HandlersInOrder'
  BY <1>2 DEF PrepInv, PrepTypeOK, HandlersInOrder, SessionStops, handlers, outside
<1>4. QED
  BY <1>1, <1>2, <1>3, QuietStep DEF PrepInv

LEMMA HardwareBoundKeeps ==
  ASSUME PrepAssumption, PrepInv, NEW p \in Preps, HardwareBound(p)
  PROVE  PrepInv'
<1>1. PrepTypeOK'
  BY DEF PrepAssumption, PrepInv, PrepTypeOK, HardwareBound, handlers, outside
<1>2. UNCHANGED <<state, req, commit, status, dials, delete, cancelRequested>>
  BY DEF HardwareBound, handlers, outside
<1>3. HandlersInOrder'
  BY <1>2 DEF PrepInv, PrepTypeOK, HandlersInOrder, HardwareBound, handlers, outside
<1>4. QED
  BY <1>1, <1>2, <1>3, QuietStep DEF PrepInv

LEMMA HardwareFailsKeeps ==
  ASSUME PrepAssumption, PrepInv, NEW p \in Preps, HardwareFails(p)
  PROVE  PrepInv'
<1>1. PrepTypeOK'
  BY EndCallTypes DEF PrepAssumption, PrepInv, PrepTypeOK, HardwareFails, handlers, outside, StopSession
<1>2. UNCHANGED <<state, req, commit, status, dials, delete, cancelRequested>>
  BY DEF HardwareFails, handlers, outside
<1>3. HandlersInOrder'
  BY <1>2 DEF PrepInv, PrepTypeOK, HandlersInOrder, HardwareFails, handlers, outside
<1>4. QED
  BY <1>1, <1>2, <1>3, QuietStep DEF PrepInv

LEMMA RevokeKeeps ==
  ASSUME PrepAssumption, PrepInv, NEW p \in Preps, Revoke(p)
  PROVE  PrepInv'
<1>1. PrepTypeOK'
  BY DEF PrepAssumption, PrepInv, PrepTypeOK, Revoke, handlers, outside
<1>2. UNCHANGED <<state, req, commit, status, dials, delete, cancelRequested>>
  BY DEF Revoke, handlers, outside
<1>3. HandlersInOrder'
  BY <1>2 DEF PrepInv, PrepTypeOK, HandlersInOrder, Revoke, handlers, outside
<1>4. QED
  BY <1>1, <1>2, <1>3, QuietStep DEF PrepInv

LEMMA LapseKeeps ==
  ASSUME PrepAssumption, PrepInv, NEW p \in Preps, Lapse(p)
  PROVE  PrepInv'
<1>1. PrepTypeOK'
  BY SetLeaseTypes DEF PrepAssumption, PrepInv, PrepTypeOK, Lapse, handlers, outside, LeaseOnly, LeasesTyped, LeasePhases
<1>2. UNCHANGED <<state, req, commit, status, dials, delete, cancelRequested>>
  BY DEF Lapse, handlers, outside, LeaseOnly
<1>3. HandlersInOrder'
  BY <1>2 DEF PrepInv, PrepTypeOK, HandlersInOrder, Lapse, LeaseOnly, handlers, outside
<1>4. QED
  BY <1>1, <1>2, <1>3, QuietStep DEF PrepInv

LEMMA ResolveKeeps ==
  ASSUME PrepAssumption, PrepInv, NEW p \in Preps, Resolve(p)
  PROVE  PrepInv'
<1>1. PrepTypeOK'
  BY SetLeaseTypes DEF PrepAssumption, PrepInv, PrepTypeOK, Resolve, handlers, outside, LeaseOnly, LeasesTyped, LeasePhases
<1>2. UNCHANGED <<state, req, commit, status, dials, delete, cancelRequested>>
  BY DEF Resolve, handlers, outside, LeaseOnly
<1>3. HandlersInOrder'
  BY <1>2 DEF PrepInv, PrepTypeOK, HandlersInOrder, Resolve, LeaseOnly, handlers, outside
<1>4. QED
  BY <1>1, <1>2, <1>3, QuietStep DEF PrepInv

LEMMA EndOrphanKeeps ==
  ASSUME PrepAssumption, PrepInv, NEW p \in Preps, EndOrphan(p)
  PROVE  PrepInv'
<1>1. PrepTypeOK'
  BY EndCallTypes DEF PrepAssumption, PrepInv, PrepTypeOK, EndOrphan, handlers, outside
<1>2. UNCHANGED <<state, req, commit, status, dials, delete, cancelRequested>>
  BY DEF EndOrphan, handlers, outside
<1>3. HandlersInOrder'
  BY <1>2 DEF PrepInv, PrepTypeOK, HandlersInOrder, EndOrphan, handlers, outside
<1>4. QED
  BY <1>1, <1>2, <1>3, QuietStep DEF PrepInv

LEMMA RemoteEndsKeeps ==
  ASSUME PrepAssumption, PrepInv, NEW p \in Preps, RemoteEnds(p)
  PROVE  PrepInv'
<1>1. PrepTypeOK'
  BY DEF PrepAssumption, PrepInv, PrepTypeOK, RemoteEnds, handlers, outside
<1>2. UNCHANGED <<state, req, commit, status, dials, delete, cancelRequested>>
  BY DEF RemoteEnds, handlers, outside
<1>3. HandlersInOrder'
  BY <1>2 DEF PrepInv, PrepTypeOK, HandlersInOrder, RemoteEnds, handlers, outside
<1>4. QED
  BY <1>1, <1>2, <1>3, QuietStep DEF PrepInv

-----------------------------------------------------------------------------
(* Preparation: steps on a preparation that nobody commits                 *)

LEMMA PrepareKeeps ==
  ASSUME PrepAssumption, PrepInv, NEW p \in Preps, NEW r \in Requests,
         Prepare(p, r)
  PROVE  PrepInv'
<1>1. PrepTypeOK'
  BY SetLeaseTypes DEF PrepAssumption, PrepInv, PrepTypeOK, Prepare, handlers,
     outside, LeasesTyped, LeasePhases
<1>2. commit[p] = "idle" /\ UNCHANGED <<commit, status, dials>>
  BY DEF PrepInv, PrepTypeOK, CommitsArePrepared, Prepare, handlers, outside
<1>3. \A q \in Preps \ {p} : state'[q] = state[q] /\ req'[q] = req[q]
  BY DEF PrepInv, PrepTypeOK, Prepare
<1>4. req'[p] \in Requests
  BY DEF PrepInv, PrepTypeOK, Prepare
<1>5. CommitsArePrepared'
  BY <1>2, <1>3, <1>4 DEF PrepInv, CommitsArePrepared
<1>6. DiallingIsExclusive' /\ JournalKnowsDials' /\ RequestDialledOnce'
  BY <1>2, <1>3 DEF PrepInv, DiallingIsExclusive, Dialling, JournalKnowsDials,
     RequestDialledOnce
<1>7. HandlersInOrder'
  BY <1>3 DEF PrepInv, PrepTypeOK, HandlersInOrder, Prepare, handlers
<1>8. QED
  BY <1>1, <1>5, <1>6, <1>7 DEF PrepInv

LEMMA ExpireKeeps ==
  ASSUME PrepAssumption, PrepInv, NEW p \in Preps, Expire(p)
  PROVE  PrepInv'
<1>1. /\ (state[p] # "none" \/ state'[p] = "none")
      /\ \A q \in Preps \ {p} : state'[q] = state[q]
      /\ state' \in [Preps -> {"none", "prepared", "committed", "failed", "cancelled"}]
      /\ commit[p] = "idle"
      /\ UNCHANGED <<req, commit, status, dials, delete, cancelRequested>>
  BY DEF PrepInv, PrepTypeOK, Expire, Free, handlers, outside
<1>2. timer' \in [Preps -> 0..Window \cup {None}]
  BY DEF PrepInv, PrepTypeOK, Expire, NextTimer
<1>3. LeasesTyped'
  BY ReleaseTypes, KeptLeaseTypes DEF PrepInv, Expire
<1>4. session' \in [Preps -> {"none", "open", "ready", "stopped"}]
  BY StopSessionTypes DEF PrepInv, PrepTypeOK, Expire
<1>5. PrepTypeOK'
  BY <1>1, <1>2, <1>3, <1>4 DEF PrepInv, PrepTypeOK, Expire, handlers, outside,
     LeasesTyped, LeasePhases
<1>6. HandlersInOrder'
  BY <1>1 DEF PrepInv, HandlersInOrder, Expire, handlers
<1>7. QED
  BY <1>1, <1>5, <1>6, StateStep DEF PrepInv

LEMMA HardwareFailedKeeps ==
  ASSUME PrepInv, NEW p \in Preps, HardwareFailed(p)
  PROVE  PrepInv'
<1>1. PrepTypeOK'
  BY DEF PrepInv, PrepTypeOK, HardwareFailed, outside
<1>2. /\ commit[p] = "idle" /\ \A q \in Preps \ {p} : state'[q] = state[q]
      /\ UNCHANGED <<req, commit, status, dials, delete, cancelRequested>>
  BY DEF PrepInv, PrepTypeOK, HardwareFailed, Free, outside
<1>3. state[p] # "none" /\ state'[p] # "none"
  BY DEF PrepInv, PrepTypeOK, HandlersInOrder, HardwareFailed
<1>4. HandlersInOrder'
  BY <1>2, <1>3 DEF PrepInv, PrepTypeOK, HandlersInOrder, HardwareFailed
<1>5. QED
  BY <1>1, <1>2, <1>3, <1>4, StateStep DEF PrepInv

-----------------------------------------------------------------------------
(* Preparation: DELETE                                                     *)

LEMMA RequestCancelKeeps ==
  ASSUME PrepInv, NEW p \in Preps, RequestCancel(p)
  PROVE  PrepInv'
<1>1. PrepTypeOK'
  BY DEF PrepInv, PrepTypeOK, RequestCancel, outside
<1>2. HandlersInOrder'
  BY DEF PrepInv, PrepTypeOK, HandlersInOrder, RequestCancel
<1>3. QED
  BY <1>1, <1>2, QuietStep DEF PrepInv, RequestCancel, outside

LEMMA CancelDispatchKeeps ==
  ASSUME PrepInv, NEW p \in Preps, CancelDispatch(p)
  PROVE  PrepInv'
<1>1. PrepTypeOK'
  BY DEF PrepInv, PrepTypeOK, CancelDispatch, CancelDispatchContext, outside
<1>2. HandlersInOrder'
  BY DEF PrepInv, PrepTypeOK, HandlersInOrder, CancelDispatch
<1>3. QED
  BY <1>1, <1>2, QuietStep DEF PrepInv, CancelDispatch, outside

LEMMA CancelKeeps ==
  ASSUME PrepInv, NEW p \in Preps, Cancel(p)
  PROVE  PrepInv'
<1>1. PrepTypeOK'
  <2>1. session' \in [Preps -> {"none", "open", "ready", "stopped"}]
    BY StopSessionTypes DEF PrepInv, Cancel
  <2>2. lease' \in [Preps -> LeasePhases] /\ revoked' \subseteq Preps
    BY DEF PrepInv, PrepTypeOK, Cancel, AfterCancel, LeasePhases
  <2>3. delete' \in [Preps -> {"none", "requested", "waiting", "hangup"}]
    BY DEF PrepInv, PrepTypeOK, Cancel, AfterCancelled
  <2>4. state' \in [Preps -> {"none", "prepared", "committed", "failed", "cancelled"}]
    BY DEF PrepInv, PrepTypeOK, Cancel
  <2>5. QED
    BY <2>1, <2>2, <2>3, <2>4 DEF PrepInv, PrepTypeOK, Cancel, outside,
       LeasePhases
<1>2. /\ commit[p] = "idle" /\ state'[p] = "cancelled" /\ state[p] # "none"
      /\ \A q \in Preps \ {p} : state'[q] = state[q] /\ delete'[q] = delete[q]
      /\ p \in cancelRequested
      /\ UNCHANGED <<req, commit, status, dials, cancelRequested, binder>>
  BY DEF PrepInv, PrepTypeOK, HandlersInOrder, Cancel, Free, outside
<1>3. HandlersInOrder'
  BY <1>2 DEF PrepInv, HandlersInOrder
<1>4. QED
  BY <1>1, <1>2, <1>3, StateStep DEF PrepInv

LEMMA CancelledCallKeeps ==
  ASSUME PrepInv, NEW p \in Preps, CancelledCall(p)
  PROVE  PrepInv'
<1>1. PrepTypeOK'
  BY EndCallTypes DEF PrepInv, PrepTypeOK, CancelledCall
<1>2. HandlersInOrder'
  BY DEF PrepInv, PrepTypeOK, HandlersInOrder, CancelledCall
<1>3. QED
  BY <1>1, <1>2, QuietStep DEF PrepInv, CancelledCall

-----------------------------------------------------------------------------
(* Preparation: the commit                                                 *)

\* A step of the commit of p to a place where it does not own a journal entry,
\* while the journal keeps what it says.
LEMMA CommitStepKeeps ==
  ASSUME PrepInv, PrepTypeOK', NEW p \in Preps, state[p] = "prepared",
         NEW at \in {"idle", "begun", "published", "replay", "journal", "placed",
                     "bind"},
         commit' = [commit EXCEPT ![p] = at],
         UNCHANGED <<state, req, delete, cancelRequested, binder, status, dials>>
  PROVE  PrepInv'
<1>1. CommitsArePrepared' /\ HandlersInOrder'
  BY DEF PrepInv, PrepTypeOK, CommitsArePrepared, HandlersInOrder
<1>2. \A q \in Preps : Dialling(q)' => q # p /\ Dialling(q)
  BY DEF PrepInv, PrepTypeOK, Dialling
<1>3. DiallingIsExclusive' /\ JournalKnowsDials' /\ RequestDialledOnce'
  BY <1>2 DEF PrepInv, DiallingIsExclusive, JournalKnowsDials, RequestDialledOnce
<1>4. QED
  BY <1>1, <1>3 DEF PrepInv

\* The commit gives up before it has dialled or inserted anything.
LEMMA FailStepKeeps ==
  ASSUME PrepInv, PrepTypeOK', NEW p \in Preps, commit[p] # "idle",
         FailPreparation(p), UNCHANGED <<status, dials>>
  PROVE  PrepInv'
<1>1. /\ CommitsArePrepared' /\ HandlersInOrder'
      /\ \A q \in Preps : Dialling(q)' => q # p /\ Dialling(q) /\ req'[q] = req[q]
  BY FailKeeps
<1>2. DiallingIsExclusive' /\ JournalKnowsDials' /\ RequestDialledOnce'
  BY <1>1 DEF PrepInv, DiallingIsExclusive, JournalKnowsDials, RequestDialledOnce
<1>3. QED
  BY <1>1, <1>2 DEF PrepInv

\* The commit gives up the entry it owns: it may have dialled once, and the
\* entry is settled or left as it is.
LEMMA FailDialKeeps ==
  ASSUME PrepInv, PrepTypeOK', NEW p \in Preps, Dialling(p), FailPreparation(p),
         \/ Settle(p, "failed") \/ Settle(p, "indeterminate") \/ UNCHANGED status,
         Dialled(p) \/ UNCHANGED dials
  PROVE  PrepInv'
<1>1. commit[p] # "idle" /\ req[p] \in Requests
  BY DEF Dialling, PrepInv, CommitsArePrepared
<1>2. /\ CommitsArePrepared' /\ HandlersInOrder'
      /\ \A q \in Preps : Dialling(q)' => q # p /\ Dialling(q) /\ req'[q] = req[q]
  BY <1>1, FailKeeps
<1>3. status[req[p]] = "pending" /\ dials[req[p]] = 0
  BY DEF PrepInv, DiallingIsExclusive
<1>4. \A r \in Requests \ {req[p]} : status'[r] = status[r] /\ dials'[r] = dials[r]
  BY <1>1 DEF PrepInv, PrepTypeOK, Settle, Dialled
<1>5. status'[req[p]] # "absent" /\ dials'[req[p]] <= 1
  BY <1>1, <1>3 DEF PrepInv, PrepTypeOK, Settle, Dialled
<1>6. JournalKnowsDials' /\ RequestDialledOnce'
  BY <1>4, <1>5 DEF PrepInv, JournalKnowsDials, RequestDialledOnce
<1>7. \A q \in Preps : Dialling(q)' => req[q] # req[p] /\ req[q] \in Requests
  BY <1>2 DEF PrepInv, DiallingIsExclusive, CommitsArePrepared, Dialling
<1>8. DiallingIsExclusive'
  BY <1>2, <1>4, <1>7 DEF PrepInv, DiallingIsExclusive
<1>9. QED
  BY <1>2, <1>6, <1>8 DEF PrepInv

LEMMA BeginCommitKeeps ==
  ASSUME PrepInv, NEW p \in Preps, BeginCommit(p)
  PROVE  PrepInv'
<1>1. PrepTypeOK'
  BY SetLeaseTypes DEF PrepInv, PrepTypeOK, BeginCommit, CommitAt, outside,
     LeasesTyped, LeasePhases
<1>2. QED
  BY <1>1, CommitStepKeeps DEF BeginCommit, Committable, CommitAt, outside

LEMMA PublishDispatchKeeps ==
  ASSUME PrepInv, NEW p \in Preps, PublishDispatch(p)
  PROVE  PrepInv'
<1>1. PrepTypeOK'
  BY DEF PrepInv, PrepTypeOK, PublishDispatch, CommitAt, NewDispatch, outside
<1>2. state[p] = "prepared"
  BY DEF PrepInv, CommitsArePrepared, PublishDispatch
<1>3. QED
  BY <1>1, <1>2, CommitStepKeeps DEF PublishDispatch, CommitAt, outside

\* A handler that only moves on to another place before the dial.
LEMMA CommitOnlyKeeps ==
  ASSUME PrepInv, NEW p \in Preps, commit[p] # "idle",
         NEW at \in {"published", "replay", "journal"}, CommitOnly(p, at)
  PROVE  PrepInv'
<1>1. PrepTypeOK'
  BY DEF PrepInv, PrepTypeOK, CommitOnly, CommitAt, outside
<1>2. state[p] = "prepared"
  BY DEF PrepInv, CommitsArePrepared
<1>3. QED
  BY <1>1, <1>2, CommitStepKeeps DEF CommitOnly, CommitAt, outside

\* The types when the commit fails: the reservation is released or kept, the
\* session stopped or left, and the rest is as it was or typed.
LEMMA FailedCommitTypes ==
  ASSUME PrepInv, NEW p \in Preps, FailPreparation(p),
         StopSession(p) \/ UNCHANGED session, LeasesTyped',
         status' \in [Requests -> {"absent", "pending", "completed", "failed",
                                   "indeterminate"}],
         call' \in [Preps -> {"none", "live", "ended"}], tried' \subseteq Preps,
         dials' \in [Requests -> 0..2]
  PROVE  PrepTypeOK'
<1>1. FailedTyped
  BY FailTypes DEF PrepInv
<1>2. session' \in [Preps -> {"none", "open", "ready", "stopped"}]
  BY StopSessionTypes DEF PrepInv, PrepTypeOK
<1>3. QED
  BY <1>1, <1>2 DEF PrepInv, PrepTypeOK, FailedTyped, FailPreparation,
     LeasesTyped, LeasePhases

LEMMA CheckDispatchKeeps ==
  ASSUME PrepInv, NEW p \in Preps, CheckDispatch(p)
  PROVE  PrepInv'
<1>1. CASE CommitOnly(p, "replay")
  BY <1>1, CommitOnlyKeeps DEF CheckDispatch
<1>2. CASE FailPreparation(p) /\ ReleaseOutgoing(p) /\ UNCHANGED <<session, outside>>
  <2>1. PrepTypeOK'
    BY <1>2, FailedCommitTypes, ReleaseTypes DEF PrepInv, PrepTypeOK, outside
  <2>2. QED
    BY <1>2, <2>1, FailStepKeeps DEF CheckDispatch, outside
<1>3. QED
  BY <1>1, <1>2 DEF CheckDispatch

\* FailCommit in a place where nothing has been dialled.
LEMMA FailCommitKeeps ==
  ASSUME PrepInv, NEW p \in Preps, commit[p] # "idle", FailCommit(p),
         ReleaseOutgoing(p) \/ KeepLease, UNCHANGED outside
  PROVE  PrepInv'
<1>1. PrepTypeOK'
  BY FailedCommitTypes, ReleaseTypes, KeptLeaseTypes
  DEF PrepInv, PrepTypeOK, FailCommit, outside
<1>2. QED
  BY <1>1, FailStepKeeps DEF FailCommit, outside

LEMMA CannotReplayKeeps ==
  ASSUME PrepInv, NEW p \in Preps, CannotReplay(p)
  PROVE  PrepInv'
BY FailCommitKeeps DEF CannotReplay

LEMMA ReplayKeeps ==
  ASSUME PrepInv, NEW p \in Preps, Replay(p)
  PROVE  PrepInv'
<1>1. CASE CommitOnly(p, "journal")
  BY <1>1, CommitOnlyKeeps DEF Replay
<1>2. CASE FailCommit(p) /\ (ReleaseOutgoing(p) \/ KeepLease) /\ UNCHANGED outside
  BY <1>2, FailCommitKeeps DEF Replay
<1>3. QED
  BY <1>1, <1>2 DEF Replay

\* The entry was absent: nobody owns it and nothing was dialled for it.
LEMMA BeginCommandKeeps ==
  ASSUME PrepInv, NEW p \in Preps, BeginCommand(p)
  PROVE  PrepInv'
<1>1. CASE status[req[p]] # "absent"
  BY <1>1, FailCommitKeeps DEF BeginCommand
<1>2. CASE status[req[p]] = "absent"
  <2>1. /\ status' = [status EXCEPT ![req[p]] = "pending"]
        /\ commit' = [commit EXCEPT ![p] = "ready"]
        /\ UNCHANGED <<state, req, listed, left, timer, delete, cancelRequested,
                       dispatch, binder, session, lease, revoked, call, tried,
                       dials>>
    BY <1>2 DEF BeginCommand, Settle, CommitAt
  <2>2. PrepTypeOK'
    BY <2>1 DEF PrepInv, PrepTypeOK
  <2>3. state[p] = "prepared" /\ req[p] \in Requests
    BY DEF PrepInv, CommitsArePrepared, BeginCommand
  <2>4. CommitsArePrepared' /\ HandlersInOrder'
    BY <2>1, <2>3 DEF PrepInv, PrepTypeOK, CommitsArePrepared, HandlersInOrder
  <2>5. \A q \in Preps : Dialling(q) => req[q] # req[p]
    BY <1>2 DEF PrepInv, DiallingIsExclusive
  <2>6. \A q \in Preps \ {p} : Dialling(q)' <=> Dialling(q)
    BY <2>1 DEF PrepInv, PrepTypeOK, Dialling
  <2>7. status'[req[p]] = "pending" /\ dials'[req[p]] = 0
    BY <1>2, <2>1, <2>3 DEF PrepInv, PrepTypeOK, JournalKnowsDials
  <2>8. \A r \in Requests \ {req[p]} : status'[r] = status[r] /\ dials'[r] = dials[r]
    BY <2>1 DEF PrepInv, PrepTypeOK
  <2>9. \A q \in Preps : Dialling(q) => req[q] \in Requests
    BY DEF PrepInv, CommitsArePrepared, Dialling
  <2>10. DiallingIsExclusive'
    BY <2>1, <2>5, <2>6, <2>7, <2>8, <2>9 DEF PrepInv, DiallingIsExclusive
  <2>11. JournalKnowsDials' /\ RequestDialledOnce'
    BY <2>1, <2>7, <2>8 DEF PrepInv, JournalKnowsDials, RequestDialledOnce
  <2>12. QED
    BY <2>2, <2>4, <2>10, <2>11 DEF PrepInv
<1>3. QED
  BY <1>1, <1>2

LEMMA DecideDialKeeps ==
  ASSUME PrepInv, NEW p \in Preps, DecideDial(p)
  PROVE  PrepInv'
<1>1. Dialling(p) /\ req[p] \in Requests /\ state[p] = "prepared"
  BY DEF DecideDial, Dialling, PrepInv, CommitsArePrepared
<1>2. CASE CommitOnly(p, "dial")
  <2>1. /\ commit' = [commit EXCEPT ![p] = "dial"]
        /\ UNCHANGED <<state, req, delete, cancelRequested, binder, status, dials>>
    BY <1>2 DEF CommitOnly, CommitAt, outside
  <2>2. PrepTypeOK'
    BY <1>2, <2>1 DEF PrepInv, PrepTypeOK, CommitOnly, outside
  <2>3. \A q \in Preps : Dialling(q)' <=> Dialling(q)
    BY <1>1, <2>1 DEF PrepInv, PrepTypeOK, Dialling
  <2>4. CommitsArePrepared' /\ HandlersInOrder'
    BY <1>1, <2>1 DEF PrepInv, PrepTypeOK, CommitsArePrepared, HandlersInOrder
  <2>5. DiallingIsExclusive' /\ JournalKnowsDials' /\ RequestDialledOnce'
    BY <2>1, <2>3 DEF PrepInv, DiallingIsExclusive, JournalKnowsDials,
       RequestDialledOnce
  <2>6. QED
    BY <2>2, <2>4, <2>5 DEF PrepInv
<1>3. CASE /\ FailCommit(p) /\ ReleaseOutgoing(p)
           /\ Settle(p, "failed") /\ UNCHANGED <<call, tried, dials>>
  <2>1. PrepTypeOK'
    BY <1>3, FailedCommitTypes, ReleaseTypes, SettleTypes
    DEF PrepInv, PrepTypeOK, FailCommit
  <2>2. QED
    BY <1>1, <1>3, <2>1, FailDialKeeps DEF FailCommit
<1>4. QED
  BY <1>2, <1>3 DEF DecideDial

LEMMA DialAcceptedKeeps ==
  ASSUME PrepInv, NEW p \in Preps, DialAccepted(p)
  PROVE  PrepInv'
<1>1. Dialling(p) /\ req[p] \in Requests /\ state[p] = "prepared"
  BY DEF DialAccepted, Dialling, PrepInv, CommitsArePrepared
<1>2. /\ status' = [status EXCEPT ![req[p]] = "completed"]
      /\ commit' = [commit EXCEPT ![p] = "placed"]
      /\ UNCHANGED <<state, req, delete, cancelRequested, binder>>
  BY DEF DialAccepted, Settle, CommitAt
<1>3. PrepTypeOK'
  BY <1>1, <1>2, DialledTypes DEF PrepInv, PrepTypeOK, DialAccepted
<1>4. status[req[p]] = "pending" /\ dials[req[p]] = 0
  BY <1>1 DEF PrepInv, DiallingIsExclusive
<1>5. /\ \A r \in Requests \ {req[p]} : status'[r] = status[r] /\ dials'[r] = dials[r]
      /\ status'[req[p]] = "completed" /\ dials'[req[p]] = 1
  BY <1>1, <1>2, <1>4 DEF PrepInv, PrepTypeOK, DialAccepted, Dialled
<1>6. CommitsArePrepared' /\ HandlersInOrder'
  BY <1>1, <1>2 DEF PrepInv, PrepTypeOK, CommitsArePrepared, HandlersInOrder
<1>7. \A q \in Preps : Dialling(q)' =>
        q # p /\ Dialling(q) /\ req[q] # req[p] /\ req[q] \in Requests
  BY <1>1, <1>2 DEF PrepInv, PrepTypeOK, DiallingIsExclusive, CommitsArePrepared,
     Dialling
<1>8. DiallingIsExclusive'
  BY <1>2, <1>5, <1>7 DEF PrepInv, DiallingIsExclusive
<1>9. JournalKnowsDials' /\ RequestDialledOnce'
  BY <1>5 DEF PrepInv, JournalKnowsDials, RequestDialledOnce
<1>10. QED
  BY <1>3, <1>6, <1>8, <1>9 DEF PrepInv

LEMMA DialRejectedKeeps ==
  ASSUME PrepInv, NEW p \in Preps, DialRejected(p)
  PROVE  PrepInv'
<1>1. Dialling(p) /\ req[p] \in Requests
  BY DEF DialRejected, Dialling, PrepInv, CommitsArePrepared
<1>2. PrepTypeOK'
  BY <1>1, FailedCommitTypes, ReleaseTypes, SettleTypes, DialledTypes
  DEF PrepInv, PrepTypeOK, FailCommit, DialRejected
<1>3. QED
  BY <1>1, <1>2, FailDialKeeps DEF FailCommit, DialRejected

LEMMA DialIndeterminateKeeps ==
  ASSUME PrepInv, NEW p \in Preps, DialIndeterminate(p)
  PROVE  PrepInv'
<1>1. Dialling(p) /\ req[p] \in Requests
  BY DEF DialIndeterminate, Dialling, PrepInv, CommitsArePrepared
<1>2. LeasesTyped'
  BY ReleaseTypes, SetLeaseTypes DEF PrepInv, DialIndeterminate, LeasePhases
<1>3. call' \in [Preps -> {"none", "live", "ended"}] /\ tried' \subseteq Preps
  BY DEF PrepInv, PrepTypeOK, DialIndeterminate
<1>4. PrepTypeOK'
  BY <1>1, <1>2, <1>3, FailedCommitTypes, SettleTypes, DialledTypes
  DEF PrepInv, FailCommit, DialIndeterminate
<1>5. QED
  BY <1>1, <1>4, FailDialKeeps DEF FailCommit, DialIndeterminate

LEMMA DialUnsavedKeeps ==
  ASSUME PrepInv, NEW p \in Preps, DialUnsaved(p)
  PROVE  PrepInv'
<1>1. Dialling(p) /\ req[p] \in Requests
  BY DEF DialUnsaved, Dialling, PrepInv, CommitsArePrepared
<1>2. call' \in [Preps -> {"none", "live", "ended"}] /\ tried' \subseteq Preps
  BY DEF PrepInv, PrepTypeOK, DialUnsaved
<1>3. PrepTypeOK'
  BY <1>1, <1>2, FailedCommitTypes, ReleaseTypes, DialledTypes
  DEF PrepInv, PrepTypeOK, FailCommit, DialUnsaved
<1>4. QED
  BY <1>1, <1>3, FailDialKeeps DEF FailCommit, DialUnsaved

\* The call exists: the commit fails, and the call is ended or that was tried.
LEMMA FailedCallKeeps ==
  ASSUME PrepInv, NEW p \in Preps, commit[p] # "idle", FailCommit(p),
         ReleaseOutgoing(p) \/ KeepLease, EndCall(p), UNCHANGED <<status, dials>>
  PROVE  PrepInv'
<1>1. PrepTypeOK'
  BY FailedCommitTypes, ReleaseTypes, KeptLeaseTypes, EndCallTypes
  DEF PrepInv, PrepTypeOK, FailCommit
<1>2. QED
  BY <1>1, FailStepKeeps DEF FailCommit

LEMMA ActivateKeeps ==
  ASSUME PrepInv, NEW p \in Preps, Activate(p)
  PROVE  PrepInv'
<1>1. commit[p] # "idle" /\ state[p] = "prepared"
  BY DEF PrepInv, CommitsArePrepared, Activate
<1>2. CASE /\ SetLease(p, "bound") /\ CommitAt(p, "bind")
           /\ UNCHANGED <<state, req, listed, left, timer, delete,
                cancelRequested, dispatch, binder, session, outside>>
  <2>1. PrepTypeOK'
    BY <1>2, SetLeaseTypes DEF PrepInv, PrepTypeOK, CommitAt, outside,
       LeasesTyped, LeasePhases
  <2>2. QED
    BY <1>1, <1>2, <2>1, CommitStepKeeps DEF CommitAt, outside
<1>3. CASE /\ FailCommit(p) /\ ReleaseOutgoing(p)
           /\ EndCall(p) /\ UNCHANGED <<status, dials>>
  BY <1>1, <1>3, FailedCallKeeps
<1>4. QED
  BY <1>2, <1>3 DEF Activate

LEMMA BindKeeps ==
  ASSUME PrepInv, NEW p \in Preps, Bind(p)
  PROVE  PrepInv'
<1>1. commit[p] # "idle" /\ state[p] = "prepared"
  BY DEF PrepInv, CommitsArePrepared, Bind
<1>2. CASE FailCommit(p) /\ EndCall(p) /\ KeepLease /\ UNCHANGED <<status, dials>>
  BY <1>1, <1>2, FailedCallKeeps
<1>3. CASE /\ state' = [state EXCEPT ![p] = "committed"]
           /\ binder' = [binder EXCEPT ![p] = "binding"]
           /\ commit' = [commit EXCEPT ![p] = "idle"]
           /\ dispatch' = [dispatch EXCEPT ![p] = "none"]
           /\ UNCHANGED <<req, listed, left, timer, delete, cancelRequested,
                          session, lease, revoked, outside>>
  <2>1. PrepTypeOK'
    BY <1>3 DEF PrepInv, PrepTypeOK, outside
  <2>2. CommitsArePrepared' /\ HandlersInOrder'
    BY <1>1, <1>3 DEF PrepInv, PrepTypeOK, CommitsArePrepared, HandlersInOrder
  <2>3. \A q \in Preps : Dialling(q)' => Dialling(q)
    BY <1>3 DEF PrepInv, PrepTypeOK, Dialling
  <2>4. DiallingIsExclusive' /\ JournalKnowsDials' /\ RequestDialledOnce'
    BY <1>3, <2>3 DEF PrepInv, DiallingIsExclusive, JournalKnowsDials,
       RequestDialledOnce, outside
  <2>5. QED
    BY <2>1, <2>2, <2>4 DEF PrepInv
<1>4. QED
  BY <1>2, <1>3 DEF Bind, CommitAt

-----------------------------------------------------------------------------
(* Preparation: the clock and a restart                                    *)

LEMMA ElapseKeeps ==
  ASSUME PrepAssumption, PrepInv, Elapse
  PROVE  PrepInv'
<1>1. left' \in [Preps -> 0..Window]
  BY DEF PrepAssumption, PrepInv, PrepTypeOK, Elapse, Elapsed
<1>2. timer' \in [Preps -> 0..Window \cup {None}]
  BY DEF PrepAssumption, PrepInv, PrepTypeOK, Elapse, Elapsed
<1>3. PrepTypeOK'
  BY <1>1, <1>2 DEF PrepInv, PrepTypeOK, Elapse, handlers, outside
<1>4. HandlersInOrder'
  BY DEF PrepInv, HandlersInOrder, Elapse, handlers
<1>5. QED
  BY <1>3, <1>4, QuietStep DEF PrepInv, Elapse, handlers, outside

LEMMA RestartKeeps ==
  ASSUME PrepAssumption, PrepInv, Restart
  PROVE  PrepInv'
<1>1. status' \in [Requests -> {"absent", "pending", "completed", "failed",
                                "indeterminate"}]
  BY DEF PrepInv, PrepTypeOK, Restart, StatusAfterRestart
<1>2. PrepTypeOK'
  BY <1>1 DEF PrepAssumption, PrepInv, PrepTypeOK, Restart
<1>3. CommitsArePrepared' /\ HandlersInOrder'
  BY DEF Restart, CommitsArePrepared, HandlersInOrder
<1>4. DiallingIsExclusive'
  BY DEF Restart, DiallingIsExclusive, Dialling
<1>5. \A r \in Requests : status'[r] = "absent" => status[r] = "absent"
  BY DEF PrepInv, PrepTypeOK, Restart, StatusAfterRestart
<1>6. JournalKnowsDials' /\ RequestDialledOnce'
  BY <1>5 DEF PrepInv, JournalKnowsDials, RequestDialledOnce, Restart
<1>7. QED
  BY <1>2, <1>3, <1>4, <1>6 DEF PrepInv

-----------------------------------------------------------------------------
(* Preparation: every behaviour                                            *)

LEMMA PrepInvInit ==
  ASSUME PrepAssumption, PrepInit
  PROVE  PrepInv
<1>1. PrepTypeOK
  BY DEF PrepAssumption, PrepInit, PrepTypeOK
<1>2. CommitsArePrepared /\ HandlersInOrder
  BY DEF PrepInit, CommitsArePrepared, HandlersInOrder
<1>3. DiallingIsExclusive /\ JournalKnowsDials /\ RequestDialledOnce
  BY DEF PrepInit, DiallingIsExclusive, Dialling, JournalKnowsDials,
     RequestDialledOnce
<1>4. QED
  BY <1>1, <1>2, <1>3 DEF PrepInv

LEMMA PrepInvNext ==
  ASSUME PrepAssumption, PrepInv, [PrepNext]_prepVars
  PROVE  PrepInv'
<1>1. CASE UNCHANGED prepVars
  BY <1>1 DEF prepVars, handlers, outside, PrepInv, PrepTypeOK,
     CommitsArePrepared, DiallingIsExclusive, Dialling, JournalKnowsDials,
     RequestDialledOnce, HandlersInOrder
<1>2. ASSUME NEW p \in Preps, NEW r \in Requests, Prepare(p, r)
      PROVE  PrepInv'
  BY <1>2, PrepareKeeps
<1>3. ASSUME NEW p \in Preps,
             \/ Forget(p) \/ Renew(p) \/ Expire(p)
             \/ OpenSocket(p) \/ Uplink(p) \/ SessionStops(p)
      PROVE  PrepInv'
  BY <1>3, ForgetKeeps, RenewKeeps, ExpireKeeps, OpenSocketKeeps, UplinkKeeps,
     SessionStopsKeeps
<1>4. ASSUME NEW p \in Preps, BeginCommit(p) \/ CommitStep(p)
      PROVE  PrepInv'
  BY <1>4, BeginCommitKeeps, PublishDispatchKeeps, CheckDispatchKeeps,
     CannotReplayKeeps, ReplayKeeps, BeginCommandKeeps, DecideDialKeeps,
     DialAcceptedKeeps, DialRejectedKeeps, DialIndeterminateKeeps,
     DialUnsavedKeeps, ActivateKeeps, BindKeeps DEF CommitStep
<1>5. ASSUME NEW p \in Preps, HardwareStep(p) \/ RequestCancel(p) \/ DeleteStep(p)
      PROVE  PrepInv'
  BY <1>5, HardwareBoundKeeps, HardwareFailsKeeps, HardwareFailedKeeps,
     RequestCancelKeeps, CancelDispatchKeeps, CancelKeeps, CancelledCallKeeps
  DEF HardwareStep, DeleteStep
<1>6. ASSUME NEW p \in Preps, Revoke(p) \/ LeaseStep(p) \/ RemoteEnds(p)
      PROVE  PrepInv'
  BY <1>6, RevokeKeeps, LapseKeeps, ResolveKeeps, EndOrphanKeeps, RemoteEndsKeeps
  DEF LeaseStep
<1>7. CASE Elapse \/ Restart
  BY <1>7, ElapseKeeps, RestartKeeps
<1>8. QED
  BY <1>1, <1>2, <1>3, <1>4, <1>5, <1>6, <1>7 DEF PrepNext

\* The tables, handlers and histories of a preparation keep their types.
THEOREM PreparationTypes ==
  ASSUME PrepAssumption
  PROVE  PrepSpec => []PrepTypeOK
<1>1. PrepInit => PrepInv
  BY PrepInvInit
<1>2. PrepInv /\ [PrepNext]_prepVars => PrepInv'
  BY PrepInvNext
<1>3. PrepInv => PrepTypeOK
  BY DEF PrepInv
<1>4. QED
  BY <1>1, <1>2, <1>3, PTL DEF PrepSpec

\* However commits, repeated preparations of one request, cancellations and
\* restarts overlap, a request is dialled at most once
\* (httpapi/outgoing_preparation.go and communications.go commitPreparedCall).
THEOREM PreparationDialsOnce ==
  ASSUME PrepAssumption
  PROVE  PrepSpec => []RequestDialledOnce
<1>1. PrepInit => PrepInv
  BY PrepInvInit
<1>2. PrepInv /\ [PrepNext]_prepVars => PrepInv'
  BY PrepInvNext
<1>3. PrepInv => RequestDialledOnce
  BY DEF PrepInv
<1>4. QED
  BY <1>1, <1>2, <1>3, PTL DEF PrepSpec

\* Only the decision itself takes a commit from its last look to the dial.
LEMMA OnlyDecideDials ==
  ASSUME PrepInv, PrepNext, NEW q \in Preps,
         commit[q] = "ready", commit'[q] = "dial"
  PROVE  DecideDial(q) /\ ReadyToDial(q)
<1>1. commit' # commit
  OBVIOUS
<1>2. commit \in [Preps -> {"idle", "begun", "published", "replay", "journal",
                           "ready", "dial", "placed", "bind"}]
  BY DEF PrepInv, PrepTypeOK
<1>3. ASSUME NEW p \in Preps, NEW at, at # "dial",
             commit' = [commit EXCEPT ![p] = at]
      PROVE  FALSE
  BY <1>2, <1>3
<1>4. ~Elapse /\ ~Restart
  BY <1>1 DEF Elapse, Restart, handlers
<1>5. ASSUME NEW p \in Preps, NEW r \in Requests, Prepare(p, r) PROVE FALSE
  BY <1>1, <1>5 DEF Prepare, handlers
<1>6. ASSUME NEW p \in Preps,
             \/ Forget(p) \/ Renew(p) \/ Expire(p)
             \/ OpenSocket(p) \/ Uplink(p) \/ SessionStops(p)
      PROVE  FALSE
  BY <1>1, <1>6 DEF Forget, Renew, Expire, OpenSocket, Uplink, SessionStops,
     handlers
<1>7. ASSUME NEW p \in Preps, HardwareStep(p) \/ RequestCancel(p) \/ DeleteStep(p)
      PROVE  FALSE
  BY <1>1, <1>7 DEF HardwareStep, HardwareBound, HardwareFails, HardwareFailed,
     RequestCancel, DeleteStep, CancelDispatch, Cancel, CancelledCall
<1>8. ASSUME NEW p \in Preps, Revoke(p) \/ LeaseStep(p) \/ RemoteEnds(p)
      PROVE  FALSE
  BY <1>1, <1>8 DEF Revoke, LeaseStep, Lapse, Resolve, EndOrphan, RemoteEnds,
     LeaseOnly, handlers
<1>9. ASSUME NEW p \in Preps,
             \/ BeginCommit(p) \/ PublishDispatch(p) \/ CheckDispatch(p)
             \/ CannotReplay(p) \/ Replay(p) \/ BeginCommand(p)
             \/ DialAccepted(p) \/ DialRejected(p) \/ DialIndeterminate(p)
             \/ DialUnsaved(p) \/ Activate(p) \/ Bind(p)
      PROVE  FALSE
  BY <1>3, <1>9 DEF BeginCommit, PublishDispatch, CheckDispatch, CannotReplay,
     Replay, BeginCommand, DialAccepted, DialRejected, DialIndeterminate,
     DialUnsaved, Activate, Bind, CommitOnly, CommitAt, FailCommit,
     FailPreparation
<1>10. PICK p \in Preps : DecideDial(p)
  BY <1>4, <1>5, <1>6, <1>7, <1>8, <1>9 DEF PrepNext, CommitStep
<1>11. p = q
  BY <1>2, <1>10 DEF DecideDial, CommitOnly, CommitAt, FailCommit,
     FailPreparation
<1>12. ReadyToDial(q)
  BY <1>2, <1>10, <1>11 DEF DecideDial, FailCommit, FailPreparation, CommitAt
<1>13. QED
  BY <1>10, <1>11, <1>12

\* The last look before the command reads the flag that a DELETE sets first.
LEMMA PrepDialsUndisturbed ==
  ASSUME PrepInv, PrepNext
  PROVE  UndisturbedDial
<1>1. ASSUME NEW p \in Preps, commit[p] = "ready", commit'[p] = "dial"
      PROVE  delete[p] \notin {"waiting", "hangup"} /\ state[p] = "prepared"
  <2>1. p \notin cancelRequested
    BY <1>1, OnlyDecideDials DEF ReadyToDial
  <2>2. QED
    BY <1>1, <2>1 DEF PrepInv, HandlersInOrder, CommitsArePrepared
<1>2. QED
  BY <1>1 DEF UndisturbedDial

\* Once a DELETE has passed its flag, no step decides to dial, wherever the
\* commit in flight has got to.
THEOREM PreparationCancels ==
  ASSUME PrepAssumption
  PROVE  PrepSpec => NoDialAfterCancel
<1>1. PrepInit => PrepInv
  BY PrepInvInit
<1>2. PrepInv /\ [PrepNext]_prepVars => PrepInv'
  BY PrepInvNext
<1>3. PrepInv /\ [PrepNext]_prepVars => [UndisturbedDial]_prepVars
  BY PrepDialsUndisturbed
<1>4. QED
  BY <1>1, <1>2, <1>3, PTL DEF PrepSpec, NoDialAfterCancel

-----------------------------------------------------------------------------
(***************************************************************************)
(* The recording of a call                                                 *)
(***************************************************************************)

\* What the proofs need of the constants: the absence of a call or a segment
\* is none.
RecAssumption == None \notin RecCalls /\ None \notin Segments

-----------------------------------------------------------------------------
(* Recording: the inductive invariant                                      *)

Writing == {"run", "complete", "remove", "fail"}
Starting == {"subscribe", "mark", "launch", "giveup"}

\* Without a process that serves calls nobody works.
QuietIsIdle ==
  app \in {"recovering", "down"} =>
    /\ job = "free"
    /\ worker = [c \in RecCalls |-> None] /\ work = [s \in Segments |-> "none"]

\* A segment a worker has still to settle is in progress and belongs to the call
\* in whose entry the worker is; an entry names a worker that has not left.
SegmentAtWork(s) ==
  /\ work[s] \in Writing => /\ of[s] # None /\ worker[of[s]] = s
                            /\ seg[s] = "recording"
  /\ work[s] = "complete" => file[s] = "final"
  /\ seg[s] = "ready" => file[s] = "final"
  /\ file[s] = "part" =>
       \/ app \in {"recovering", "down"}
       \/ work[s] = "run"
       \/ job \in {"mark", "launch"} /\ fresh = s

EntryAtWork(c) ==
  worker[c] # None =>
    /\ work[worker[c]] # "none"
    /\ work[worker[c]] # "leave" => of[worker[c]] = c

\* A call is shown as being recorded with a segment, and while the process serves
\* calls somebody has still to settle it, unless a failure could not be stored.
Tended(c) ==
  LET s == rec[c].active IN
    /\ of[s] = c
    /\ \/ work[s] \in Writing
       \/ job \in {"launch", "giveup"} /\ fresh = s

ShownIsTended(c) ==
  rec[c].status = "recording" =>
    /\ rec[c].active # None
    /\ app \in {"up", "closing"} /\ c \notin refused => Tended(c)

\* A start under way: the call has no worker, and the segment's row and file are
\* as far as the start has come.
StartInOrder ==
  job \in Starting =>
    /\ target # None /\ fresh # None
    /\ worker[target] = None /\ work[fresh] = "none"
    /\ job = "subscribe" => seg[fresh] \in {"none", "pending"} /\ file[fresh] = "none"
    /\ job = "mark" => seg[fresh] = "pending"
    /\ job = "launch" => seg[fresh] = "recording"
    /\ job = "giveup" => seg[fresh] \in {"pending", "recording"}
    /\ seg[fresh] # "none" => of[fresh] = target

RecInv ==
  /\ RecTypeOK /\ QuietIsIdle /\ StartInOrder
  /\ \A s \in Segments : SegmentAtWork(s)
  /\ \A c \in RecCalls : EntryAtWork(c) /\ ShownIsTended(c)
  /\ job \in {"stop", "finalize", "delete"} => target # None

-----------------------------------------------------------------------------
(* Recording: operators                                                    *)

RecRecord == [status : Statuses, enabled : BOOLEAN, active : Segments \cup {None}]

\* A change of a call's recording state that does not begin to show it as being
\* recorded, nor with another segment.
ShowsNoMore(r, q) == q.status = "recording" => r.status = "recording" /\ q.active = r.active

LEMMA ConstantsTyped ==
  Off \in RecRecord /\ NoState \in RecRecord /\ Off.status = "off" /\ NoState.status = "none"
<1> DEFINE no == FALSE
<1>1. no \in BOOLEAN
  OBVIOUS
<1> HIDE DEF no
<1>2. [status |-> "off", enabled |-> no, active |-> None] \in RecRecord
  BY <1>1 DEF RecRecord, Statuses
<1>3. Off \in RecRecord /\ Off.status = "off"
  BY <1>2 DEF Off, no
<1>4. QED
  BY <1>3 DEF NoState, RecRecord, Statuses

LEMMA PendingTyped ==
  [status |-> "pending", enabled |-> TRUE, active |-> None] \in RecRecord
<1> DEFINE yes == TRUE
<1>1. yes \in BOOLEAN
  OBVIOUS
<1> HIDE DEF yes
<1>2. [status |-> "pending", enabled |-> yes, active |-> None] \in RecRecord
  BY <1>1 DEF RecRecord, Statuses
<1>3. QED
  BY <1>2 DEF yes

LEMMA EnsuredTyped ==
  ASSUME RecTypeOK, NEW c \in RecCalls, NEW asked \in BOOLEAN
  PROVE  Ensured(c, asked) \in RecRecord /\ ShowsNoMore(rec[c], Ensured(c, asked))
<1>1. rec[c] \in RecRecord
  BY DEF RecTypeOK, RecRecord
<1> DEFINE first == [status |-> "pending", enabled |-> TRUE, active |-> None]
<1>2. first \in RecRecord /\ first.status = "pending"
  BY PendingTyped
<1>3. Ensured(c, asked) \in {rec[c], first, Off}
  BY DEF Ensured
<1> HIDE DEF first
<1>4. QED
  BY <1>1, <1>2, <1>3, ConstantsTyped DEF ShowsNoMore

LEMMA SwitchedTyped ==
  ASSUME NEW r \in RecRecord, NEW on \in BOOLEAN
  PROVE  Switched(r, on) \in RecRecord /\ ShowsNoMore(r, Switched(r, on))
<1> DEFINE first == [status |-> "pending", enabled |-> TRUE, active |-> None]
           no == FALSE
           last == [r EXCEPT !.enabled = no,
                      !.status = IF r.active = None THEN "off" ELSE @]
<1>1. no \in BOOLEAN
  OBVIOUS
<1>2. first \in RecRecord /\ first.status = "pending"
  BY PendingTyped
<1>3. Switched(r, on) \in {r, first, last}
  BY DEF Switched
<1> HIDE DEF first, no
<1>4. last \in RecRecord
  BY <1>1 DEF RecRecord, Statuses
<1>5. ShowsNoMore(r, last)
  BY <1>1 DEF ShowsNoMore, RecRecord
<1> HIDE DEF last
<1>6. QED
  BY <1>2, <1>3, <1>4, <1>5 DEF ShowsNoMore

LEMMA FinalizedTyped ==
  ASSUME NEW r \in RecRecord
  PROVE  Finalized(r) \in RecRecord /\ ShowsNoMore(r, Finalized(r))
BY DEF Finalized, RecRecord, Statuses, ShowsNoMore

\* Settling a segment takes its call's state off it.
LEMMA SettledTyped ==
  ASSUME RecTypeOK, RecAssumption, NEW c \in RecCalls, NEW s \in Segments,
         NEW how \in {"ready", "failed"}
  PROVE  /\ Settled(c, s, how) \in [RecCalls -> RecRecord]
         /\ \A d \in RecCalls :
              /\ ShowsNoMore(rec[d], Settled(c, s, how)[d])
              /\ Settled(c, s, how)[d].status = "recording" /\ d = c =>
                   rec[d].active # s
<1>1. rec \in [RecCalls -> RecRecord]
  BY DEF RecTypeOK, RecRecord
<1>2. CASE rec[c].active # s
  BY <1>1, <1>2 DEF Settled, ShowsNoMore
<1>3. CASE rec[c].active = s
  <2> DEFINE st == IF how = "ready" /\ ~rec[c].enabled THEN "off" ELSE how
             r == [rec[c] EXCEPT !.active = None, !.status = st]
  <2>1. st \in {"off", "ready", "failed"}
    OBVIOUS
  <2> HIDE DEF st
  <2>2. r \in RecRecord /\ r.status # "recording"
    BY <1>1, <2>1 DEF RecRecord, Statuses
  <2>3. Settled(c, s, how) = [rec EXCEPT ![c] = r]
    BY <1>1, <1>3 DEF Settled, st
  <2> HIDE DEF r
  <2>4. QED
    BY <1>1, <2>2, <2>3 DEF ShowsNoMore
<1>4. QED
  BY <1>2, <1>3

-----------------------------------------------------------------------------
(* Recording: the holder of reconcileMu                                    *)

RecWorld ==
  /\ \A s \in Segments : SegmentAtWork(s)
  /\ \A c \in RecCalls : EntryAtWork(c) /\ ShownIsTended(c)

\* While nobody holds the lock, taking it and showing less changes nothing for
\* segments and workers.
LEMMA LockKeepsWorld ==
  ASSUME RecInv, job = "free", job' \notin {"mark", "launch", "giveup"},
         UNCHANGED <<app, seg, of, file, worker, work, refused>>,
         \A c \in RecCalls : ShowsNoMore(rec[c], rec'[c])
  PROVE  RecWorld'
<1>1. \A s \in Segments : SegmentAtWork(s)'
  BY DEF RecInv, SegmentAtWork
<1>2. \A c \in RecCalls : EntryAtWork(c)'
  BY DEF RecInv, EntryAtWork
<1>3. ASSUME NEW c \in RecCalls PROVE ShownIsTended(c)'
  BY DEF RecInv, ShownIsTended, Tended, ShowsNoMore
<1>4. QED
  BY <1>1, <1>2, <1>3 DEF RecWorld

\* A start chooses a free slot for a call without a worker, or comes to nothing.
LEMMA TargetStarts ==
  ASSUME RecInv, RecAssumption, NEW c \in RecCalls, StartTarget(c),
         app \in {"up", "closing"}, UNCHANGED <<app, seg, of, file, worker, work>>
  PROVE  /\ job' \in {"free", "subscribe"}
         /\ target' \in RecCalls \cup {None} /\ fresh' \in Segments \cup {None}
         /\ StartInOrder' /\ QuietIsIdle'
<1>1. CASE Unlock
  BY <1>1 DEF Unlock, Holds, StartInOrder, QuietIsIdle, Starting
<1>2. ASSUME MayStart(c), NEW s \in Segments,
             seg[s] = "none" /\ file[s] = "none" /\ work[s] = "none",
             Holds("subscribe", c, s)
      PROVE  /\ job' \in {"free", "subscribe"}
             /\ target' \in RecCalls \cup {None} /\ fresh' \in Segments \cup {None}
             /\ StartInOrder' /\ QuietIsIdle'
  BY <1>2 DEF Holds, StartInOrder, QuietIsIdle, Starting, MayStart, RecAssumption
<1>3. QED
  BY <1>1, <1>2 DEF StartTarget

LEMMA SetEnabledKeeps ==
  ASSUME RecAssumption, RecInv, NEW c \in RecCalls, NEW on \in BOOLEAN,
         NEW asked \in BOOLEAN, SetEnabled(c, on, asked)
  PROVE  RecInv'
<1>1. /\ app \in {"up", "closing"} /\ job = "free" /\ known' = known \cup {c}
      /\ rec' = [rec EXCEPT ![c] = Switched(Ensured(c, asked), on)]
      /\ UNCHANGED <<app, phase, media, seg, of, file, worker, work, cancelled,
                     todo, refused>>
  BY DEF SetEnabled, workers
<1>2. rec \in [RecCalls -> RecRecord] /\ RecTypeOK
  BY DEF RecInv, RecTypeOK, RecRecord
<1> DEFINE first == Ensured(c, asked)
           new == Switched(first, on)
<1>3. first \in RecRecord /\ ShowsNoMore(rec[c], first)
  BY <1>2, EnsuredTyped
<1> HIDE DEF first
<1>4. new \in RecRecord /\ ShowsNoMore(first, new)
  BY <1>3, SwitchedTyped
<1>5. rec' = [rec EXCEPT ![c] = new]
  BY <1>1 DEF first
<1> HIDE DEF new
<1>6. /\ rec' \in [RecCalls -> RecRecord]
      /\ \A d \in RecCalls : ShowsNoMore(rec[d], rec'[d])
  BY <1>2, <1>3, <1>4, <1>5 DEF ShowsNoMore
<1>7. /\ job' \in {"free", "subscribe", "stop"}
      /\ target' \in RecCalls \cup {None} /\ fresh' \in Segments \cup {None}
      /\ StartInOrder' /\ QuietIsIdle' /\ (job' = "stop" => target' # None)
  <2>1. CASE Holds("stop", c, None)
    BY <1>1, <2>1 DEF Holds, StartInOrder, QuietIsIdle, Starting, RecAssumption
  <2>2. CASE StartTarget(c)
    BY <1>1, <2>2, TargetStarts
  <2>3. CASE Unlock
    BY <1>1, <2>3 DEF Unlock, Holds, StartInOrder, QuietIsIdle, Starting
  <2>4. QED
    BY <2>1, <2>2, <2>3 DEF SetEnabled
<1>8. RecTypeOK'
  BY <1>1, <1>2, <1>6, <1>7 DEF RecTypeOK, RecRecord
<1>9. RecWorld'
  BY <1>1, <1>6, <1>7, LockKeepsWorld
<1>10. QED
  BY <1>7, <1>8, <1>9 DEF RecInv, RecWorld

LEMMA ReconcileKeeps ==
  ASSUME RecAssumption, RecInv, NEW c \in RecCalls, NEW asked \in BOOLEAN,
         Reconcile(c, asked)
  PROVE  RecInv'
<1>1. /\ app \in {"up", "closing"} /\ job = "free"
      /\ known' \in {known, known \cup {c}} /\ todo' = todo \ {c}
      /\ UNCHANGED <<app, phase, media, seg, of, file, worker, work, cancelled,
                     refused>>
  BY DEF Reconcile, workers
<1>2. rec \in [RecCalls -> RecRecord] /\ RecTypeOK
  BY DEF RecInv, RecTypeOK, RecRecord
<1> DEFINE first == Ensured(c, asked)
<1>3. first \in RecRecord /\ ShowsNoMore(rec[c], first)
  BY <1>2, EnsuredTyped
<1>4. rec' = rec \/ rec' = [rec EXCEPT ![c] = first]
  BY DEF Reconcile
<1> HIDE DEF first
<1>5. /\ rec' \in [RecCalls -> RecRecord]
      /\ \A d \in RecCalls : ShowsNoMore(rec[d], rec'[d])
  BY <1>2, <1>3, <1>4 DEF ShowsNoMore
<1>6. /\ job' \in {"free", "subscribe", "stop"}
      /\ target' \in RecCalls \cup {None} /\ fresh' \in Segments \cup {None}
      /\ StartInOrder' /\ QuietIsIdle' /\ (job' = "stop" => target' # None)
  <2>1. CASE Holds("stop", c, None)
    BY <1>1, <2>1 DEF Holds, StartInOrder, QuietIsIdle, Starting, RecAssumption
  <2>2. CASE StartTarget(c)
    BY <1>1, <2>2, TargetStarts
  <2>3. CASE Unlock
    BY <1>1, <2>3 DEF Unlock, Holds, StartInOrder, QuietIsIdle, Starting
  <2>4. QED
    BY <2>1, <2>2, <2>3 DEF Reconcile
<1>7. RecTypeOK'
  BY <1>1, <1>2, <1>5, <1>6 DEF RecTypeOK, RecRecord
<1>8. RecWorld'
  BY <1>1, <1>5, <1>6, LockKeepsWorld
<1>9. QED
  BY <1>6, <1>7, <1>8 DEF RecInv, RecWorld

-----------------------------------------------------------------------------
(* Recording: steps that leave rows, files and workers alone               *)

Serving == app \in {"up", "closing"}

LEMMA AsideKeeps ==
  ASSUME RecInv, RecTypeOK', Serving' <=> Serving, refused' = refused,
         UNCHANGED <<rows, file, worker, work, locked>>
  PROVE  RecInv'
<1>1. /\ UNCHANGED <<rec, seg, of, file, worker, work, job, target, fresh, refused>>
      /\ app \in {"recovering", "down"} <=> app' \in {"recovering", "down"}
      /\ app \in {"up", "closing"} <=> app' \in {"up", "closing"}
  BY DEF rows, locked, Serving, RecInv, RecTypeOK
<1>2. QuietIsIdle' /\ StartInOrder'
  BY <1>1 DEF RecInv, QuietIsIdle, StartInOrder
<1>3. \A s \in Segments : SegmentAtWork(s)'
  BY <1>1 DEF RecInv, SegmentAtWork
<1>4. \A c \in RecCalls : EntryAtWork(c)' /\ ShownIsTended(c)'
  BY <1>1 DEF RecInv, EntryAtWork, ShownIsTended, Tended
<1>5. QED
  BY <1>1, <1>2, <1>3, <1>4 DEF RecInv

LEMMA SnapshotKeeps ==
  ASSUME RecInv, NEW c \in RecCalls, NEW p \in {"early", "active", "ended"},
         Snapshot(c, p)
  PROVE  RecInv'
<1>1. media' \subseteq RecCalls /\ todo' \subseteq RecCalls
  BY DEF Snapshot
<1>2. RecTypeOK'
  BY <1>1 DEF Snapshot, RecInv, RecTypeOK, rows, workers, locked
<1>3. QED
  BY <1>2, AsideKeeps DEF Snapshot, Serving, workers

LEMMA CancellationKeeps ==
  ASSUME RecInv, StopWorker \/ BeginClose
  PROVE  RecInv'
<1>1. cancelled' \subseteq Segments
  BY DEF StopWorker, BeginClose, RecInv, RecTypeOK
<1>2. RecTypeOK'
  BY <1>1 DEF StopWorker, BeginClose, RecInv, RecTypeOK, rows, locked
<1>3. Serving' <=> Serving
  BY DEF StopWorker, BeginClose, Serving
<1>4. QED
  BY <1>2, <1>3, AsideKeeps DEF StopWorker, BeginClose

LEMMA StartKeeps ==
  ASSUME RecInv, Start
  PROVE  RecInv'
<1>1. RecTypeOK' /\ (Serving' <=> Serving)
  BY DEF Start, RecInv, RecTypeOK, rows, workers, locked, Serving
<1>2. QED
  BY <1>1, AsideKeeps DEF Start, workers

LEMMA BeginDeleteKeeps ==
  ASSUME RecAssumption, RecInv, NEW c \in RecCalls, BeginDelete(c)
  PROVE  RecInv'
<1>1. /\ job' = "delete" /\ target' = c /\ fresh' = None /\ app = "up" /\ job = "free"
      /\ UNCHANGED <<app, phase, media, known, rec, seg, of, file, worker, work, todo,
                     refused>>
  BY DEF BeginDelete, Holds, rows
<1>2. cancelled' \subseteq Segments
  BY DEF BeginDelete, RecInv, RecTypeOK
<1>3. RecTypeOK'
  BY <1>1, <1>2 DEF RecInv, RecTypeOK
<1>4. RecWorld'
  BY <1>1, LockKeepsWorld DEF ShowsNoMore
<1>5. QED
  BY <1>1, <1>3, <1>4 DEF RecInv, RecWorld, QuietIsIdle, StartInOrder, Starting,
     RecAssumption

-----------------------------------------------------------------------------
(* Recording: a segment is started                                         *)

LEMMA CreateKeeps ==
  ASSUME RecAssumption, RecInv, Create
  PROVE  RecInv'
<1>1. /\ job = "subscribe" /\ seg[fresh] = "none" /\ target \in RecCalls
      /\ fresh \in Segments /\ worker[target] = None /\ work[fresh] = "none"
      /\ file[fresh] = "none" /\ Serving
  BY DEF Create, RecInv, RecTypeOK, StartInOrder, Starting, QuietIsIdle, Serving
<1>2. UNCHANGED <<app, phase, media, known, file, worker, work, cancelled, todo, refused>>
  BY DEF Create, workers
<1>3. CASE Unlock /\ UNCHANGED rows
  <2>1. RecTypeOK' /\ RecWorld'
    BY <1>1, <1>2, <1>3 DEF Unlock, Holds, rows, RecInv, RecTypeOK, RecWorld,
       SegmentAtWork, EntryAtWork, ShownIsTended, Tended
  <2>2. QED
    BY <1>2, <1>3, <2>1 DEF Unlock, Holds, RecInv, RecWorld, QuietIsIdle,
       StartInOrder, Starting
<1>4. CASE /\ seg' = [seg EXCEPT ![fresh] = "pending"]
           /\ of' = [of EXCEPT ![fresh] = target]
           /\ rec' = [rec EXCEPT ![target].status = "pending", ![target].active = fresh]
           /\ UNCHANGED locked
  <2> DEFINE new == [rec[target] EXCEPT !.status = "pending", !.active = fresh]
  <2>1. rec \in [RecCalls -> RecRecord]
    BY DEF RecInv, RecTypeOK, RecRecord
  <2>2. new \in RecRecord /\ new.status = "pending"
    BY <1>1, <2>1 DEF RecRecord, Statuses
  <2>3. rec' = [rec EXCEPT ![target] = new]
    BY <1>1, <1>4, <2>1
  <2> HIDE DEF new
  <2>4. RecTypeOK'
    <3>1. rec' \in [RecCalls -> RecRecord]
      BY <2>1, <2>2, <2>3
    <3>2. QED
      BY <1>1, <1>2, <1>4, <3>1 DEF RecInv, RecTypeOK, RecRecord, locked
  <2>5. \A s \in Segments : SegmentAtWork(s)'
    BY <1>1, <1>2, <1>4 DEF RecInv, RecTypeOK, SegmentAtWork, Writing, locked
  <2>6. \A c \in RecCalls : EntryAtWork(c)'
    BY <1>1, <1>2, <1>4 DEF RecInv, RecTypeOK, EntryAtWork
  <2>7. ASSUME NEW c \in RecCalls PROVE ShownIsTended(c)'
    <3>1. rec'[c].status = "recording" => c # target /\ rec'[c] = rec[c]
      BY <1>1, <2>1, <2>2, <2>3
    <3>2. QED
      BY <1>1, <1>2, <1>4, <3>1
      DEF RecInv, RecTypeOK, ShownIsTended, Tended, Writing, locked, Serving
  <2>8. QuietIsIdle' /\ StartInOrder'
    BY <1>1, <1>2, <1>4 DEF RecInv, RecTypeOK, QuietIsIdle, StartInOrder, Starting,
       locked
  <2>9. QED
    BY <1>1, <1>4, <2>4, <2>5, <2>6, <2>7, <2>8 DEF RecInv, locked
<1>5. QED
  BY <1>3, <1>4 DEF Create

LEMMA SubscribeKeeps ==
  ASSUME RecAssumption, RecInv, Subscribe
  PROVE  RecInv'
<1>1. /\ job = "subscribe" /\ seg[fresh] = "pending" /\ target \in RecCalls
      /\ fresh \in Segments /\ worker[target] = None /\ work[fresh] = "none"
      /\ file[fresh] = "none" /\ Serving /\ of[fresh] = target
  BY DEF Subscribe, RecInv, RecTypeOK, StartInOrder, Starting, QuietIsIdle, Serving
<1>2. /\ UNCHANGED <<app, phase, media, known, rec, seg, of, worker, work, cancelled,
                     todo, refused>>
      /\ target' = target /\ fresh' = fresh
      /\ \/ file' = [file EXCEPT ![fresh] = "part"] /\ job' = "mark"
         \/ file' = file /\ job' = "giveup"
  BY DEF Subscribe, rows, workers, JobOnly, Holds
<1>3. RecTypeOK'
  BY <1>1, <1>2 DEF RecInv, RecTypeOK
<1>4. \A s \in Segments : SegmentAtWork(s)'
  BY <1>1, <1>2 DEF RecInv, RecTypeOK, SegmentAtWork, Writing
<1>5. \A c \in RecCalls : EntryAtWork(c)' /\ ShownIsTended(c)'
  BY <1>1, <1>2 DEF RecInv, RecTypeOK, EntryAtWork, ShownIsTended, Tended
<1>6. QuietIsIdle' /\ StartInOrder'
  BY <1>1, <1>2 DEF RecInv, RecTypeOK, QuietIsIdle, StartInOrder, Starting, Serving
<1>7. QED
  BY <1>1, <1>2, <1>3, <1>4, <1>5, <1>6 DEF RecInv

LEMMA MarkKeeps ==
  ASSUME RecAssumption, RecInv, Mark
  PROVE  RecInv'
<1>1. /\ job = "mark" /\ seg[fresh] = "pending" /\ target \in RecCalls
      /\ fresh \in Segments /\ worker[target] = None /\ work[fresh] = "none"
      /\ Serving /\ of[fresh] = target
  BY DEF Mark, RecInv, RecTypeOK, StartInOrder, Starting, QuietIsIdle, Serving
<1>2. /\ UNCHANGED <<app, phase, media, known, of, worker, work, cancelled, todo, refused>>
      /\ target' = target /\ fresh' = fresh
  BY DEF Mark, rows, workers, JobOnly, Holds
<1>3. CASE UNCHANGED rows /\ file' = [file EXCEPT ![fresh] = "none"] /\ job' = "giveup"
  <2>1. RecTypeOK'
    BY <1>1, <1>2, <1>3 DEF RecInv, RecTypeOK, rows
  <2>2. \A s \in Segments : SegmentAtWork(s)'
    BY <1>1, <1>2, <1>3 DEF RecInv, RecTypeOK, SegmentAtWork, Writing, rows
  <2>3. \A c \in RecCalls : EntryAtWork(c)' /\ ShownIsTended(c)'
    BY <1>1, <1>2, <1>3 DEF RecInv, RecTypeOK, EntryAtWork, ShownIsTended, Tended, rows
  <2>4. QuietIsIdle' /\ StartInOrder'
    BY <1>1, <1>2, <1>3 DEF RecInv, RecTypeOK, QuietIsIdle, StartInOrder, Starting,
       Serving, rows
  <2>5. QED
    BY <1>1, <1>2, <1>3, <2>1, <2>2, <2>3, <2>4 DEF RecInv
<1>4. CASE /\ seg' = [seg EXCEPT ![fresh] = "recording"] /\ job' = "launch"
           /\ rec' = [rec EXCEPT ![target].status = "recording", ![target].active = fresh]
           /\ file' = file
  <2> DEFINE new == [rec[target] EXCEPT !.status = "recording", !.active = fresh]
  <2>1. rec \in [RecCalls -> RecRecord]
    BY DEF RecInv, RecTypeOK, RecRecord
  <2>2. new \in RecRecord /\ new.active = fresh
    <3>1. rec[target] \in RecRecord /\ fresh \in Segments \cup {None}
      BY <1>1, <2>1
    <3>2. QED
      BY <3>1 DEF RecRecord, Statuses
  <2>3. rec' = [rec EXCEPT ![target] = new]
    BY <1>1, <1>4, <2>1
  <2> HIDE DEF new
  <2>4. RecTypeOK'
    <3>1. rec' \in [RecCalls -> RecRecord]
      BY <2>1, <2>2, <2>3
    <3>2. QED
      BY <1>1, <1>2, <1>4, <3>1 DEF RecInv, RecTypeOK, RecRecord
  <2>5. \A s \in Segments : SegmentAtWork(s)'
    BY <1>1, <1>2, <1>4 DEF RecInv, RecTypeOK, SegmentAtWork, Writing
  <2>6. \A c \in RecCalls : EntryAtWork(c)'
    BY <1>1, <1>2, <1>4 DEF RecInv, RecTypeOK, EntryAtWork
  <2>7. ASSUME NEW c \in RecCalls PROVE ShownIsTended(c)'
    <3>1. CASE c = target
      BY <1>1, <1>2, <1>4, <2>1, <2>2, <2>3, <3>1 DEF ShownIsTended, Tended, RecAssumption
    <3>2. CASE c # target
      <4>1. rec'[c] = rec[c]
        BY <2>1, <2>3, <3>2
      <4>2. QED
        BY <1>1, <1>2, <4>1 DEF RecInv, ShownIsTended, Tended
    <3>3. QED
      BY <3>1, <3>2
  <2>8. QuietIsIdle' /\ StartInOrder'
    BY <1>1, <1>2, <1>4 DEF RecInv, RecTypeOK, QuietIsIdle, StartInOrder, Starting,
       Serving
  <2>9. QED
    BY <1>1, <1>2, <1>4, <2>4, <2>5, <2>6, <2>7, <2>8 DEF RecInv
<1>5. QED
  BY <1>3, <1>4 DEF Mark, Holds

LEMMA LaunchKeeps ==
  ASSUME RecAssumption, RecInv, Launch
  PROVE  RecInv'
<1>1. /\ job = "launch" /\ seg[fresh] = "recording" /\ target \in RecCalls
      /\ fresh \in Segments /\ worker[target] = None /\ work[fresh] = "none"
      /\ Serving /\ of[fresh] = target
  BY DEF Launch, RecInv, RecTypeOK, StartInOrder, Starting, QuietIsIdle, Serving
<1>2. UNCHANGED <<app, phase, media, known, rec, seg, of, cancelled, todo, refused>>
  BY DEF Launch, rows
<1>3. CASE /\ worker' = [worker EXCEPT ![target] = fresh]
           /\ work' = [work EXCEPT ![fresh] = "run"]
           /\ job' = "free" /\ target' = None /\ fresh' = None /\ file' = file
  <2>1. RecTypeOK'
    BY <1>1, <1>2, <1>3 DEF RecInv, RecTypeOK
  <2>2. \A s \in Segments : SegmentAtWork(s)'
    BY <1>1, <1>2, <1>3 DEF RecInv, RecTypeOK, SegmentAtWork, Writing, RecAssumption
  <2>3. \A c \in RecCalls : EntryAtWork(c)'
    BY <1>1, <1>2, <1>3 DEF RecInv, RecTypeOK, EntryAtWork
  <2>4. \A c \in RecCalls : ShownIsTended(c)'
    BY <1>1, <1>2, <1>3 DEF RecInv, RecTypeOK, ShownIsTended, Tended, Writing
  <2>5. QuietIsIdle' /\ StartInOrder'
    BY <1>1, <1>2, <1>3 DEF QuietIsIdle, StartInOrder, Starting, Serving
  <2>6. QED
    BY <1>3, <2>1, <2>2, <2>3, <2>4, <2>5 DEF RecInv
<1>4. CASE /\ file' = [file EXCEPT ![fresh] = "none"] /\ job' = "giveup"
           /\ UNCHANGED <<worker, work, target, fresh>>
  <2>1. RecTypeOK'
    BY <1>1, <1>2, <1>4 DEF RecInv, RecTypeOK
  <2>2. \A s \in Segments : SegmentAtWork(s)'
    BY <1>1, <1>2, <1>4 DEF RecInv, RecTypeOK, SegmentAtWork, Writing
  <2>3. \A c \in RecCalls : EntryAtWork(c)' /\ ShownIsTended(c)'
    BY <1>1, <1>2, <1>4 DEF RecInv, RecTypeOK, EntryAtWork, ShownIsTended, Tended
  <2>4. QuietIsIdle' /\ StartInOrder'
    BY <1>1, <1>2, <1>4 DEF QuietIsIdle, StartInOrder, Starting, Serving,
       RecAssumption
  <2>5. QED
    BY <1>1, <1>2, <1>4, <2>1, <2>2, <2>3, <2>4 DEF RecInv
<1>5. QED
  BY <1>3, <1>4 DEF Launch, Unlock, Holds

\* The lock is given back, or kept for what needs no segment, with fewer calls
\* shown as being recorded: nothing changes for segments and workers, when no
\* start was under way.
LEMMA JobKeepsWorld ==
  ASSUME RecInv, job \in {"free", "stop", "finalize", "delete"}, job' \notin Starting,
         UNCHANGED <<app, seg, of, file, worker, work>>, refused \subseteq refused',
         \A c \in RecCalls : ShowsNoMore(rec[c], rec'[c])
  PROVE  RecWorld' /\ StartInOrder'
<1>1. \A s \in Segments : SegmentAtWork(s)'
  BY DEF RecInv, SegmentAtWork
<1>2. \A c \in RecCalls : EntryAtWork(c)'
  BY DEF RecInv, EntryAtWork
<1>3. ASSUME NEW c \in RecCalls PROVE ShownIsTended(c)'
  BY DEF RecInv, ShownIsTended, Tended, ShowsNoMore
<1>4. StartInOrder'
  BY DEF StartInOrder
<1>5. QED
  BY <1>1, <1>2, <1>3, <1>4 DEF RecWorld

LEMMA StoppedKeeps ==
  ASSUME RecAssumption, RecInv, Stopped \/ RefuseDelete
  PROVE  RecInv'
<1>1. /\ job \in {"stop", "delete"} /\ target \in RecCalls
      /\ \/ job' = "free" /\ target' = None /\ fresh' = None
         \/ job' = "finalize" /\ target' = target /\ fresh' = None
      /\ UNCHANGED <<app, phase, media, known, rec, seg, of, file, worker, work,
                     cancelled, todo, refused>>
  BY DEF Stopped, RefuseDelete, Unlock, Holds, JobOnly, workers, rows, RecInv, RecTypeOK
<1>2. RecTypeOK'
  BY <1>1 DEF RecInv, RecTypeOK
<1>3. RecWorld' /\ StartInOrder'
  BY <1>1, JobKeepsWorld DEF ShowsNoMore, Starting
<1>4. QuietIsIdle'
  BY <1>1 DEF RecInv, QuietIsIdle
<1>5. QED
  BY <1>1, <1>2, <1>3, <1>4 DEF RecInv, RecWorld, RecAssumption

LEMMA FinalizeKeeps ==
  ASSUME RecAssumption, RecInv, Finalize
  PROVE  RecInv'
<1>1. /\ job = "finalize" /\ target \in RecCalls
      /\ job' = "free" /\ target' = None /\ fresh' = None
      /\ known' \subseteq known /\ refused' \in {refused, refused \cup {target}}
      /\ UNCHANGED <<app, phase, media, seg, of, file, worker, work, cancelled, todo>>
      /\ rec' = rec \/ rec' = [rec EXCEPT ![target] = Finalized(rec[target])]
  BY DEF Finalize, Unlock, Holds, workers, RecInv, RecTypeOK
<1>2. rec \in [RecCalls -> RecRecord]
  BY DEF RecInv, RecTypeOK, RecRecord
<1>3. /\ rec' \in [RecCalls -> RecRecord]
      /\ \A c \in RecCalls : ShowsNoMore(rec[c], rec'[c])
  BY <1>1, <1>2, FinalizedTyped DEF ShowsNoMore
<1>4. RecTypeOK'
  BY <1>1, <1>3 DEF RecInv, RecTypeOK, RecRecord
<1>5. RecWorld' /\ StartInOrder'
  BY <1>1, <1>3, JobKeepsWorld DEF Starting
<1>6. QuietIsIdle'
  BY <1>1 DEF RecInv, QuietIsIdle
<1>7. QED
  BY <1>1, <1>4, <1>5, <1>6 DEF RecInv, RecWorld

LEMMA GiveUpKeeps ==
  ASSUME RecAssumption, RecInv, GiveUp
  PROVE  RecInv'
<1>1. /\ job = "giveup" /\ seg[fresh] \in {"pending", "recording"} /\ target \in RecCalls
      /\ fresh \in Segments /\ worker[target] = None /\ work[fresh] = "none"
      /\ of[fresh] = target
  BY DEF GiveUp, RecInv, RecTypeOK, StartInOrder, Starting
<1>2. /\ UNCHANGED <<app, phase, media, known, file, worker, work, cancelled, todo>>
      /\ job' = "free" /\ target' = None /\ fresh' = None
  BY DEF GiveUp, workers, JobOnly, Unlock, Holds
<1>3. StartInOrder' /\ QuietIsIdle'
  BY <1>2 DEF StartInOrder, Starting, RecInv, QuietIsIdle
<1>4. CASE SettleSegment(fresh, "failed") /\ UNCHANGED refused
  <2>1. /\ rec' \in [RecCalls -> RecRecord]
        /\ \A d \in RecCalls :
             /\ ShowsNoMore(rec[d], rec'[d])
             /\ rec'[d].status = "recording" /\ d = target => rec[d].active # fresh
    BY <1>1, <1>4, SettledTyped DEF SettleSegment, RecInv
  <2>2. seg' = [seg EXCEPT ![fresh] = "failed"] /\ of' = of /\ refused' = refused
    BY <1>4 DEF SettleSegment
  <2>3. RecTypeOK'
    BY <1>2, <2>1, <2>2 DEF RecInv, RecTypeOK, RecRecord
  <2>4. \A s \in Segments : SegmentAtWork(s)'
    BY <1>1, <1>2, <2>2 DEF RecInv, RecTypeOK, SegmentAtWork, Writing
  <2>5. \A c \in RecCalls : EntryAtWork(c)'
    BY <1>1, <1>2, <2>2 DEF RecInv, EntryAtWork
  <2>6. ASSUME NEW c \in RecCalls PROVE ShownIsTended(c)'
    BY <1>1, <1>2, <2>1, <2>2, <2>6 DEF RecInv, ShownIsTended, Tended, ShowsNoMore
  <2>7. QED
    BY <1>2, <1>3, <2>3, <2>4, <2>5, <2>6 DEF RecInv
<1>5. CASE refused' = refused \cup {of[fresh]} /\ UNCHANGED rows
  <2>1. RecTypeOK'
    BY <1>1, <1>2, <1>5 DEF RecInv, RecTypeOK, rows
  <2>2. \A s \in Segments : SegmentAtWork(s)'
    BY <1>1, <1>2, <1>5 DEF RecInv, RecTypeOK, SegmentAtWork, rows
  <2>3. \A c \in RecCalls : EntryAtWork(c)' /\ ShownIsTended(c)'
    BY <1>1, <1>2, <1>5 DEF RecInv, EntryAtWork, ShownIsTended, Tended, rows
  <2>4. QED
    BY <1>2, <1>3, <2>1, <2>2, <2>3 DEF RecInv
<1>6. QED
  BY <1>4, <1>5 DEF GiveUp, TryFail

-----------------------------------------------------------------------------
(* Recording: a worker                                                     *)

\* A worker that has not settled its segment yet, in a process that serves calls.
LEMMA WorkerAtWork ==
  ASSUME RecAssumption, RecInv, NEW s \in Segments, work[s] \in Writing
  PROVE  /\ of[s] \in RecCalls /\ worker[of[s]] = s /\ seg[s] = "recording" /\ Serving
         /\ job \in Starting => fresh # s /\ target # of[s]
<1>1. of[s] \in RecCalls /\ worker[of[s]] = s /\ seg[s] = "recording"
  BY DEF RecInv, RecTypeOK, SegmentAtWork
<1>2. Serving
  BY DEF RecInv, RecTypeOK, QuietIsIdle, Serving, Writing
<1>3. job \in Starting => fresh # s /\ target # of[s]
  BY <1>1 DEF RecInv, StartInOrder, Writing, RecAssumption
<1>4. QED
  BY <1>1, <1>2, <1>3

LEMMA FileStepKeeps ==
  ASSUME RecAssumption, RecInv, NEW s \in Segments, work[s] \in Writing,
         NEW at \in Writing, NEW f \in {"none", "final"}, at = "complete" => f = "final",
         work' = [work EXCEPT ![s] = at], file' = [file EXCEPT ![s] = f],
         UNCHANGED <<app, phase, media, known, rec, seg, of, worker, cancelled, job,
                     target, fresh, todo, refused>>
  PROVE  RecInv'
<1>1. /\ of[s] \in RecCalls /\ worker[of[s]] = s /\ seg[s] = "recording" /\ Serving
      /\ job \in Starting => fresh # s /\ target # of[s]
  BY WorkerAtWork
<1>2. RecTypeOK'
  BY DEF RecInv, RecTypeOK, Writing
<1>3. StartInOrder'
  BY <1>1 DEF RecInv, RecTypeOK, StartInOrder
<1>4. QuietIsIdle'
  BY <1>1 DEF QuietIsIdle, Serving
<1>5. \A t \in Segments : SegmentAtWork(t)'
  BY <1>1 DEF RecInv, RecTypeOK, SegmentAtWork, Writing
<1>6. \A c \in RecCalls : EntryAtWork(c)' /\ ShownIsTended(c)'
  BY <1>1 DEF RecInv, RecTypeOK, EntryAtWork, ShownIsTended, Tended, Writing
<1>7. QED
  BY <1>2, <1>3, <1>4, <1>5, <1>6 DEF RecInv

LEMMA WriterKeeps ==
  ASSUME RecAssumption, RecInv, NEW s \in Segments,
         WorkerBreaks(s) \/ Publish(s) \/ Remove(s)
  PROVE  RecInv'
<1>1. UNCHANGED <<app, phase, media, known, rec, seg, of, worker, cancelled, job,
                  target, fresh, todo, refused>>
  BY DEF WorkerBreaks, Publish, Remove, WorkerOnly, locked
<1>2. CASE WorkerBreaks(s)
  BY <1>1, <1>2, FileStepKeeps DEF WorkerBreaks, WorkerAt, Writing
<1>3. CASE Publish(s)
  BY <1>1, <1>3, FileStepKeeps DEF Publish, WorkerAt, Writing
<1>4. CASE Remove(s)
  <2>1. work[s] = "remove" /\ file[s] # "part" /\ file \in [Segments -> {"none", "part", "final"}]
    <3>1. work[s] = "remove"
      BY <1>4 DEF Remove
    <3>2. Serving /\ (job \in Starting => fresh # s)
      BY <3>1, WorkerAtWork DEF Writing
    <3>3. QED
      BY <3>1, <3>2 DEF RecInv, RecTypeOK, SegmentAtWork, Serving, Starting
  <2>2. PICK f \in {"none", "final"} : file' = [file EXCEPT ![s] = f]
    BY <1>4, <2>1 DEF Remove
  <2>3. QED
    BY <1>1, <1>4, <2>1, <2>2, FileStepKeeps DEF Remove, WorkerAt, Writing
<1>5. QED
  BY <1>2, <1>3, <1>4

\* The worker settles its segment.
LEMMA SettlingKeeps ==
  ASSUME RecAssumption, RecInv, NEW s \in Segments, work[s] \in Writing,
         NEW how \in {"ready", "failed"}, how = "ready" => file[s] = "final",
         work[s] # "run",
         SettleSegment(s, how), work' = [work EXCEPT ![s] = "leave"],
         UNCHANGED <<app, phase, media, known, file, worker, cancelled, job,
                     target, fresh, todo, refused>>
  PROVE  RecInv'
<1>1. /\ of[s] \in RecCalls /\ worker[of[s]] = s /\ seg[s] = "recording" /\ Serving
      /\ job \in Starting => fresh # s /\ target # of[s]
  BY WorkerAtWork
<1>2. /\ rec' \in [RecCalls -> RecRecord]
      /\ \A d \in RecCalls :
           /\ ShowsNoMore(rec[d], rec'[d])
           /\ rec'[d].status = "recording" /\ d = of[s] => rec[d].active # s
  BY <1>1, SettledTyped DEF SettleSegment, RecInv
<1>3. seg' = [seg EXCEPT ![s] = how] /\ of' = of
  BY DEF SettleSegment
<1>4. RecTypeOK'
  BY <1>2, <1>3 DEF RecInv, RecTypeOK, RecRecord
<1>5. StartInOrder'
  BY <1>1, <1>3 DEF RecInv, RecTypeOK, StartInOrder
<1>6. QuietIsIdle'
  BY <1>1 DEF QuietIsIdle, Serving
<1>7. \A t \in Segments : SegmentAtWork(t)'
  BY <1>1, <1>3 DEF RecInv, RecTypeOK, SegmentAtWork, Writing
<1>8. \A c \in RecCalls : EntryAtWork(c)'
  BY <1>1, <1>3 DEF RecInv, RecTypeOK, EntryAtWork
<1>9. ASSUME NEW c \in RecCalls PROVE ShownIsTended(c)'
  BY <1>1, <1>2, <1>3, <1>9
  DEF RecInv, RecTypeOK, ShownIsTended, Tended, ShowsNoMore, Writing
<1>10. QED
  BY <1>4, <1>5, <1>6, <1>7, <1>8, <1>9 DEF RecInv

LEMMA CompleteKeeps ==
  ASSUME RecAssumption, RecInv, NEW s \in Segments, Complete(s)
  PROVE  RecInv'
<1>1. /\ UNCHANGED <<app, phase, media, known, file, worker, cancelled, job,
                     target, fresh, todo, refused>>
      /\ work[s] = "complete" /\ file[s] = "final"
  BY DEF Complete, WorkerOnly, locked, RecInv, SegmentAtWork
<1>2. CASE SettleSegment(s, "ready") /\ WorkerAt(s, "leave")
  BY <1>1, <1>2, SettlingKeeps DEF WorkerAt, Writing
<1>3. CASE UNCHANGED rows /\ WorkerAt(s, "remove")
  <2>1. file' = [file EXCEPT ![s] = "final"]
    BY <1>1 DEF RecInv, RecTypeOK
  <2>2. QED
    BY <1>1, <1>3, <2>1, FileStepKeeps DEF WorkerAt, Writing, rows
<1>4. QED
  BY <1>2, <1>3 DEF Complete

LEMMA WorkerFailKeeps ==
  ASSUME RecAssumption, RecInv, NEW s \in Segments, Fail(s)
  PROVE  RecInv'
<1>1. /\ UNCHANGED <<app, phase, media, known, file, worker, cancelled, job,
                     target, fresh, todo>>
      /\ work[s] = "fail" /\ work' = [work EXCEPT ![s] = "leave"]
  BY DEF Fail, WorkerOnly, locked, WorkerAt
<1>2. CASE SettleSegment(s, "failed") /\ UNCHANGED refused
  BY <1>1, <1>2, SettlingKeeps DEF Writing
<1>3. CASE refused' = refused \cup {of[s]} /\ UNCHANGED rows
  <2>1. /\ of[s] \in RecCalls /\ worker[of[s]] = s /\ seg[s] = "recording" /\ Serving
        /\ job \in Starting => fresh # s /\ target # of[s]
    BY <1>1, WorkerAtWork DEF Writing
  <2>2. RecTypeOK'
    BY <1>1, <1>3, <2>1 DEF RecInv, RecTypeOK, rows
  <2>3. StartInOrder' /\ QuietIsIdle'
    BY <1>1, <1>3, <2>1 DEF RecInv, RecTypeOK, StartInOrder, QuietIsIdle, Serving, rows
  <2>4. \A t \in Segments : SegmentAtWork(t)'
    BY <1>1, <1>3, <2>1 DEF RecInv, RecTypeOK, SegmentAtWork, Writing, rows
  <2>5. \A c \in RecCalls : EntryAtWork(c)'
    BY <1>1, <1>3, <2>1 DEF RecInv, RecTypeOK, EntryAtWork, rows
  <2>6. ASSUME NEW c \in RecCalls PROVE ShownIsTended(c)'
    BY <1>1, <1>3, <2>1, <2>6 DEF RecInv, RecTypeOK, ShownIsTended, Tended, Writing, rows
  <2>7. QED
    BY <1>1, <2>2, <2>3, <2>4, <2>5, <2>6 DEF RecInv
<1>4. QED
  BY <1>2, <1>3 DEF Fail, TryFail

LEMMA LeaveKeeps ==
  ASSUME RecAssumption, RecInv, NEW s \in Segments, Leave(s)
  PROVE  RecInv'
<1>1. /\ UNCHANGED <<app, phase, media, known, rec, seg, of, file, job,
                     target, fresh, todo, refused>>
      /\ work[s] = "leave" /\ work' = [work EXCEPT ![s] = "none"]
      /\ worker' = [c \in RecCalls |-> IF worker[c] = s THEN None ELSE worker[c]]
      /\ cancelled' \subseteq cancelled
  BY DEF Leave, locked, rows, WorkerAt, TableWithout
<1>2. Serving
  BY <1>1 DEF RecInv, RecTypeOK, QuietIsIdle, Serving
<1>3. RecTypeOK'
  BY <1>1 DEF RecInv, RecTypeOK
<1>4. StartInOrder' /\ QuietIsIdle'
  BY <1>1, <1>2 DEF RecInv, RecTypeOK, StartInOrder, QuietIsIdle, Serving
<1>5. \A t \in Segments : SegmentAtWork(t)'
  BY <1>1 DEF RecInv, RecTypeOK, SegmentAtWork, Writing
<1>6. \A c \in RecCalls : EntryAtWork(c)'
  BY <1>1 DEF RecInv, RecTypeOK, EntryAtWork
<1>7. ASSUME NEW c \in RecCalls PROVE ShownIsTended(c)'
  BY <1>1, <1>7 DEF RecInv, RecTypeOK, ShownIsTended, Tended, Writing
<1>8. QED
  BY <1>1, <1>3, <1>4, <1>5, <1>6, <1>7 DEF RecInv

-----------------------------------------------------------------------------
(* Recording: deletion, the end of the process and recovery                *)

LEMMA RemovalTyped ==
  ASSUME RecInv, NEW gone \in SUBSET Segments, RowsRemoved(gone), FilesRemoved(gone)
  PROVE  /\ seg' \in [Segments -> {"none", "pending", "recording", "ready", "failed"}]
         /\ of' \in [Segments -> RecCalls \cup {None}]
         /\ file' \in [Segments -> {"none", "part", "final"}]
         /\ \A s \in Segments : /\ s \in gone => seg'[s] = "none" /\ of'[s] = None
                                /\ s \notin gone => seg'[s] = seg[s] /\ of'[s] = of[s]
                                                    /\ file'[s] = file[s]
                                /\ file'[s] \in {file[s], "none"}
<1>1. PICK kept \in SUBSET gone :
        file' = [s \in Segments |-> IF s \in gone \ kept THEN "none" ELSE file[s]]
  BY DEF FilesRemoved
<1>2. QED
  BY <1>1 DEF RowsRemoved, RecInv, RecTypeOK

LEMMA DeleteRecordingKeeps ==
  ASSUME RecAssumption, RecInv, NEW s \in Segments, DeleteRecording(s)
  PROVE  RecInv'
<1>1. /\ UNCHANGED <<app, phase, media, known, rec, worker, work, cancelled, job,
                     target, fresh, todo, refused>>
      /\ job = "free" /\ seg[s] \in {"ready", "failed"} /\ app = "up"
  BY DEF DeleteRecording, locked, workers
<1>2. /\ seg' \in [Segments -> {"none", "pending", "recording", "ready", "failed"}]
      /\ of' \in [Segments -> RecCalls \cup {None}]
      /\ file' \in [Segments -> {"none", "part", "final"}]
      /\ seg'[s] = "none"
      /\ \A t \in Segments : /\ t # s => seg'[t] = seg[t] /\ of'[t] = of[t]
                                         /\ file'[t] = file[t]
                             /\ file'[t] \in {file[t], "none"}
  BY RemovalTyped DEF DeleteRecording
<1>3. work[s] \notin Writing /\ file[s] # "part"
  BY <1>1 DEF RecInv, SegmentAtWork, Writing
<1>4. RecTypeOK'
  BY <1>1, <1>2 DEF RecInv, RecTypeOK
<1>5. StartInOrder' /\ QuietIsIdle'
  BY <1>1 DEF StartInOrder, Starting, QuietIsIdle
<1>6. \A t \in Segments : SegmentAtWork(t)'
  BY <1>1, <1>2, <1>3 DEF RecInv, SegmentAtWork, Writing
<1>7. \A c \in RecCalls : EntryAtWork(c)'
  BY <1>1, <1>2, <1>3 DEF RecInv, RecTypeOK, EntryAtWork, Writing
<1>8. ASSUME NEW c \in RecCalls PROVE ShownIsTended(c)'
  BY <1>1, <1>2, <1>3, <1>8 DEF RecInv, RecTypeOK, ShownIsTended, Tended
<1>9. QED
  BY <1>1, <1>4, <1>5, <1>6, <1>7, <1>8 DEF RecInv

LEMMA DeleteCallKeeps ==
  ASSUME RecAssumption, RecInv, NEW c \in RecCalls, DeleteCall(c)
  PROVE  RecInv'
<1>1. /\ UNCHANGED <<app, media, worker, work, cancelled, todo>>
      /\ job = "delete" /\ job' = "free" /\ target' = None /\ fresh' = None
      /\ worker[c] = None /\ known' \subseteq known /\ refused' = refused \ {c}
      /\ phase' = [phase EXCEPT ![c] = "none"] /\ rec' = [rec EXCEPT ![c] = NoState]
      /\ \A s \in Segments : of[s] = c => seg[s] \notin {"pending", "recording"}
  BY DEF DeleteCall, Unlock, Holds, workers, WorkerGone, SegmentsOf, InProgress
<1>2. SegmentsOf(c) \in SUBSET Segments
  BY DEF SegmentsOf
<1>3. /\ seg' \in [Segments -> {"none", "pending", "recording", "ready", "failed"}]
      /\ of' \in [Segments -> RecCalls \cup {None}]
      /\ file' \in [Segments -> {"none", "part", "final"}]
      /\ \A s \in Segments :
           /\ of[s] = c => seg'[s] = "none" /\ of'[s] = None
           /\ of[s] # c => seg'[s] = seg[s] /\ of'[s] = of[s] /\ file'[s] = file[s]
           /\ file'[s] \in {file[s], "none"}
  BY <1>2, RemovalTyped DEF DeleteCall, SegmentsOf
<1>4. \A s \in Segments : of[s] = c => work[s] \notin Writing
  BY <1>1 DEF RecInv, SegmentAtWork
<1>5. RecTypeOK'
  <2>1. rec' \in [RecCalls -> RecRecord]
    BY <1>1, ConstantsTyped DEF RecInv, RecTypeOK, RecRecord
  <2>2. QED
    BY <1>1, <1>3, <2>1 DEF RecInv, RecTypeOK, RecRecord
<1>6. StartInOrder' /\ QuietIsIdle'
  BY <1>1 DEF StartInOrder, Starting, RecInv, QuietIsIdle
<1>7. \A s \in Segments : SegmentAtWork(s)'
  BY <1>1, <1>3, <1>4 DEF RecInv, SegmentAtWork, Writing
<1>8. \A d \in RecCalls : EntryAtWork(d)'
  <2>1. ASSUME NEW d \in RecCalls, worker[d] # None, work[worker[d]] # "leave"
        PROVE  of'[worker[d]] = d
    <3>1. worker[d] \in Segments /\ of[worker[d]] = d /\ d # c
      BY <1>1, <2>1 DEF RecInv, RecTypeOK, EntryAtWork
    <3>2. QED
      BY <1>3, <3>1
  <2>2. QED
    BY <1>1, <2>1 DEF RecInv, EntryAtWork
<1>9. ASSUME NEW d \in RecCalls PROVE ShownIsTended(d)'
  <2>1. CASE d = c
    <3>1. rec'[d].status = "none"
      BY <1>1, <2>1, ConstantsTyped DEF RecInv, RecTypeOK
    <3>2. QED
      BY <3>1 DEF ShownIsTended
  <2>2. CASE d # c
    <3>1. rec'[d] = rec[d] /\ (d \in refused' <=> d \in refused)
      BY <1>1, <2>2 DEF RecInv, RecTypeOK
    <3>2. rec[d].active # None => rec[d].active \in Segments
      BY DEF RecInv, RecTypeOK
    <3>3. QED
      BY <1>1, <1>3, <2>2, <3>1, <3>2 DEF RecInv, ShownIsTended, Tended
  <2>3. QED
    BY <2>1, <2>2
<1>10. QED
  BY <1>1, <1>5, <1>6, <1>7, <1>8, <1>9 DEF RecInv

LEMMA StopKeeps ==
  ASSUME RecAssumption, RecInv, Stop
  PROVE  RecInv'
<1>1. /\ UNCHANGED <<phase, media, rec, seg, of, file, refused>>
      /\ app' = "down" /\ worker' = [c \in RecCalls |-> None]
      /\ work' = [s \in Segments |-> "none"] /\ cancelled' = {} /\ known' = {}
      /\ todo' = {} /\ job' = "free" /\ target' = None /\ fresh' = None
  BY DEF Stop, rows, Unlock, Holds
<1>2. RecTypeOK' /\ QuietIsIdle' /\ StartInOrder'
  BY <1>1 DEF RecInv, RecTypeOK, QuietIsIdle, StartInOrder, Starting
<1>3. \A s \in Segments : SegmentAtWork(s)'
  BY <1>1 DEF RecInv, SegmentAtWork, Writing
<1>4. \A c \in RecCalls : EntryAtWork(c)' /\ ShownIsTended(c)'
  BY <1>1 DEF RecInv, EntryAtWork, ShownIsTended
<1>5. QED
  BY <1>1, <1>2, <1>3, <1>4 DEF RecInv

LEMMA SweepKeeps ==
  ASSUME RecAssumption, RecInv, NEW s \in Segments, Sweep(s)
  PROVE  RecInv'
<1>1. /\ UNCHANGED <<app, phase, media, known, rec, seg, of, worker, work, cancelled,
                     job, target, fresh, todo, refused>>
      /\ app = "recovering" /\ file' = [file EXCEPT ![s] = "none"]
      /\ file[s] = "part" \/ seg[s] # "ready"
  BY DEF Sweep, rows, workers, locked, Unready
<1>2. job = "free" /\ \A t \in Segments : work[t] = "none"
  BY <1>1 DEF RecInv, QuietIsIdle
<1>3. RecTypeOK' /\ QuietIsIdle' /\ StartInOrder'
  BY <1>1, <1>2 DEF RecInv, RecTypeOK, QuietIsIdle, StartInOrder, Starting
<1>4. \A t \in Segments : SegmentAtWork(t)'
  BY <1>1, <1>2 DEF RecInv, RecTypeOK, SegmentAtWork, Writing
<1>5. \A c \in RecCalls : EntryAtWork(c)' /\ ShownIsTended(c)'
  BY <1>1 DEF RecInv, EntryAtWork, ShownIsTended, Tended
<1>6. QED
  BY <1>1, <1>3, <1>4, <1>5 DEF RecInv

\* After the recovery no call is shown as being recorded, and every file left is
\* that of a segment that is ready.
LEMMA RecoverKeeps ==
  ASSUME RecAssumption, RecInv, Recover
  PROVE  RecInv'
<1>1. /\ UNCHANGED <<phase, media, known, of, file, worker, work, cancelled, job, target,
                     fresh, todo>>
      /\ app = "recovering" /\ app' = "up" /\ refused' = {}
      /\ \A s \in Segments : file[s] # "none" => file[s] # "part" /\ seg[s] = "ready"
      /\ seg' = [s \in Segments |-> IF InProgress(s) THEN "failed" ELSE seg[s]]
  BY DEF Recover, workers, locked, Unready
<1>2. job = "free" /\ \A s \in Segments : work[s] = "none"
  BY <1>1 DEF RecInv, QuietIsIdle
<1>3. rec \in [RecCalls -> RecRecord]
  BY DEF RecInv, RecTypeOK, RecRecord
<1>4. ASSUME NEW c \in RecCalls
      PROVE  rec'[c] \in RecRecord /\ rec'[c].status # "recording"
  <2>1. CASE rec[c].active # None
    <3>1. rec'[c] = [rec[c] EXCEPT !.status = "failed", !.active = None]
      BY <2>1 DEF Recover
    <3>2. QED
      BY <1>3, <3>1 DEF RecRecord, Statuses
  <2>2. CASE rec[c].active = None
    <3>1. rec[c].status # "recording"
      BY <2>2 DEF RecInv, ShownIsTended
    <3>2. rec'[c] \in {rec[c], Finalized(rec[c])}
      BY <2>2 DEF Recover
    <3>3. QED
      BY <1>3, <3>1, <3>2, FinalizedTyped DEF ShowsNoMore
  <2>3. QED
    BY <2>1, <2>2
<1>5. RecTypeOK'
  <2>1. rec' = [c \in RecCalls |-> rec'[c]]
    BY DEF Recover
  <2>2. rec' \in [RecCalls -> RecRecord]
    BY <1>4, <2>1
  <2>3. seg' \in [Segments -> {"none", "pending", "recording", "ready", "failed"}]
    BY <1>1 DEF RecInv, RecTypeOK
  <2>4. QED
    BY <1>1, <2>2, <2>3 DEF RecInv, RecTypeOK, RecRecord
<1>6. QuietIsIdle' /\ StartInOrder'
  BY <1>1, <1>2 DEF QuietIsIdle, StartInOrder, Starting
<1>7. \A s \in Segments : SegmentAtWork(s)'
  BY <1>1, <1>2 DEF RecInv, SegmentAtWork, Writing, InProgress
<1>8. \A c \in RecCalls : EntryAtWork(c)' /\ ShownIsTended(c)'
  BY <1>1, <1>4 DEF RecInv, EntryAtWork, ShownIsTended
<1>9. QED
  BY <1>1, <1>2, <1>5, <1>6, <1>7, <1>8 DEF RecInv

-----------------------------------------------------------------------------
(* Recording: every behaviour                                              *)

LEMMA RecInvInit ==
  ASSUME RecAssumption, RecInit
  PROVE  RecInv
<1>1. rec \in [RecCalls -> RecRecord] /\ \A c \in RecCalls : rec[c].status = "none"
  BY ConstantsTyped DEF RecInit
<1>2. RecTypeOK
  BY <1>1 DEF RecInit, RecTypeOK, RecRecord
<1>3. QED
  BY <1>1, <1>2 DEF RecInit, RecInv, QuietIsIdle, StartInOrder, Starting, SegmentAtWork,
     Writing, EntryAtWork, ShownIsTended

LEMMA RecInvNext ==
  ASSUME RecAssumption, RecInv, [RecNext]_recVars
  PROVE  RecInv'
<1>1. CASE UNCHANGED recVars
  <2>1. RecTypeOK' /\ (Serving' <=> Serving)
    BY <1>1 DEF recVars, rows, workers, locked, RecInv, RecTypeOK, Serving
  <2>2. QED
    BY <1>1, <2>1, AsideKeeps DEF recVars, workers
<1>2. CASE RecNext
  BY <1>2, SetEnabledKeeps, ReconcileKeeps, SnapshotKeeps, BeginDeleteKeeps,
     DeleteCallKeeps, WriterKeeps, CompleteKeeps, WorkerFailKeeps, LeaveKeeps,
     DeleteRecordingKeeps, SweepKeeps, CreateKeeps, SubscribeKeeps, MarkKeeps,
     LaunchKeeps, GiveUpKeeps, CancellationKeeps, StoppedKeeps, FinalizeKeeps,
     StopKeeps, StartKeeps, RecoverKeeps DEF RecNext, JobStep, WorkerStep
<1>3. QED
  BY <1>1, <1>2

\* What the tables say of a recording agrees with its files and its worker.
LEMMA RecInvImplies ==
  ASSUME RecAssumption, RecInv
  PROVE  RecordingIsTrue
<1>1. ReadyIsPlayable
  BY DEF RecInv, SegmentAtWork, ReadyIsPlayable
<1>2. ASSUME NEW s \in Segments, file[s] = "part", app = "up"
      PROVE  \/ work[s] = "run" /\ worker[of[s]] = s
             \/ job \in Starting /\ fresh = s /\ of[s] = target /\ worker[target] = None
  BY <1>2 DEF RecInv, SegmentAtWork, StartInOrder, Starting, Writing
<1>3. OneWriter
  BY <1>2 DEF OneWriter, RecAssumption
<1>4. ASSUME NEW c \in RecCalls, rec[c].status = "recording", app = "up", c \notin refused
      PROVE  /\ rec[c].active # None /\ of[rec[c].active] = c
             /\ \/ work[rec[c].active] # "none"
                \/ job \in {"launch", "giveup"} /\ fresh = rec[c].active
  BY <1>4 DEF RecInv, ShownIsTended, Tended, Writing
<1>5. ShownIsWritten
  BY <1>4 DEF ShownIsWritten
<1>6. QED
  BY <1>1, <1>3, <1>5 DEF RecordingIsTrue

\* However starts, stops, failures of the tables and of the files, deletions and
\* crashes overlap (recording/service.go, store/recordings.go), for any number of
\* calls and segments.
THEOREM RecordingSafety ==
  ASSUME RecAssumption
  PROVE  RecSpec => []RecordingIsTrue
<1>1. RecSpec => []RecInv
  BY RecInvInit, RecInvNext, PTL DEF RecSpec
<1>2. RecInv => RecordingIsTrue
  BY RecInvImplies
<1>3. QED
  BY <1>1, <1>2, PTL
=============================================================================
