--------------------------- MODULE RuntimeProofs ----------------------------
(***************************************************************************)
(* Theorems about the components the application runs around a call: the   *)
(* accounts and their sessions, the network runtime, the event streams, the *)
(* call media core, the Telegram bot and the notification outbox.  Each part *)
(* states what it needs of the constants, an inductive invariant, that the *)
(* initial states have it and that every action keeps it, and what follows *)
(* for every behaviour of the component.  The parts are independent.       *)
(***************************************************************************)
EXTENDS Accounts, NetworkRuntime, RuntimeEvents, CallMedia, TelegramBot,
        NotificationOutbox, FiniteSetTheorems, WellFoundedInduction, TLAPS

-----------------------------------------------------------------------------
(***************************************************************************)
(* A member's account, its sessions and its paired devices                 *)
(***************************************************************************)

\* What the proofs need of the constants: the tables are finite, and the
\* absence of a row is no version of a password and no state of a device.
AccountAssumption ==
  /\ IsFiniteSet(Tokens) /\ IsFiniteSet(Devices)
  /\ MaxSessions \in Nat /\ MaxDevices \in Nat /\ MaxRevision \in Nat
  /\ None \notin 0..MaxRevision /\ None \notin {"pending", "active"}

AccountInv == AccountTypeOK /\ AccountsAreCurrent

-----------------------------------------------------------------------------
(* The tables                                                              *)

\* A part of a set within a bound is within it.
LEMMA PartWithin ==
  ASSUME NEW T, IsFiniteSet(T), NEW S \in SUBSET T, NEW n \in Nat,
         Cardinality(T) <= n
  PROVE  Cardinality(S) <= n
BY FS_Subset, FS_CardinalityType

LEMMA RowsAreFinite ==
  ASSUME AccountAssumption
  PROVE  IsFiniteSet(Live) /\ \A state : IsFiniteSet(Paired(state))
<1>1. Live \in SUBSET Tokens /\ \A state : Paired(state) \in SUBSET Devices
  BY DEF Live, Paired
<1>2. QED
  BY <1>1, FS_Subset DEF AccountAssumption

\* Sessions that are removed leave the others as they should be.
LEMMA FewerSessions ==
  ASSUME AccountAssumption, AccountInv,
         \A t \in Tokens : webSession'[t] \in {webSession[t], None},
         \/ webSession' = NoSession
         \/ account'.on = account.on /\ account'.password = account.password
  PROVE  SessionsAreCurrent'
<1>1. Live' \in SUBSET Live /\ \A t \in Live' : webSession'[t] = webSession[t]
  BY DEF Live
<1>2. Cardinality(Live') <= MaxSessions
  BY <1>1, RowsAreFinite, PartWithin
  DEF AccountInv, AccountsAreCurrent, SessionsAreCurrent, AccountAssumption
<1>3. \A t \in Live' : account'.on /\ webSession'[t] = account'.password
  BY <1>1 DEF AccountInv, AccountsAreCurrent, SessionsAreCurrent, NoSession, Live
<1>4. QED
  BY <1>2, <1>3 DEF SessionsAreCurrent

\* Devices that are removed leave the others as they should be.
LEMMA FewerDevices ==
  ASSUME AccountAssumption, AccountInv,
         \A d \in Devices : iosDevice'[d] \in {iosDevice[d], None},
         \/ iosDevice' = NoDevice
         \/ account'.on = account.on /\ account'.pairing = account.pairing
  PROVE  DevicesAreAllowed'
<1>1. /\ Paired("pending")' \in SUBSET Paired("pending")
      /\ Paired("active")' \in SUBSET Paired("active")
  BY DEF Paired, AccountAssumption
<1>2. /\ IsFiniteSet(Paired("pending")) /\ IsFiniteSet(Paired("active"))
      /\ IsFiniteSet(Paired("active") \cup Paired("pending"))
  BY RowsAreFinite, FS_Union
<1>3. Cardinality(Paired("pending")') <= 1
  BY <1>1, <1>2, PartWithin DEF AccountInv, AccountsAreCurrent, DevicesAreAllowed
<1>4. (Paired("active") \cup Paired("pending"))'
        \in SUBSET (Paired("active") \cup Paired("pending"))
  BY <1>1
<1>5. Cardinality((Paired("active") \cup Paired("pending"))') <= MaxDevices
  BY <1>2, <1>4, PartWithin
  DEF AccountInv, AccountsAreCurrent, DevicesAreAllowed, AccountAssumption
<1>6. \A d \in Devices : iosDevice'[d] # None => account'.on /\ account'.pairing
  BY DEF AccountInv, AccountsAreCurrent, DevicesAreAllowed, NoDevice
<1>7. QED
  BY <1>3, <1>5, <1>6 DEF DevicesAreAllowed

\* A new password leaves neither a session nor a device behind.
LEMMA NewPasswordKeeps ==
  ASSUME AccountAssumption, AccountInv, NEW fields,
         fields \in [password : 0..MaxRevision, on : BOOLEAN, pairing : BOOLEAN,
                     revision : 0..MaxRevision],
         NewPassword(fields)
  PROVE  /\ SessionsAreCurrent' /\ DevicesAreAllowed'
         /\ account' \in [password : 0..MaxRevision, on : BOOLEAN,
                          pairing : BOOLEAN, revision : 0..MaxRevision]
         /\ webSession' \in [Tokens -> 0..MaxRevision \cup {None}]
         /\ iosDevice' \in [Devices -> {"pending", "active", None}]
<1>1. account.revision + 1 \in 0..MaxRevision
  BY DEF AccountAssumption, AccountInv, AccountTypeOK, NewPassword
<1>2. account' \in [password : 0..MaxRevision, on : BOOLEAN,
                    pairing : BOOLEAN, revision : 0..MaxRevision]
  BY <1>1 DEF NewPassword
<1>3. /\ webSession' = NoSession /\ iosDevice' = NoDevice
  BY DEF NewPassword
<1>4. SessionsAreCurrent'
  BY <1>3, FewerSessions DEF NoSession
<1>5. DevicesAreAllowed'
  BY <1>3, FewerDevices DEF NoDevice
<1>6. QED
  BY <1>2, <1>3, <1>4, <1>5 DEF NoSession, NoDevice

-----------------------------------------------------------------------------
(* Password operations                                                     *)

LEMMA BeginKeeps ==
  ASSUME AccountAssumption, AccountInv, NEW p \in Slots,
         BeginLogin(p) \/ BeginChange(p)
  PROVE  AccountInv'
<1>1. op' \in [Slots -> [kind : {"login", "change"}, hash : 0..MaxRevision]
                          \cup {None}]
  BY DEF AccountInv, AccountTypeOK, BeginLogin, BeginChange
<1>2. UNCHANGED <<account, webSession, form, acting, iosDevice>>
  BY DEF BeginLogin, BeginChange
<1>3. SessionsAreCurrent' /\ DevicesAreAllowed'
  BY <1>2, FewerSessions, FewerDevices
<1>4. QED
  BY <1>1, <1>2, <1>3 DEF AccountInv, AccountTypeOK, AccountsAreCurrent

\* The row of a login is written only under the password it was checked against,
\* which is the one the others were made under, and the oldest make room.
LEMMA FinishLoginKeeps ==
  ASSUME AccountAssumption, AccountInv, NEW p \in Slots, FinishLogin(p)
  PROVE  AccountInv'
<1>1. /\ op' \in [Slots -> [kind : {"login", "change"}, hash : 0..MaxRevision]
                             \cup {None}]
      /\ op[p].hash \in 0..MaxRevision
      /\ UNCHANGED <<account, form, acting, iosDevice>>
  BY DEF AccountInv, AccountTypeOK, FinishLogin
<1>2. DevicesAreAllowed'
  BY <1>1, FewerDevices
<1>3. CASE UNCHANGED webSession
  <2>1. SessionsAreCurrent'
    BY <1>1, <1>3, FewerSessions
  <2>2. QED
    BY <1>1, <1>2, <1>3, <2>1 DEF AccountInv, AccountTypeOK, AccountsAreCurrent
<1>4. ASSUME StillHas(op[p].hash), NEW t \in Tokens \ Live,
             NEW kept \in SUBSET Tokens, kept \subseteq Live \cup {t},
             \/ kept = Live \cup {t} /\ Cardinality(kept) <= MaxSessions
             \/ Cardinality(Live) >= MaxSessions /\ Cardinality(kept) = MaxSessions,
             webSession' = [x \in Tokens |-> CASE x \notin kept       -> None
                                               [] x \in kept \cap {t} -> op[p].hash
                                               [] OTHER              -> webSession[x]]
      PROVE  AccountInv'
  <2>1. webSession' \in [Tokens -> 0..MaxRevision \cup {None}]
    BY <1>1, <1>4 DEF AccountInv, AccountTypeOK
  <2>2. \A x \in Tokens : x \notin kept => webSession'[x] = None
    BY <1>4
  <2>8. Live' \in SUBSET kept
    BY <2>2 DEF Live
  <2>3. Cardinality(kept) <= MaxSessions
    BY <1>4 DEF AccountAssumption
  <2>4. IsFiniteSet(kept)
    BY FS_Subset DEF AccountAssumption
  <2>5. Cardinality(Live') <= MaxSessions
    BY <2>8, <2>3, <2>4, PartWithin DEF AccountAssumption
  <2>6. \A x \in Live' : account'.on /\ webSession'[x] = account'.password
    <3>1. account.on /\ account.password = op[p].hash
      BY <1>4 DEF StillHas
    <3>2. \A x \in Live : webSession[x] = account.password
      BY DEF AccountInv, AccountsAreCurrent, SessionsAreCurrent
    <3>3. \A x \in Live' : x \in kept /\ (x = t \/ x \in Live)
      BY <1>4, <2>8
    <3>4. QED
      BY <1>1, <1>4, <3>1, <3>2, <3>3 DEF Live
  <2>9. QED
    BY <1>1, <1>2, <2>1, <2>5, <2>6
    DEF AccountInv, AccountTypeOK, AccountsAreCurrent, SessionsAreCurrent
<1>5. QED
  BY <1>3, <1>4 DEF FinishLogin

LEMMA FinishChangeKeeps ==
  ASSUME AccountAssumption, AccountInv, NEW p \in Slots, FinishChange(p)
  PROVE  AccountInv'
<1>1. /\ op' \in [Slots -> [kind : {"login", "change"}, hash : 0..MaxRevision]
                             \cup {None}]
      /\ UNCHANGED <<form, acting>>
  BY DEF AccountInv, AccountTypeOK, FinishChange
<1>2. CASE NewPassword(account)
  BY <1>1, <1>2, NewPasswordKeeps DEF AccountInv, AccountTypeOK,
     AccountsAreCurrent
<1>3. CASE UNCHANGED <<account, webSession, iosDevice>>
  <2>1. SessionsAreCurrent' /\ DevicesAreAllowed'
    BY <1>3, FewerSessions, FewerDevices
  <2>2. QED
    BY <1>1, <1>3, <2>1 DEF AccountInv, AccountTypeOK, AccountsAreCurrent
<1>4. QED
  BY <1>2, <1>3 DEF FinishChange

-----------------------------------------------------------------------------
(* The administrator                                                       *)

LEMMA SaveFormKeeps ==
  ASSUME AccountAssumption, AccountInv, NEW on \in BOOLEAN,
         NEW pairing \in BOOLEAN, SaveForm(on, pairing)
  PROVE  AccountInv'
<1> DEFINE fields == [account EXCEPT !.on = on, !.pairing = pairing]
           Account == [password : 0..MaxRevision, on : BOOLEAN,
                       pairing : BOOLEAN, revision : 0..MaxRevision]
<1>1. fields \in Account /\ form' = None /\ UNCHANGED <<op, acting>>
  BY DEF AccountInv, AccountTypeOK, SaveForm
<1>2. CASE NewPassword(fields)
  BY <1>1, <1>2, NewPasswordKeeps DEF AccountInv, AccountTypeOK,
     AccountsAreCurrent
<1>3. CASE UNCHANGED <<account, webSession, iosDevice>>
  <2>1. SessionsAreCurrent' /\ DevicesAreAllowed'
    BY <1>3, FewerSessions, FewerDevices
  <2>2. QED
    BY <1>1, <1>3, <2>1 DEF AccountInv, AccountTypeOK, AccountsAreCurrent
<1>4. CASE /\ account.revision < MaxRevision
           /\ account' = [account EXCEPT !.on = on, !.pairing = pairing,
                                         !.revision = @ + 1]
           /\ webSession' = IF on THEN webSession ELSE NoSession
           /\ iosDevice' = IF on /\ pairing THEN iosDevice ELSE NoDevice
  <2>1. account' \in Account
    <3>1. account \in Account
      BY DEF AccountInv, AccountTypeOK
    <3>2. account.revision + 1 \in 0..MaxRevision
      BY <1>4, <3>1 DEF AccountAssumption
    <3>3. account' = [password |-> account.password, on |-> on,
                      pairing |-> pairing, revision |-> account.revision + 1]
      BY <1>4, <3>1
    <3>4. QED
      BY <3>1, <3>2, <3>3
  <2>2. /\ webSession' \in [Tokens -> 0..MaxRevision \cup {None}]
        /\ iosDevice' \in [Devices -> {"pending", "active", None}]
    BY <1>4 DEF AccountInv, AccountTypeOK, NoSession, NoDevice
  <2>3. /\ account'.on = on /\ account'.pairing = pairing
        /\ account'.password = account.password
    BY <1>4 DEF AccountInv, AccountTypeOK
  <2>4. \A t \in Live : account.on
    BY DEF AccountInv, AccountsAreCurrent, SessionsAreCurrent
  <2>5. SessionsAreCurrent'
    <3>1. CASE ~on \/ Live = {}
      <4>1. webSession' = NoSession
        BY <1>4, <3>1 DEF Live, NoSession, AccountInv, AccountTypeOK
      <4>2. QED
        BY <4>1, FewerSessions DEF NoSession
    <3>2. CASE on /\ Live # {}
      BY <1>4, <2>3, <2>4, <3>2, FewerSessions DEF AccountInv, AccountTypeOK
    <3>3. QED
      BY <3>1, <3>2
  <2>6. \A d \in Devices : iosDevice[d] # None => account.on /\ account.pairing
    BY DEF AccountInv, AccountsAreCurrent, DevicesAreAllowed
  <2>7. DevicesAreAllowed'
    <3>1. CASE ~(on /\ pairing) \/ \A d \in Devices : iosDevice[d] = None
      <4>1. iosDevice' = NoDevice
        BY <1>4, <3>1 DEF NoDevice, AccountInv, AccountTypeOK
      <4>2. QED
        BY <4>1, FewerDevices DEF NoDevice
    <3>2. CASE on /\ pairing /\ \E d \in Devices : iosDevice[d] # None
      BY <1>4, <2>3, <2>6, <3>2, FewerDevices DEF AccountInv, AccountTypeOK
    <3>3. QED
      BY <3>1, <3>2
  <2>8. QED
    BY <1>1, <2>1, <2>2, <2>5, <2>7 DEF AccountInv, AccountTypeOK,
       AccountsAreCurrent
<1>5. QED
  BY <1>2, <1>3, <1>4 DEF SaveForm

LEMMA AdministratorKeeps ==
  ASSUME AccountAssumption, AccountInv, OpenForm \/ SetMemberPassword
  PROVE  AccountInv'
<1>1. CASE OpenForm
  <2>1. SessionsAreCurrent' /\ DevicesAreAllowed'
    BY <1>1, FewerSessions, FewerDevices DEF OpenForm
  <2>2. QED
    BY <1>1, <2>1 DEF OpenForm, AccountInv, AccountTypeOK, AccountsAreCurrent
<1>2. CASE SetMemberPassword
  BY <1>2, NewPasswordKeeps DEF SetMemberPassword, AccountInv, AccountTypeOK,
     AccountsAreCurrent
<1>3. QED
  BY <1>1, <1>2

-----------------------------------------------------------------------------
(* Sessions and devices                                                    *)

LEMMA LogoutKeeps ==
  ASSUME AccountAssumption, AccountInv, NEW t \in Tokens,
         Logout(t) \/ BeginRevokeOthers(t)
  PROVE  AccountInv'
<1>1. AccountTypeOK'
  BY DEF AccountInv, AccountTypeOK, Logout, BeginRevokeOthers
<1>2. SessionsAreCurrent'
  BY FewerSessions DEF AccountInv, AccountTypeOK, Logout, BeginRevokeOthers
<1>3. DevicesAreAllowed'
  BY FewerDevices DEF Logout, BeginRevokeOthers
<1>4. QED
  BY <1>1, <1>2, <1>3 DEF AccountInv, AccountsAreCurrent

LEMMA RevokeOthersKeeps ==
  ASSUME AccountAssumption, AccountInv, RevokeOthers
  PROVE  AccountInv'
<1>1. AccountTypeOK'
  BY DEF AccountInv, AccountTypeOK, RevokeOthers, Resting, NoDevice
<1>2. SessionsAreCurrent'
  BY FewerSessions DEF AccountInv, AccountTypeOK, RevokeOthers
<1>3. DevicesAreAllowed'
  BY FewerDevices DEF RevokeOthers, NoDevice
<1>4. QED
  BY <1>1, <1>2, <1>3 DEF AccountInv, AccountsAreCurrent

\* A pairing replaces the pending credential, within the cap.
LEMMA PairKeeps ==
  ASSUME AccountAssumption, AccountInv, NEW d \in Devices, Pair(d)
  PROVE  AccountInv'
<1>1. AccountTypeOK'
  BY DEF AccountInv, AccountTypeOK, Pair
<1>2. UNCHANGED <<account, webSession>>
  BY DEF Pair
<1>3. SessionsAreCurrent'
  BY <1>2, FewerSessions
<1>4. Paired("pending")' = {d} /\ Paired("active")' = Paired("active")
  BY DEF Paired, Pair, AccountAssumption
<1>5. d \notin Paired("active") /\ IsFiniteSet(Paired("active"))
  BY RowsAreFinite DEF Paired, Pair, AccountAssumption
<1>6. Cardinality(Paired("pending")') <= 1
  BY <1>4, FS_Singleton
<1>7. Cardinality(Paired("active")' \cup Paired("pending")') <= MaxDevices
  <2>1. Cardinality(Paired("active") \cup {d}) = Cardinality(Paired("active")) + 1
    BY <1>5, FS_AddElement
  <2>2. Cardinality(Paired("active")) \in Nat /\ MaxDevices \in Nat
    BY <1>5, FS_CardinalityType DEF AccountAssumption
  <2>3. Cardinality(Paired("active")) < MaxDevices
    BY DEF Pair
  <2>4. QED
    BY <1>4, <2>1, <2>2, <2>3
<1>8. \A x \in Devices : iosDevice'[x] # None => account'.on /\ account'.pairing
  BY <1>2 DEF Pair
<1>9. QED
  BY <1>1, <1>3, <1>6, <1>7, <1>8
  DEF AccountInv, AccountsAreCurrent, DevicesAreAllowed

LEMMA ConfirmDeviceKeeps ==
  ASSUME AccountAssumption, AccountInv, NEW d \in Devices, ConfirmDevice(d)
  PROVE  AccountInv'
<1>1. AccountTypeOK'
  BY DEF AccountInv, AccountTypeOK, ConfirmDevice
<1>2. UNCHANGED <<account, webSession>>
  BY DEF ConfirmDevice
<1>3. SessionsAreCurrent'
  BY <1>2, FewerSessions
<1>4. /\ Paired("pending")' \in SUBSET Paired("pending")
      /\ Paired("active")' \cup Paired("pending")'
           = Paired("active") \cup Paired("pending")
  BY DEF Paired, ConfirmDevice, AccountAssumption, AccountInv, AccountTypeOK
<1>5. Cardinality(Paired("pending")') <= 1
  BY <1>4, RowsAreFinite, PartWithin
  DEF AccountInv, AccountsAreCurrent, DevicesAreAllowed
<1>6. \A x \in Devices : iosDevice'[x] # None => account'.on /\ account'.pairing
  BY <1>2 DEF ConfirmDevice
<1>7. QED
  BY <1>1, <1>3, <1>4, <1>5, <1>6
  DEF AccountInv, AccountsAreCurrent, DevicesAreAllowed

LEMMA RevokeDeviceKeeps ==
  ASSUME AccountAssumption, AccountInv,
         RevokeDevices \/ \E d \in Devices : RevokeDevice(d)
  PROVE  AccountInv'
<1>1. AccountTypeOK'
  BY DEF AccountInv, AccountTypeOK, RevokeDevice, RevokeDevices, NoDevice
<1>2. SessionsAreCurrent'
  BY FewerSessions DEF RevokeDevice, RevokeDevices
<1>3. DevicesAreAllowed'
  BY FewerDevices DEF RevokeDevice, RevokeDevices, NoDevice, AccountInv,
     AccountTypeOK
<1>4. QED
  BY <1>1, <1>2, <1>3 DEF AccountInv, AccountsAreCurrent

LEMMA RestartAccountsKeeps ==
  ASSUME AccountAssumption, AccountInv, RestartAccounts
  PROVE  AccountInv'
<1>1. AccountTypeOK'
  BY DEF AccountInv, AccountTypeOK, RestartAccounts, Resting
<1>2. SessionsAreCurrent' /\ DevicesAreAllowed'
  BY FewerSessions, FewerDevices DEF RestartAccounts
<1>3. QED
  BY <1>1, <1>2 DEF AccountInv, AccountsAreCurrent

-----------------------------------------------------------------------------
(* The theorem                                                             *)

LEMMA AccountInvInit ==
  ASSUME AccountAssumption, AccountInit
  PROVE  AccountInv
<1>1. AccountTypeOK
  <2>1. 0 \in 0..MaxRevision
    BY DEF AccountAssumption
  <2>2. account \in [password : 0..MaxRevision, on : BOOLEAN, pairing : BOOLEAN,
                     revision : 0..MaxRevision]
    BY <2>1 DEF AccountInit
  <2>3. acting \in [session : Tokens \cup {None},
                    step : {"idle", "sessions", "devices"}]
    BY DEF AccountInit, Resting
  <2>4. QED
    BY <2>1, <2>2, <2>3 DEF AccountInit, AccountTypeOK
<1>2. Live = {} /\ Paired("pending") = {} /\ Paired("active") = {}
  BY DEF AccountInit, Live, Paired, AccountAssumption
<1>3. SessionsAreCurrent
  BY <1>2, FS_EmptySet DEF SessionsAreCurrent, AccountAssumption
<1>4. DevicesAreAllowed
  <2>1. Paired("active") \cup Paired("pending") = {}
    BY <1>2
  <2>2. QED
    BY <1>2, <2>1, FS_EmptySet DEF DevicesAreAllowed, AccountAssumption,
       AccountInit
<1>5. QED
  BY <1>1, <1>3, <1>4 DEF AccountInv, AccountsAreCurrent

LEMMA AccountInvNext ==
  ASSUME AccountAssumption, AccountInv, [AccountNext]_accountVars
  PROVE  AccountInv'
<1>1. CASE UNCHANGED accountVars
  <2>1. SessionsAreCurrent' /\ DevicesAreAllowed'
    BY <1>1, FewerSessions, FewerDevices DEF accountVars
  <2>2. QED
    BY <1>1, <2>1 DEF accountVars, AccountInv, AccountTypeOK, AccountsAreCurrent
<1>2. ASSUME NEW p \in Slots, \/ BeginLogin(p) \/ FinishLogin(p)
                              \/ BeginChange(p) \/ FinishChange(p)
      PROVE  AccountInv'
  BY <1>2, BeginKeeps, FinishLoginKeeps, FinishChangeKeeps
<1>3. ASSUME NEW on \in BOOLEAN, NEW pairing \in BOOLEAN, SaveForm(on, pairing)
      PROVE  AccountInv'
  BY <1>3, SaveFormKeeps
<1>4. CASE OpenForm \/ SetMemberPassword
  BY <1>4, AdministratorKeeps
<1>5. ASSUME NEW t \in Tokens, Logout(t) \/ BeginRevokeOthers(t)
      PROVE  AccountInv'
  BY <1>5, LogoutKeeps
<1>6. CASE RevokeOthers
  BY <1>6, RevokeOthersKeeps
<1>7. ASSUME NEW d \in Devices, Pair(d) \/ ConfirmDevice(d) \/ RevokeDevice(d)
      PROVE  AccountInv'
  BY <1>7, PairKeeps, ConfirmDeviceKeeps, RevokeDeviceKeeps
<1>8. CASE RevokeDevices \/ RestartAccounts
  BY <1>8, RevokeDeviceKeeps, RestartAccountsKeeps
<1>9. QED
  BY <1>1, <1>2, <1>3, <1>4, <1>5, <1>6, <1>7, <1>8 DEF AccountNext

\* Whatever logins, password changes, an administrator's form and pairings
\* overlap: every session was made under the account's password, a disabled
\* account has none, devices are paired only while the account may pair, and
\* neither exceeds its cap (store/users.go CreateUserSessionIfPasswordHash,
\* ReplaceUserPasswordHashIfCurrentAndRevokeSessions, UpdateMember).
THEOREM AccountSafety ==
  ASSUME AccountAssumption
  PROVE  AccountSpec => [](AccountTypeOK /\ AccountsAreCurrent)
<1>1. AccountInit => AccountInv
  BY AccountInvInit
<1>2. AccountInv /\ [AccountNext]_accountVars => AccountInv'
  BY AccountInvNext
<1>3. AccountInv => AccountTypeOK /\ AccountsAreCurrent
  BY DEF AccountInv
<1>4. QED
  BY <1>1, <1>2, <1>3, PTL DEF AccountSpec

-----------------------------------------------------------------------------
(***************************************************************************)
(* What the agent runs of a line's network and what the tables say         *)
(***************************************************************************)

\* What the proofs need of the constants.
NetAssumption ==
  /\ MaxRev \in Nat \ {0} /\ MaxEpoch \in Nat \ {0} /\ MaxAttempts \in Nat
  /\ None \notin Row

-----------------------------------------------------------------------------
(* Network: the inductive invariant                                        *)

\* What Reconcile has read of the rows: a row that is there now at the same
\* revision has not changed, and only Reconcile itself removes one.
TokensAreOld ==
  apply \in {"put", "finalize"} =>
    \A p \in Proxies : tokens[p] # None =>
      /\ row[p] # None /\ tokens[p].rev <= row[p].rev
      /\ tokens[p].rev = row[p].rev => tokens[p].deleted = row[p].deleted

\* Once the rows were put an agent has accepted what is wanted of them, and this
\* one runs none that is not wanted, also if it has started anew.
PutWasTaken ==
  apply = "finalize" =>
    \A p \in Proxies :
      /\ Desired(p) > 0 => <<p, Desired(p)>> \in accepted
      /\ Desired(p) = 0 => running[p] = 0

\* The selection being told is the current one: it changes under reconcileMu.
ChosenIsCurrent ==
  apply \in {"select", "mark", "tell", "told"} => chosen = policy.rev

\* The agent that was told it is the one of the epoch the service goes by, or
\* that epoch is over.
ToldBySeen ==
  apply \in {"mark", "told"} /\ seen = epoch => selected = chosen

\* No epoch is known before the agent has it, and no selection is applied before
\* it is chosen.
NothingAhead ==
  /\ policy.at <= epoch /\ seen <= epoch /\ view.epoch <= epoch
  /\ policy.applied <= policy.rev

NetInv ==
  /\ NetTypeOK
  /\ AppliedWasSent /\ SelectionWasTold
  /\ TokensAreOld /\ PutWasTaken
  /\ ChosenIsCurrent /\ ToldBySeen /\ NothingAhead

-----------------------------------------------------------------------------
(* Steps that leave the rows and the agent alone                           *)

\* What is said of the proxies, and of the selection.
ProxiesAreTrue == AppliedWasSent /\ TokensAreOld /\ PutWasTaken
SelectionIsTrue ==
  SelectionWasTold /\ ChosenIsCurrent /\ ToldBySeen /\ NothingAhead

LEMMA ProxiesUndisturbed ==
  ASSUME NetInv, UNCHANGED <<row, running, accepted>>,
         \/ apply' \notin {"put", "finalize"}
         \/ UNCHANGED <<apply, tokens>>
  PROVE  ProxiesAreTrue'
BY DEF NetInv, ProxiesAreTrue, AppliedWasSent, TokensAreOld, PutWasTaken, Desired

LEMMA SelectionUndisturbed ==
  ASSUME NetInv, UNCHANGED <<policy, selected, epoch>>,
         view'.epoch <= epoch, seen' <= epoch,
         \/ apply' \notin {"select", "mark", "tell", "told"}
         \/ UNCHANGED <<apply, seen, chosen>>
  PROVE  SelectionIsTrue'
BY DEF NetInv, SelectionIsTrue, SelectionWasTold, ChosenIsCurrent, ToldBySeen,
   NothingAhead

LEMMA NetInvParts ==
  ASSUME NetTypeOK', ProxiesAreTrue', SelectionIsTrue'
  PROVE  NetInv'
BY DEF NetInv, ProxiesAreTrue, SelectionIsTrue

Status == [pending : BOOLEAN, attempts : 0..MaxAttempts, exhausted : BOOLEAN]
View == [available : BOOLEAN, epoch : 0..MaxEpoch]

LEMMA DirtyTypes ==
  ASSUME NetAssumption
  PROVE  Dirty \in Status /\ Clean \in Status
<1>1. Dirty \in Status
  BY DEF NetAssumption, Dirty, Status
<1>2. Clean \in Status
  BY <1>1 DEF Clean, Status
<1>3. QED
  BY <1>1, <1>2

\* The row of a proxy that was changed, and the selection of a newer revision.
LEMMA ModifiedRow ==
  ASSUME NetAssumption, NEW r \in Row, r.rev < MaxRev, NEW gone \in BOOLEAN
  PROVE  LET new == [r EXCEPT !.rev = @ + 1, !.deleted = gone]
         IN new \in Row /\ new.rev = r.rev + 1 /\ new.applied = r.applied
<1> DEFINE new == [r EXCEPT !.rev = @ + 1, !.deleted = gone]
<1>1. r.rev + 1 \in 1..MaxRev
  BY DEF NetAssumption, Row
<1>2. new \in Row
  BY <1>1 DEF Row
<1>3. new.rev = r.rev + 1 /\ new.applied = r.applied
  BY DEF Row
<1>4. QED
  BY <1>2, <1>3

LEMMA NewerPolicy ==
  ASSUME NetAssumption, NEW q \in Policy, q.rev < MaxRev
  PROVE  LET new == [q EXCEPT !.rev = @ + 1, !.configured = TRUE]
         IN /\ new \in Policy /\ new.rev = q.rev + 1
            /\ new.applied = q.applied /\ new.at = q.at
<1> DEFINE new == [q EXCEPT !.rev = @ + 1, !.configured = TRUE]
<1>1. q.rev + 1 \in 1..MaxRev
  BY DEF NetAssumption, Policy
<1>2. new \in Policy
  BY <1>1 DEF Policy
<1>3. /\ new.rev = q.rev + 1 /\ new.applied = q.applied /\ new.at = q.at
  BY DEF Policy
<1>4. QED
  BY <1>2, <1>3

\* The service's view after a refresh is of an epoch the agent has had.
LEMMA RefreshedTypes ==
  ASSUME NetAssumption, NetInv, NEW st \in Status, Refreshed(st)
  PROVE  /\ applyStatus' \in Status /\ view' \in View
         /\ view'.epoch <= epoch
<1>1. view \in View /\ epoch \in 1..MaxEpoch /\ view.epoch <= epoch
  BY DEF NetInv, NetTypeOK, NothingAhead, View
<1>2. CASE view' = [view EXCEPT !.available = FALSE] /\ applyStatus' = st
  BY <1>1, <1>2 DEF View
<1>3. CASE /\ view' = [available |-> TRUE, epoch |-> epoch]
           /\ applyStatus' = IF (view.epoch # epoch \/ ~view.available)
                                  /\ ReplayPending(epoch)
                               THEN Dirty ELSE st
  <2>1. applyStatus' \in {Dirty, st}
    BY <1>3
  <2>2. view'.epoch = epoch /\ view' \in View
    BY <1>1, <1>3 DEF View, NetAssumption
  <2>3. QED
    BY <1>1, <2>1, <2>2, DirtyTypes DEF NetAssumption
<1>4. QED
  BY <1>2, <1>3 DEF Refreshed

-----------------------------------------------------------------------------
(* Mutations                                                               *)

LEMMA ChangeKeeps ==
  ASSUME NetAssumption, NetInv, NEW p \in Proxies, Create(p) \/ Modify(p)
  PROVE  NetInv'
<1>1. /\ row \in [Proxies -> Row \cup {None}] /\ None \notin Row
      /\ MaxRev \in Nat \ {0}
  BY DEF NetAssumption, NetInv, NetTypeOK
<1>2. PICK new \in Row :
        /\ Change(p, new)
        /\ \/ row[p] = None /\ new.applied = 0
           \/ /\ row[p] # None /\ new.rev = row[p].rev + 1
              /\ new.applied = row[p].applied
  <2>1. CASE Create(p)
    <3> DEFINE new == [rev |-> 1, applied |-> 0, deleted |-> FALSE]
    <3>1. new \in Row
      BY <1>1 DEF Row
    <3>2. QED
      BY <2>1, <3>1 DEF Create
  <2>2. CASE Modify(p)
    <3>1. row[p] \in Row /\ row[p].rev < MaxRev /\ row[p] # None
      BY <1>1, <2>2 DEF Modify
    <3>2. PICK gone \in BOOLEAN :
            Change(p, [row[p] EXCEPT !.rev = @ + 1, !.deleted = gone])
      BY <2>2 DEF Modify
    <3> DEFINE new == [row[p] EXCEPT !.rev = @ + 1, !.deleted = gone]
    <3>3. /\ new.rev = row[p].rev + 1 /\ new.applied = row[p].applied
          /\ new \in Row
      BY <3>1, ModifiedRow
    <3>4. QED
      BY <3>1, <3>2, <3>3
  <2>3. QED
    BY <2>1, <2>2
<1>3. /\ row' = [row EXCEPT ![p] = new] /\ mutator' = "changed"
      /\ UNCHANGED <<policy, running, selected, epoch, accepted, applyStatus,
                     view, apply, tokens, seen, chosen, rest>>
  BY <1>2 DEF Change, agent, applier
<1>4. NetTypeOK'
  BY <1>1, <1>3 DEF NetInv, NetTypeOK
<1>5. SelectionIsTrue'
  BY <1>3, SelectionUndisturbed DEF NetInv, NothingAhead
<1>6. /\ row'[p] = new /\ new # None
      /\ \A q \in Proxies : q # p => row'[q] = row[q]
  BY <1>1, <1>3
<1>7. AppliedWasSent'
  BY <1>2, <1>3, <1>6 DEF NetInv, AppliedWasSent, Row
<1>8. TokensAreOld'
  <2>1. SUFFICES ASSUME apply \in {"put", "finalize"}, tokens[p] # None
                 PROVE  /\ tokens[p].rev <= new.rev
                        /\ tokens[p].rev = new.rev => tokens[p].deleted = new.deleted
    BY <1>3, <1>6 DEF NetInv, TokensAreOld
  <2>2. row[p] # None /\ tokens[p].rev <= row[p].rev
    BY <2>1 DEF NetInv, TokensAreOld
  <2>3. row[p].rev \in Nat /\ tokens[p].rev \in Nat
    BY <1>1, <2>1, <2>2 DEF NetInv, NetTypeOK, Row
  <2>4. QED
    BY <1>2, <2>2, <2>3
<1>9. PutWasTaken'
  BY <1>3 DEF NetInv, PutWasTaken, Desired
<1>10. QED
  BY <1>4, <1>5, <1>7, <1>8, <1>9, NetInvParts DEF ProxiesAreTrue

\* A mutation is noted, and a selection's new revision is chosen.
LEMMA MarkDirtyKeeps ==
  ASSUME NetAssumption, NetInv, MarkDirty
  PROVE  NetInv'
<1>1. NetTypeOK'
  BY DirtyTypes DEF MarkDirty, NetInv, NetTypeOK, tables, agent, applier, Status
<1>2. ProxiesAreTrue' /\ SelectionIsTrue'
  BY ProxiesUndisturbed, SelectionUndisturbed
  DEF MarkDirty, tables, agent, applier, NetInv, NothingAhead
<1>3. QED
  BY <1>1, <1>2, NetInvParts

LEMMA ChooseKeeps ==
  ASSUME NetAssumption, NetInv, Choose
  PROVE  NetInv'
<1>1. /\ policy \in Policy /\ epoch \in 1..MaxEpoch /\ view \in View
      /\ policy.rev < MaxRev /\ MaxRev \in Nat
      /\ policy' = [policy EXCEPT !.rev = @ + 1, !.configured = TRUE]
  BY DEF Choose, NetInv, NetTypeOK, View, NetAssumption
<1>2. /\ policy'.rev = policy.rev + 1 /\ policy'.applied = policy.applied
      /\ policy'.at = policy.at /\ policy' \in Policy
  BY <1>1, NewerPolicy
<1>3. /\ UNCHANGED <<row, running, selected, epoch, accepted, applyStatus,
                     mutator, tokens, rest>>
      /\ apply' = "tell" /\ chosen' = policy'.rev
  BY <1>2 DEF Choose, At, agent
<1>4. view' \in View /\ view'.epoch <= epoch /\ seen' <= epoch /\ seen' \in 0..MaxEpoch
  <2>1. epoch \in Nat /\ view.epoch \in 0..MaxEpoch /\ view.epoch <= epoch
    BY <1>1 DEF View, NetInv, NothingAhead
  <2>2. CASE view.epoch # 0 /\ seen' = view.epoch /\ UNCHANGED view
    BY <1>1, <2>1, <2>2
  <2>3. CASE seen' = epoch /\ view' = [available |-> TRUE, epoch |-> epoch]
    BY <1>1, <2>1, <2>3 DEF View
  <2>4. QED
    BY <2>2, <2>3 DEF Choose
<1>5. NetTypeOK'
  BY <1>1, <1>2, <1>3, <1>4 DEF NetInv, NetTypeOK, Policy, View
<1>6. ProxiesAreTrue'
  BY <1>3, ProxiesUndisturbed
<1>7. SelectionIsTrue'
  BY <1>1, <1>2, <1>3, <1>4
  DEF NetInv, SelectionIsTrue, SelectionWasTold, ChosenIsCurrent, ToldBySeen,
      NothingAhead, Policy
<1>8. QED
  BY <1>5, <1>6, <1>7, NetInvParts

-----------------------------------------------------------------------------
(* Reconcile                                                               *)

\* reconcileMu is given back, with the rows, the policy and the agent as they
\* are, or with an agent that has taken the rows.
LEMMA ReturnKeeps ==
  ASSUME NetAssumption, NetInv, Return, UNCHANGED <<tables, agent>>,
         applyStatus' \in Status, view' \in View, view'.epoch <= epoch,
         mutator' \in {"idle", mutator}
  PROVE  NetInv'
<1>1. NetTypeOK'
  <2>1. /\ apply' = "idle" /\ tokens' = NoTokens /\ seen' = 0 /\ chosen' = 0
        /\ rest' = FALSE
    BY DEF Return, At
  <2>2. tokens' \in [Proxies -> Row \cup {None}]
    BY <2>1 DEF NoTokens
  <2>3. 0 \in 0..MaxEpoch /\ 0 \in 0..MaxRev
    BY DEF NetAssumption
  <2>4. QED
    BY <2>1, <2>2, <2>3 DEF NetInv, NetTypeOK, Status, View, tables, agent
<1>2. ProxiesAreTrue'
  BY ProxiesUndisturbed DEF tables, agent, Return, At
<1>3. SelectionIsTrue'
  BY SelectionUndisturbed DEF tables, agent, Return, At, NetInv, NetTypeOK,
     NetAssumption
<1>4. QED
  BY <1>1, <1>2, <1>3, NetInvParts

\* An attempt that failed is counted.
LEMMA AttemptTypes ==
  ASSUME NetAssumption, NetInv
  PROVE  [applyStatus EXCEPT !.pending = TRUE, !.exhausted = Attempted] \in Status
<1>1. applyStatus \in Status
  BY DEF NetInv, NetTypeOK, Status
<1> DEFINE attempted == Attempted
<1>2. attempted \in BOOLEAN
  BY DEF Attempted
<1> HIDE DEF attempted
<1>3. [applyStatus EXCEPT !.pending = TRUE, !.exhausted = attempted] \in Status
  BY <1>1, <1>2 DEF Status
<1>4. QED
  BY <1>3 DEF attempted

LEMMA BeginReconcileKeeps ==
  ASSUME NetAssumption, NetInv, BeginReconcile
  PROVE  NetInv'
<1>1. applyStatus' \in Status
  <2>1. applyStatus \in Status /\ MaxAttempts \in Nat
    BY DEF NetInv, NetTypeOK, Status, NetAssumption
  <2> DEFINE n == Min2(applyStatus.attempts + 1, MaxAttempts)
  <2>2. n \in 0..MaxAttempts
    BY <2>1 DEF Min2, Status
  <2>3. applyStatus' = [applyStatus EXCEPT !.pending = TRUE, !.attempts = n]
    BY <2>1 DEF BeginReconcile, Status
  <2> HIDE DEF n
  <2>4. QED
    BY <2>1, <2>2, <2>3 DEF Status
<1>2. /\ apply' = "read" /\ mutator' \in {"idle", mutator}
      /\ UNCHANGED <<tables, agent, view, tokens, seen, chosen, rest>>
  BY DEF BeginReconcile, At
<1>3. NetTypeOK'
  BY <1>1, <1>2 DEF NetInv, NetTypeOK, Status, tables, agent
<1>4. ProxiesAreTrue' /\ SelectionIsTrue'
  BY <1>2, ProxiesUndisturbed, SelectionUndisturbed
  DEF tables, agent, NetInv, NothingAhead
<1>5. QED
  BY <1>3, <1>4, NetInvParts

LEMMA FailKeeps ==
  ASSUME NetAssumption, NetInv, Fail
  PROVE  NetInv'
<1>1. ApplyFailed
  BY DEF Fail
<1>2. /\ applyStatus' \in Status /\ view' \in View /\ view'.epoch <= epoch
  BY <1>1, AttemptTypes, RefreshedTypes DEF ApplyFailed
<1>3. QED
  BY <1>1, <1>2, ReturnKeeps DEF ApplyFailed

LEMMA ReadRowsKeeps ==
  ASSUME NetAssumption, NetInv, ReadRows
  PROVE  NetInv'
<1>1. /\ tokens' = row /\ apply' = "put"
      /\ UNCHANGED <<tables, agent, applyStatus, view, mutator, seen, chosen, rest>>
  BY DEF ReadRows, At
<1>2. NetTypeOK'
  BY <1>1 DEF NetInv, NetTypeOK, tables, agent
<1>3. SelectionIsTrue'
  BY <1>1, SelectionUndisturbed DEF tables, agent, NetInv, NothingAhead
<1>4. AppliedWasSent' /\ PutWasTaken'
  BY <1>1 DEF NetInv, AppliedWasSent, PutWasTaken, tables, agent
<1>5. TokensAreOld'
  <2>1. \A p \in Proxies : row[p] # None => row[p].rev \in Nat
    BY DEF NetInv, NetTypeOK, Row
  <2>2. QED
    BY <1>1, <2>1 DEF TokensAreOld, tables
<1>6. QED
  BY <1>2, <1>3, <1>4, <1>5, NetInvParts DEF ProxiesAreTrue

\* What PutProxies leaves: the agent runs what is wanted and nothing else.
LEMMA AgentTakesKeeps ==
  ASSUME NetAssumption, NetInv, apply = "put", AgentTakes, UNCHANGED row
  PROVE  /\ AppliedWasSent'
         /\ running' \in [Proxies -> 0..MaxRev]
         /\ accepted' \subseteq Proxies \X (1..MaxRev)
         /\ \A p \in Proxies :
              /\ running'[p] = Desired(p)
              /\ Desired(p) > 0 => <<p, Desired(p)>> \in accepted'
<1>1. \A p \in Proxies : Desired(p) \in 0..MaxRev
  BY DEF Desired, NetInv, NetTypeOK, NetAssumption, Row
<1>2. /\ running' = [p \in Proxies |-> Desired(p)]
      /\ accepted' = accepted \cup {<<p, Desired(p)>> : p \in {q \in Proxies : Desired(q) > 0}}
  BY DEF AgentTakes
<1>3. \A p \in Proxies : Desired(p) > 0 => <<p, Desired(p)>> \in accepted'
  BY <1>2
<1>4. accepted' \subseteq Proxies \X (1..MaxRev)
  <2>1. accepted \subseteq Proxies \X (1..MaxRev)
    BY DEF NetInv, NetTypeOK
  <2>2. \A p \in Proxies : Desired(p) > 0 => <<p, Desired(p)>> \in Proxies \X (1..MaxRev)
    BY <1>1 DEF NetAssumption
  <2>3. QED
    BY <1>2, <2>1, <2>2
<1>5. \A p \in Proxies : row[p] = None => Desired(p) = 0
  BY DEF NetInv, TokensAreOld, Desired
<1>6. AppliedWasSent'
  <2>1. accepted \subseteq accepted'
    BY <1>2
  <2>2. \A p \in Proxies : row'[p] = None => running'[p] = 0
    BY <1>2, <1>5
  <2>3. QED
    BY <2>1, <2>2 DEF AppliedWasSent, NetInv
<1>7. QED
  BY <1>1, <1>2, <1>3, <1>4, <1>6

LEMMA PutKeeps ==
  ASSUME NetAssumption, NetInv, Put
  PROVE  NetInv'
<1>1. /\ apply = "put" /\ AgentTakes /\ seen' = epoch /\ apply' = "finalize"
      /\ UNCHANGED <<tables, selected, epoch, applyStatus, view, mutator, tokens,
                     chosen, rest>>
  BY DEF Put, At, AgentTakes
<1>2. NetTypeOK'
  BY <1>1, AgentTakesKeeps DEF NetInv, NetTypeOK, tables, NetAssumption
<1>3. SelectionIsTrue'
  BY <1>1, SelectionUndisturbed DEF tables, NetInv, NetTypeOK, NothingAhead
<1>4. AppliedWasSent' /\ PutWasTaken'
  BY <1>1, AgentTakesKeeps DEF PutWasTaken, Desired, tables
<1>5. TokensAreOld'
  BY <1>1 DEF NetInv, TokensAreOld, tables
<1>6. QED
  BY <1>2, <1>3, <1>4, <1>5, NetInvParts DEF ProxiesAreTrue

LEMMA PutLostKeeps ==
  ASSUME NetAssumption, NetInv, PutLost
  PROVE  NetInv'
<1>1. /\ apply = "put" /\ AgentTakes /\ Return
      /\ UNCHANGED <<row, policy, selected, epoch, mutator>>
  BY DEF PutLost, AgentTakes, tables
<1>2. /\ applyStatus' \in Status /\ view' \in View /\ view'.epoch <= epoch
  BY AttemptTypes, RefreshedTypes DEF PutLost
<1>3. /\ running' \in [Proxies -> 0..MaxRev]
      /\ accepted' \subseteq Proxies \X (1..MaxRev)
      /\ AppliedWasSent'
  BY <1>1, AgentTakesKeeps
<1>4. /\ apply' = "idle" /\ tokens' = NoTokens /\ seen' = 0 /\ chosen' = 0
      /\ rest' = FALSE
  BY <1>1 DEF Return, At
<1>5. NetTypeOK'
  <2>1. tokens' \in [Proxies -> Row \cup {None}]
    BY <1>4 DEF NoTokens
  <2>2. 0 \in 0..MaxEpoch /\ 0 \in 0..MaxRev
    BY DEF NetAssumption
  <2>3. QED
    BY <1>1, <1>2, <1>3, <1>4, <2>1, <2>2 DEF NetInv, NetTypeOK, Status, View
<1>6. SelectionIsTrue'
  BY <1>1, <1>2, <1>4, SelectionUndisturbed DEF NetInv, NetTypeOK
<1>7. TokensAreOld' /\ PutWasTaken'
  BY <1>4 DEF TokensAreOld, PutWasTaken
<1>8. QED
  BY <1>3, <1>5, <1>6, <1>7, NetInvParts DEF ProxiesAreTrue

\* Only rows that are still what was sent are marked, or disappear.
LEMMA FinalizeKeeps ==
  ASSUME NetAssumption, NetInv, Finalize
  PROVE  NetInv'
<1>1. /\ apply = "finalize" /\ row' = [p \in Proxies |-> Finalized(p)]
      /\ apply' = "list" /\ rest' \in BOOLEAN
      /\ UNCHANGED <<policy, running, selected, epoch, accepted, applyStatus,
                     view, mutator, tokens, seen, chosen>>
  BY DEF Finalize, At, agent
<1>2. ASSUME NEW p \in Proxies
      PROVE  /\ Finalized(p) \in Row \cup {None}
             /\ IF Finalized(p) = None THEN running[p] = 0
                ELSE Finalized(p).applied > 0 => <<p, Finalized(p).applied>> \in accepted
  <2>1. /\ row[p] \in Row \cup {None} /\ tokens[p] \in Row \cup {None}
        /\ IF row[p] = None THEN running[p] = 0
           ELSE row[p].applied > 0 => <<p, row[p].applied>> \in accepted
    BY DEF NetInv, NetTypeOK, AppliedWasSent
  <2>2. CASE tokens[p] = None \/ row[p] = None \/ row[p].rev # tokens[p].rev
    BY <2>1, <2>2 DEF Finalized
  <2>3. CASE ~(tokens[p] = None \/ row[p] = None \/ row[p].rev # tokens[p].rev)
    <3>1. /\ Desired(p) > 0 => <<p, Desired(p)>> \in accepted
          /\ Desired(p) = 0 => running[p] = 0
      BY <1>1 DEF NetInv, PutWasTaken
    <3>2. CASE tokens[p].deleted
      <4>1. Finalized(p) = None /\ Desired(p) = 0
        BY <2>3, <3>2 DEF Finalized, Desired
      <4>2. QED
        BY <3>1, <4>1
    <3>3. CASE ~tokens[p].deleted
      <4>1. /\ Finalized(p) = [row[p] EXCEPT !.applied = row[p].rev]
            /\ Desired(p) = row[p].rev
        BY <2>3, <3>3 DEF Finalized, Desired
      <4>2. row[p] \in Row /\ None \notin Row
        BY <2>1, <2>3 DEF NetAssumption
      <4>3. row[p].rev \in 1..MaxRev /\ row[p].rev \in 0..MaxRev
        BY <4>2 DEF Row, NetAssumption
      <4>4. Finalized(p) \in Row /\ Finalized(p).applied = row[p].rev
        BY <4>1, <4>2, <4>3 DEF Row
      <4>5. QED
        BY <3>1, <4>1, <4>2, <4>3, <4>4
    <3>4. QED
      BY <3>2, <3>3
  <2>4. QED
    BY <2>2, <2>3
<1>3. NetTypeOK'
  BY <1>1, <1>2 DEF NetInv, NetTypeOK
<1>4. AppliedWasSent'
  BY <1>1, <1>2 DEF AppliedWasSent
<1>5. TokensAreOld' /\ PutWasTaken'
  BY <1>1 DEF TokensAreOld, PutWasTaken
<1>6. SelectionIsTrue'
  BY <1>1, SelectionUndisturbed DEF NetInv, NothingAhead
<1>7. QED
  BY <1>3, <1>4, <1>5, <1>6, NetInvParts DEF ProxiesAreTrue

-----------------------------------------------------------------------------
(* The selection                                                           *)

LEMMA ListKeeps ==
  ASSUME NetAssumption, NetInv, List
  PROVE  NetInv'
<1>1. /\ apply' \in {"select", "finish"}
      /\ apply' = "select" => chosen' = policy.rev
      /\ chosen' \in {chosen, policy.rev}
      /\ UNCHANGED <<tables, agent, applyStatus, view, mutator, tokens, seen, rest>>
  BY DEF List, At
<1>2. NetTypeOK'
  <2>1. chosen' \in 0..MaxRev
    BY <1>1 DEF NetInv, NetTypeOK, Policy, NetAssumption
  <2>2. QED
    BY <1>1, <2>1 DEF NetInv, NetTypeOK, tables, agent
<1>3. ProxiesAreTrue'
  BY <1>1, ProxiesUndisturbed DEF tables, agent
<1>4. SelectionIsTrue'
  BY <1>1 DEF NetInv, SelectionIsTrue, SelectionWasTold, ChosenIsCurrent,
     ToldBySeen, NothingAhead, tables, agent
<1>5. QED
  BY <1>2, <1>3, <1>4, NetInvParts

\* What the agent is told is the current selection, so a selection that counts
\* as applied stays the one it was told.
LEMMA TellKeeps ==
  ASSUME NetAssumption, NetInv, Tell
  PROVE  NetInv'
<1>1. /\ apply \in {"select", "tell"} /\ apply' \in {"mark", "told"}
      /\ selected' = chosen
      /\ UNCHANGED <<tables, running, epoch, accepted, applyStatus, view, mutator,
                     tokens, seen, chosen, rest>>
  BY DEF Tell, At
<1>2. NetTypeOK'
  BY <1>1 DEF NetInv, NetTypeOK, tables
<1>3. ProxiesAreTrue'
  BY <1>1, ProxiesUndisturbed DEF tables
<1>4. chosen = policy.rev
  BY <1>1 DEF NetInv, ChosenIsCurrent
<1>5. SelectionIsTrue'
  BY <1>1, <1>4 DEF NetInv, SelectionIsTrue, SelectionWasTold, ChosenIsCurrent,
     ToldBySeen, NothingAhead, tables
<1>6. QED
  BY <1>2, <1>3, <1>5, NetInvParts

\* MarkNetworkSelectionApplied: for the epoch that was told.
LEMMA MarkAppliedKeeps ==
  ASSUME NetAssumption, NetInv, apply \in {"mark", "told"}, MarkApplied,
         UNCHANGED <<selected, epoch, view>>, seen' <= epoch,
         apply' \notin {"select", "mark", "tell", "told"}
  PROVE  policy' \in Policy /\ SelectionIsTrue'
<1>1. /\ policy \in Policy /\ seen \in 0..MaxEpoch /\ chosen = policy.rev
      /\ chosen \in 0..MaxRev /\ policy.rev \in Nat
  BY DEF NetInv, NetTypeOK, ChosenIsCurrent, Policy
<1>2. policy' = [policy EXCEPT !.applied = chosen, !.at = seen]
  BY <1>1 DEF MarkApplied
<1>3. /\ policy' \in Policy
      /\ policy'.applied = chosen /\ policy'.at = seen /\ policy'.rev = policy.rev
      /\ policy'.configured = policy.configured
  BY <1>1, <1>2 DEF Policy
<1>4. SelectionIsTrue'
  BY <1>1, <1>3 DEF NetInv, SelectionIsTrue, SelectionWasTold, ChosenIsCurrent,
     ToldBySeen, NothingAhead
<1>5. QED
  BY <1>3, <1>4

LEMMA MarkKeeps ==
  ASSUME NetAssumption, NetInv, Mark
  PROVE  NetInv'
<1>1. /\ apply = "mark" /\ apply' = "finish" /\ MarkApplied
      /\ rest' = (rest \/ policy.rev # chosen)
      /\ UNCHANGED <<row, running, selected, epoch, accepted, applyStatus, view,
                     mutator, tokens, seen, chosen>>
  BY DEF Mark, At, agent
<1>2. policy' \in Policy /\ SelectionIsTrue'
  BY <1>1, MarkAppliedKeeps DEF NetInv, NothingAhead
<1>3. rest' \in BOOLEAN
  BY <1>1 DEF NetInv, NetTypeOK
<1>4. NetTypeOK'
  BY <1>1, <1>2, <1>3 DEF NetInv, NetTypeOK
<1>5. ProxiesAreTrue'
  BY <1>1, ProxiesUndisturbed
<1>6. QED
  BY <1>2, <1>4, <1>5, NetInvParts

LEMMA ToldKeeps ==
  ASSUME NetAssumption, NetInv, Told
  PROVE  NetInv'
<1>1. /\ apply = "told" /\ MarkApplied /\ Return
      /\ UNCHANGED <<row, running, selected, epoch, accepted, applyStatus, view,
                     mutator>>
  BY DEF Told, agent
<1>2. /\ apply' = "idle" /\ tokens' = NoTokens /\ seen' = 0 /\ chosen' = 0
      /\ rest' = FALSE
  BY <1>1 DEF Return, At
<1>3. policy' \in Policy /\ SelectionIsTrue'
  BY <1>1, <1>2, MarkAppliedKeeps DEF NetInv, NetTypeOK, NetAssumption
<1>4. NetTypeOK'
  <2>1. tokens' \in [Proxies -> Row \cup {None}]
    BY <1>2 DEF NoTokens
  <2>2. 0 \in 0..MaxEpoch /\ 0 \in 0..MaxRev
    BY DEF NetAssumption
  <2>3. QED
    BY <1>1, <1>2, <1>3, <2>1, <2>2 DEF NetInv, NetTypeOK
<1>5. ProxiesAreTrue'
  BY <1>1, <1>2, ProxiesUndisturbed
<1>6. QED
  BY <1>3, <1>4, <1>5, NetInvParts

LEMMA EndOfAttemptKeeps ==
  ASSUME NetAssumption, NetInv, SelectFails \/ Finish \/ TellFails
  PROVE  NetInv'
<1>1. view \in View /\ seen \in 0..MaxEpoch /\ seen <= epoch /\ view.epoch <= epoch
  BY DEF NetInv, NetTypeOK, NothingAhead, View
<1>2. /\ Return /\ UNCHANGED <<tables, agent, mutator>>
      /\ view' \in {view, [available |-> TRUE, epoch |-> seen]}
      /\ applyStatus' \in
           {Dirty, Clean, [applyStatus EXCEPT !.pending = TRUE, !.exhausted = Attempted]}
  BY DEF SelectFails, Finish, TellFails
<1>3. view' \in View /\ view'.epoch <= epoch
  <2> DEFINE found == [available |-> TRUE, epoch |-> seen]
  <2>1. found \in View /\ found.epoch = seen
    BY <1>1 DEF View
  <2>2. view' \in {view, found}
    BY <1>2
  <2> HIDE DEF found
  <2>3. QED
    BY <1>1, <2>1, <2>2
<1>4. applyStatus' \in Status
  BY <1>2, DirtyTypes, AttemptTypes
<1>5. QED
  BY <1>2, <1>3, <1>4, ReturnKeeps

-----------------------------------------------------------------------------
(* The ticker, and restarts                                                *)

LEMMA TickKeeps ==
  ASSUME NetAssumption, NetInv, Refresh \/ Replay
  PROVE  NetInv'
<1>1. UNCHANGED <<tables, agent, mutator, applier>>
  BY DEF Refresh, Replay
<1>2. applyStatus' \in Status /\ view' \in View /\ view'.epoch <= epoch
  <2>1. applyStatus \in Status /\ view \in View /\ view.epoch <= epoch
    BY DEF NetInv, NetTypeOK, Status, View, NothingAhead
  <2>2. CASE Refresh
    BY <2>1, <2>2, RefreshedTypes DEF Refresh
  <2>3. CASE Replay
    BY <2>1, <2>3, DirtyTypes DEF Replay
  <2>4. QED
    BY <2>2, <2>3
<1>3. NetTypeOK'
  BY <1>1, <1>2 DEF NetInv, NetTypeOK, Status, View, tables, agent, applier
<1>4. ProxiesAreTrue' /\ SelectionIsTrue'
  BY <1>1, <1>2, ProxiesUndisturbed, SelectionUndisturbed
  DEF tables, agent, applier, NetInv, NothingAhead
<1>5. QED
  BY <1>3, <1>4, NetInvParts

LEMMA AgentRestartsKeeps ==
  ASSUME NetAssumption, NetInv, AgentRestarts
  PROVE  NetInv'
<1>1. /\ epoch' = epoch + 1 /\ epoch < MaxEpoch /\ epoch \in Nat
      /\ running' = [p \in Proxies |-> 0] /\ selected' = 0
      /\ UNCHANGED <<row, policy, accepted, applyStatus, view, mutator, apply,
                     tokens, seen, chosen, rest>>
  BY DEF AgentRestarts, tables, applier, NetInv, NetTypeOK
<1>2. NetTypeOK'
  BY <1>1 DEF NetInv, NetTypeOK, NetAssumption
<1>3. AppliedWasSent' /\ TokensAreOld' /\ PutWasTaken'
  BY <1>1 DEF NetInv, AppliedWasSent, TokensAreOld, PutWasTaken, Desired
<1>4. SelectionIsTrue'
  <2>1. /\ policy.at \in Nat /\ policy.at < epoch' /\ seen \in Nat /\ seen < epoch'
        /\ view.epoch \in Nat /\ view.epoch < epoch'
    BY <1>1 DEF NetInv, NetTypeOK, NothingAhead, Policy
  <2>2. QED
    BY <1>1, <2>1 DEF NetInv, SelectionIsTrue, SelectionWasTold, ChosenIsCurrent,
       ToldBySeen, NothingAhead
<1>5. QED
  BY <1>2, <1>3, <1>4, NetInvParts DEF ProxiesAreTrue

LEMMA AppRestartsKeeps ==
  ASSUME NetAssumption, NetInv, AppRestarts
  PROVE  NetInv'
<1>1. view' \in View /\ view'.epoch <= epoch /\ applyStatus' \in Status
  BY DirtyTypes DEF AppRestarts, View, NetAssumption, NetInv, NetTypeOK
<1>2. QED
  BY <1>1, ReturnKeeps DEF AppRestarts

-----------------------------------------------------------------------------
(* The theorem                                                             *)

LEMMA NetInvInit ==
  ASSUME NetAssumption, NetInit
  PROVE  NetInv
<1>1. 0 \in 0..MaxEpoch /\ 0 \in 0..MaxRev /\ 1 \in 1..MaxEpoch /\ 1 \in 1..MaxRev
  BY DEF NetAssumption
<1>2. /\ policy \in Policy /\ row \in [Proxies -> Row \cup {None}]
      /\ tokens \in [Proxies -> Row \cup {None}]
  BY <1>1 DEF NetInit, NoTokens, Policy
<1>3. view \in View /\ applyStatus \in Status
  BY <1>1, DirtyTypes DEF NetInit, View
<1>4. NetTypeOK
  BY <1>1, <1>2, <1>3 DEF NetInit, NetTypeOK, View, Status
<1>5. AppliedWasSent /\ SelectionWasTold
  BY DEF NetInit, NoTokens, AppliedWasSent, SelectionWasTold
<1>6. TokensAreOld /\ PutWasTaken /\ ChosenIsCurrent /\ ToldBySeen /\ NothingAhead
  BY DEF NetInit, TokensAreOld, PutWasTaken, ChosenIsCurrent, ToldBySeen,
     NothingAhead
<1>7. QED
  BY <1>4, <1>5, <1>6 DEF NetInv

LEMMA NetInvNext ==
  ASSUME NetAssumption, NetInv, [NetNext]_netVars
  PROVE  NetInv'
<1>1. CASE UNCHANGED netVars
  <2>1. NetTypeOK'
    BY <1>1 DEF netVars, tables, agent, applier, NetInv, NetTypeOK
  <2>2. ProxiesAreTrue' /\ SelectionIsTrue'
    BY <1>1, ProxiesUndisturbed, SelectionUndisturbed
    DEF netVars, tables, agent, applier, NetInv, NothingAhead
  <2>3. QED
    BY <2>1, <2>2, NetInvParts
<1>2. ASSUME NEW p \in Proxies, Create(p) \/ Modify(p)
      PROVE  NetInv'
  BY <1>2, ChangeKeeps
<1>3. CASE MarkDirty \/ BeginReconcile \/ Choose
  BY <1>3, MarkDirtyKeeps, BeginReconcileKeeps, ChooseKeeps
<1>4. CASE ReconcileStep
  BY <1>4, ReadRowsKeeps, PutKeeps, PutLostKeeps, FailKeeps, FinalizeKeeps,
     ListKeeps, TellKeeps, MarkKeeps, ToldKeeps, EndOfAttemptKeeps
  DEF ReconcileStep
<1>5. CASE Refresh \/ Replay \/ AgentRestarts \/ AppRestarts
  BY <1>5, TickKeeps, AgentRestartsKeeps, AppRestartsKeeps
<1>6. QED
  BY <1>1, <1>2, <1>3, <1>4, <1>5 DEF NetNext

\* However rows change, applies overlap with them, answers get lost and the
\* agent or the application starts anew: a proxy is stored as applied only at a
\* revision an agent has accepted, a row disappears only when the agent does not
\* run the proxy, and a selection counts as applied at this boot only if this
\* boot was told it (networkruntime Service.Reconcile, store FinalizeProxyApply
\* and MarkNetworkSelectionApplied).
THEOREM NetworkSafety ==
  ASSUME NetAssumption
  PROVE  NetSpec => [](NetTypeOK /\ NetworkIsApplied)
<1>1. NetInit => NetInv
  BY NetInvInit
<1>2. NetInv /\ [NetNext]_netVars => NetInv'
  BY NetInvNext
<1>3. NetInv => NetTypeOK /\ NetworkIsApplied
  BY DEF NetInv, NetworkIsApplied
<1>4. QED
  BY <1>1, <1>2, <1>3, PTL DEF NetSpec

-----------------------------------------------------------------------------
(***************************************************************************)
(* The streams of the live state and their limiter                         *)
(***************************************************************************)

\* What the proofs need of the constants: a finite number of connections, the
\* calls among the sections, and no value that stands for its absence.
EventsAssumption ==
  /\ IsFiniteSet(Streams) /\ CallSection \in Sections /\ Reassigned \subseteq Sessions
  /\ MaxSignals \in Nat /\ Global \in Nat /\ PerSession \in Nat
  /\ None \notin Signal /\ None \notin Sessions /\ None \notin {"fresh", "stale"}

-----------------------------------------------------------------------------
(* Events: the inductive invariant                                         *)

\* A connection is open with its session or closed; what waits for it is the
\* hub's newest signal, and its page is no newer than the cache.
StreamInOrder(s) ==
  /\ IF Open(s) THEN stream[s].session \in Sessions ELSE stream[s] = Closed
  /\ stream[s].current <= revision
  /\ stream[s].inbox # None => stream[s].inbox.revision = revision
  /\ page[s].revision <= cache.revision

\* What is stale in the cache was changed after the cache's signal: whoever
\* writes next has taken a newer signal, which empties the cache, or has the
\* change still before it.
StaleIsKnownTo(s) ==
  \A x \in Sections : cache.state[x] = "stale" /\ Open(s) =>
    \/ cache.revision < stream[s].current
    \/ stream[s].inbox # None /\ x \in stream[s].inbox.sections

CacheInOrder ==
  /\ cache.revision <= revision
  /\ \A x \in Sections : cache.state[x] = "stale" => cache.revision < revision

\* StreamsMissNothing for one connection.
MissesNothing(s) ==
  \A x \in Shown(s) : Open(s) /\ x \in page[s].stale =>
    \/ stream[s].inbox # None /\ x \in stream[s].inbox.sections
    \/ stream[s].step = "write" /\ x \in stream[s].due
    \/ x \in page[s].failed

StreamOK(s) == StreamInOrder(s) /\ StaleIsKnownTo(s) /\ MissesNothing(s)

EventsInv ==
  /\ EventsTypeOK /\ CacheInOrder
  /\ \A s \in Streams : StreamOK(s)
  /\ StreamsAreCounted

-----------------------------------------------------------------------------
(* Types and counts                                                        *)

PageRecord == [revision : 0..MaxSignals, stale : SUBSET Sections,
               failed : SUBSET Sections]
CacheRecord == [revision : 0..MaxSignals, built : SUBSET Sections,
                state : [Sections -> {"fresh", "stale", None}]]

LEMMA RecordTypes ==
  ASSUME EventsAssumption
  PROVE  /\ Closed \in StreamRecord /\ Blank \in PageRecord
         /\ Closed.session = None /\ Closed.step = "closed"
         /\ Closed.inbox = None /\ Closed.current = 0
         /\ Blank.revision = 0
<1>1. 0 \in 0..MaxSignals
  BY DEF EventsAssumption
<1>2. QED
  BY <1>1 DEF Closed, Blank, StreamRecord, PageRecord

\* The connections and the limiter when none is opened or closed.
LEMMA CountsUndisturbed ==
  ASSUME EventsInv, UNCHANGED limiter,
         \A s \in Streams : /\ Open(s)' <=> Open(s)
                            /\ stream'[s].session = stream[s].session
  PROVE  StreamsAreCounted'
<1>1. {s \in Streams : Open(s)}' = {s \in Streams : Open(s)}
  OBVIOUS
<1>2. \A a \in Sessions : {s \in Streams : stream'[s].session = a}
                            = {s \in Streams : stream[s].session = a}
  OBVIOUS
<1>3. QED
  BY <1>1, <1>2 DEF EventsInv, StreamsAreCounted

LEMMA LimiterTypes ==
  ASSUME EventsAssumption,
         limiter' \in [total : Nat, sessions : [Sessions -> Nat]],
         StreamsAreCounted'
  PROVE  limiter' \in [total : 0..Cardinality(Streams),
                       sessions : [Sessions -> 0..Cardinality(Streams)]]
<1>1. \A S \in SUBSET Streams : Cardinality(S) \in 0..Cardinality(Streams)
  BY FS_Subset, FS_CardinalityType DEF EventsAssumption
<1>2. limiter'.total \in 0..Cardinality(Streams)
  BY <1>1 DEF StreamsAreCounted
<1>3. \A a \in Sessions : limiter'.sessions[a] \in 0..Cardinality(Streams)
  BY <1>1 DEF StreamsAreCounted
<1>4. QED
  BY <1>2, <1>3

\* A connection that opens, and one that closes, is counted.
LEMMA OpenCounted ==
  ASSUME EventsAssumption, EventsInv, NEW s \in Streams, NEW a \in Sessions,
         ~Open(s), stream' = [stream EXCEPT ![s] = stream'[s]],
         stream'[s].step # "closed", stream'[s].session = a,
         limiter' = [total |-> limiter.total + 1,
                     sessions |-> [limiter.sessions EXCEPT ![a] = @ + 1]]
  PROVE  /\ StreamsAreCounted'
         /\ limiter' \in [total : Nat, sessions : [Sessions -> Nat]]
<1>1. /\ stream \in [Streams -> StreamRecord]
      /\ limiter.total \in Nat /\ limiter.sessions \in [Sessions -> Nat]
  BY FS_CardinalityType DEF EventsInv, EventsTypeOK, EventsAssumption
<1>2. \A q \in Streams \ {s} : stream'[q] = stream[q]
  BY <1>1
<1>3. stream[s].session = None
  BY RecordTypes DEF EventsInv, StreamOK, StreamInOrder
<1> DEFINE O == {q \in Streams : Open(q)}
           Of(b) == {q \in Streams : stream[q].session = b}
           Now(b) == {q \in Streams : stream'[q].session = b}
<1>4. /\ IsFiniteSet(O) /\ \A b : IsFiniteSet(Of(b))
  BY FS_Subset DEF EventsAssumption
<1>5. s \notin O /\ O' = O \cup {s}
  BY <1>2 DEF Open
<1>6. Cardinality(O') = Cardinality(O) + 1
  BY <1>4, <1>5, FS_AddElement
<1>7. s \notin Of(a) /\ Now(a) = Of(a) \cup {s}
  BY <1>2, <1>3 DEF EventsAssumption
<1>8. Cardinality(Now(a)) = Cardinality(Of(a)) + 1
  <2> DEFINE A == Of(a)  B == Now(a)
  <2>1. IsFiniteSet(A) /\ s \notin A /\ B = A \cup {s}
    BY <1>4, <1>7
  <2> HIDE DEF A, B
  <2>2. Cardinality(B) = Cardinality(A) + 1
    BY <2>1, FS_AddElement
  <2>3. QED
    BY <2>2 DEF A, B
<1>9. \A b \in Sessions \ {a} : Now(b) = Of(b)
  BY <1>2, <1>3 DEF EventsAssumption
<1>10. /\ Cardinality(O) = limiter.total
       /\ \A b \in Sessions : Cardinality(Of(b)) = limiter.sessions[b]
  BY DEF EventsInv, StreamsAreCounted
<1>11. StreamsAreCounted'
  <2>1. limiter'.total = Cardinality(O')
    BY <1>6, <1>10
  <2>2. \A b \in Sessions \ {a} : limiter'.sessions[b] = limiter.sessions[b]
    BY <1>1
  <2>3. limiter'.sessions[a] = limiter.sessions[a] + 1
    BY <1>1
  <2>4. \A b \in Sessions \ {a} : limiter'.sessions[b] = Cardinality(Now(b))
    BY <1>9, <1>10, <2>2
  <2>5. limiter'.sessions[a] = Cardinality(Now(a))
    BY <1>8, <1>10, <2>3
  <2>6. \A b \in Sessions : limiter'.sessions[b] = Cardinality(Now(b))
    BY <2>4, <2>5
  <2>7. QED
    BY <2>1, <2>6 DEF StreamsAreCounted
<1>12. QED
  BY <1>1, <1>11

LEMMA CloseCounted ==
  ASSUME EventsAssumption, EventsInv, NEW s \in Streams, Open(s), Close(s)
  PROVE  /\ StreamsAreCounted'
         /\ limiter' \in [total : Nat, sessions : [Sessions -> Nat]]
<1>1. PICK a \in Sessions : stream[s].session = a
  BY DEF EventsInv, StreamOK, StreamInOrder
<1>2. /\ stream \in [Streams -> StreamRecord]
      /\ limiter.total \in Nat /\ limiter.sessions \in [Sessions -> Nat]
  BY FS_CardinalityType DEF EventsInv, EventsTypeOK, EventsAssumption
<1>3. /\ \A q \in Streams \ {s} : stream'[q] = stream[q]
      /\ stream'[s] = Closed
      /\ limiter' = [total |-> limiter.total - 1,
                     sessions |-> [limiter.sessions EXCEPT ![a] = @ - 1]]
  BY <1>1, <1>2 DEF Close
<1>4. stream'[s].session = None /\ stream'[s].step = "closed"
  BY <1>3, RecordTypes
<1> DEFINE O == {q \in Streams : Open(q)}
           Of(b) == {q \in Streams : stream[q].session = b}
           Now(b) == {q \in Streams : stream'[q].session = b}
<1>5. /\ IsFiniteSet(O) /\ \A b : IsFiniteSet(Of(b))
  BY FS_Subset DEF EventsAssumption
<1>6. s \in O /\ O' = O \ {s}
  BY <1>3, <1>4 DEF Open
<1>7. Cardinality(O') = Cardinality(O) - 1 /\ Cardinality(O) \in Nat \ {0}
  BY <1>5, <1>6, FS_RemoveElement, FS_EmptySet, FS_CardinalityType
<1>8. s \in Of(a) /\ Now(a) = Of(a) \ {s}
  BY <1>1, <1>3, <1>4 DEF EventsAssumption
<1>9. Cardinality(Now(a)) = Cardinality(Of(a)) - 1 /\ Cardinality(Of(a)) \in Nat \ {0}
  <2> DEFINE A == Of(a)  B == Now(a)
  <2>1. IsFiniteSet(A) /\ s \in A /\ B = A \ {s}
    BY <1>5, <1>8
  <2> HIDE DEF A, B
  <2>2. Cardinality(B) = Cardinality(A) - 1 /\ Cardinality(A) \in Nat \ {0}
    BY <2>1, FS_RemoveElement, FS_EmptySet, FS_CardinalityType
  <2>3. QED
    BY <2>2 DEF A, B
<1>10. \A b \in Sessions \ {a} : Now(b) = Of(b)
  BY <1>1, <1>3, <1>4 DEF EventsAssumption
<1>11. /\ Cardinality(O) = limiter.total
       /\ \A b \in Sessions : Cardinality(Of(b)) = limiter.sessions[b]
  BY DEF EventsInv, StreamsAreCounted
<1>12. StreamsAreCounted'
  <2>1. limiter'.total = Cardinality(O')
    BY <1>3, <1>7, <1>11
  <2>2. \A b \in Sessions : limiter'.sessions[b] = Cardinality(Now(b))
    BY <1>1, <1>2, <1>3, <1>9, <1>10, <1>11
  <2>3. QED
    BY <2>1, <2>2 DEF StreamsAreCounted
<1>13. limiter.total - 1 \in Nat /\ limiter.sessions[a] - 1 \in Nat
  BY <1>1, <1>2, <1>7, <1>9, <1>11
<1>14. QED
  BY <1>1, <1>2, <1>3, <1>12, <1>13

-----------------------------------------------------------------------------
(* Connections                                                             *)

\* A step of one connection.
LEMMA OneStreamKeeps ==
  ASSUME EventsInv, NEW s \in Streams, UNCHANGED <<revision, cache>>,
         \A q \in Streams \ {s} : stream'[q] = stream[q] /\ page'[q] = page[q],
         StreamOK(s)'
  PROVE  CacheInOrder' /\ \A q \in Streams : StreamOK(q)'
<1>1. CacheInOrder'
  BY DEF EventsInv, CacheInOrder
<1>2. ASSUME NEW q \in Streams \ {s} PROVE StreamOK(q)'
  <2>1. stream'[q] = stream[q] /\ page'[q] = page[q] /\ StreamOK(q)
    BY DEF EventsInv
  <2>2. QED
    BY <2>1 DEF StreamOK, StreamInOrder, StaleIsKnownTo, MissesNothing, Open, Shown
<1>3. QED
  BY <1>1, <1>2

LEMMA ConnectKeeps ==
  ASSUME EventsAssumption, EventsInv, NEW s \in Streams, NEW a \in Sessions,
         NEW kind \in {"page", "call"}, Connect(s, a, kind)
  PROVE  EventsInv'
<1> DEFINE new == [step |-> "write", kind |-> kind, session |-> a, inbox |-> None,
                   current |-> revision, rights |-> rights[a],
                   due |-> IF kind = "call" THEN {CallSection} ELSE Sections]
<1>1. /\ stream' = [stream EXCEPT ![s] = new] /\ page' = [page EXCEPT ![s] = Blank]
      /\ ~Open(s)
      /\ limiter' = [total |-> limiter.total + 1,
                     sessions |-> [limiter.sessions EXCEPT ![a] = @ + 1]]
      /\ UNCHANGED <<revision, cache, valid, rights>>
  BY DEF Connect
<1>2. /\ stream \in [Streams -> StreamRecord] /\ page \in [Streams -> PageRecord]
      /\ revision \in 0..MaxSignals /\ rights[a] \in 0..1
      /\ cache.revision \in 0..MaxSignals /\ cache.revision <= revision
  BY DEF EventsInv, EventsTypeOK, PageRecord, CacheInOrder
<1>3. /\ new \in StreamRecord /\ new.step = "write" /\ new.kind = kind
      /\ new.session = a /\ new.inbox = None /\ new.current = revision
      /\ new.due = IF kind = "call" THEN {CallSection} ELSE Sections
  BY <1>2 DEF EventsAssumption, StreamRecord
<1> HIDE DEF new
<1>4. /\ stream'[s] = new /\ page'[s] = Blank
      /\ \A q \in Streams \ {s} : stream'[q] = stream[q] /\ page'[q] = page[q]
      /\ stream' \in [Streams -> StreamRecord] /\ page' \in [Streams -> PageRecord]
  BY <1>1, <1>2, <1>3, RecordTypes
<1>5. StreamOK(s)'
  <2>1. Open(s)' /\ Shown(s)' = new.due
    BY <1>3, <1>4 DEF Open, Shown
  <2>2. StreamInOrder(s)'
    BY <1>1, <1>2, <1>3, <1>4, <2>1, RecordTypes DEF StreamInOrder
  <2>3. StaleIsKnownTo(s)'
    BY <1>1, <1>3, <1>4 DEF StaleIsKnownTo, EventsInv, CacheInOrder
  <2>4. MissesNothing(s)'
    BY <1>3, <1>4, <2>1 DEF MissesNothing
  <2>5. QED
    BY <2>2, <2>3, <2>4 DEF StreamOK
<1>6. StreamsAreCounted' /\ limiter' \in [total : Nat, sessions : [Sessions -> Nat]]
  BY <1>1, <1>3, <1>4, OpenCounted
<1>7. EventsTypeOK'
  BY <1>1, <1>4, <1>6, LimiterTypes DEF EventsInv, EventsTypeOK, PageRecord
<1>8. QED
  BY <1>1, <1>4, <1>5, <1>6, <1>7, OneStreamKeeps DEF EventsInv

\* A connection that ends, for whatever reason.
LEMMA CloseKeeps ==
  ASSUME EventsAssumption, EventsInv, NEW s \in Streams, Open(s), Close(s),
         UNCHANGED <<revision, cache, valid, rights>>
  PROVE  EventsInv'
<1>1. /\ stream \in [Streams -> StreamRecord] /\ page \in [Streams -> PageRecord]
      /\ cache.revision \in Nat /\ revision \in Nat
  BY DEF EventsInv, EventsTypeOK, PageRecord
<1>2. /\ stream'[s] = Closed /\ page'[s] = Blank
      /\ \A q \in Streams \ {s} : stream'[q] = stream[q] /\ page'[q] = page[q]
      /\ stream' \in [Streams -> StreamRecord] /\ page' \in [Streams -> PageRecord]
  BY <1>1, RecordTypes DEF Close
<1>3. ~Open(s)'
  BY <1>2, RecordTypes DEF Open
<1>4. StreamOK(s)'
  BY <1>1, <1>2, <1>3, RecordTypes
  DEF StreamOK, StreamInOrder, StaleIsKnownTo, MissesNothing
<1>5. StreamsAreCounted' /\ limiter' \in [total : Nat, sessions : [Sessions -> Nat]]
  BY CloseCounted
<1>6. EventsTypeOK'
  BY <1>2, <1>5, LimiterTypes DEF EventsInv, EventsTypeOK, PageRecord
<1>7. QED
  BY <1>2, <1>4, <1>5, <1>6, OneStreamKeeps DEF EventsInv

\* The signal that waits is taken with all of its sections.
LEMMA TakeKeeps ==
  ASSUME EventsAssumption, EventsInv, NEW s \in Streams, Take(s)
  PROVE  EventsInv'
<1> DEFINE signal == stream[s].inbox
           due == signal.sections \cap Shown(s)
           step == IF stream[s].kind = "page" \/ due # {} THEN "write" ELSE "wait"
           new == [stream[s] EXCEPT !.inbox = None, !.current = signal.revision,
                                    !.step = step, !.due = due]
<1>1. /\ stream \in [Streams -> StreamRecord] /\ stream[s] \in StreamRecord
      /\ page \in [Streams -> PageRecord]
      /\ stream[s].step = "wait" /\ signal \in Signal
      /\ UNCHANGED <<revision, cache, page, valid, rights, limiter>>
  BY DEF EventsInv, EventsTypeOK, PageRecord, Take, StreamRecord
<1>2. stream' = [stream EXCEPT ![s] = new]
  BY <1>1 DEF Take
<1>3. /\ signal.sections \in SUBSET Sections /\ signal.revision \in 0..MaxSignals
      /\ due \in SUBSET Sections /\ step \in {"write", "wait"}
      /\ signal.revision = revision /\ Open(s)
  <2>1. signal.revision = revision
    BY DEF EventsInv, StreamOK, StreamInOrder, Take
  <2>2. QED
    BY <1>1, <2>1 DEF Signal, Open
<1>4. step = "write" \/ due = {}
  OBVIOUS
<1> HIDE DEF due, step
<1>5. /\ new \in StreamRecord /\ new.inbox = None /\ new.current = signal.revision
      /\ new.step = step /\ new.due = due /\ new.kind = stream[s].kind
      /\ new.session = stream[s].session
  BY <1>1, <1>3 DEF StreamRecord
<1> HIDE DEF new
<1>6. /\ stream'[s] = new /\ stream' \in [Streams -> StreamRecord]
      /\ \A q \in Streams \ {s} : stream'[q] = stream[q] /\ page'[q] = page[q]
  BY <1>1, <1>2, <1>5
<1>7. Open(s)' /\ Shown(s)' = Shown(s)
  BY <1>3, <1>5, <1>6 DEF Open, Shown
<1>8. StreamOK(s)'
  <2>1. StreamOK(s) /\ CacheInOrder /\ revision \in Nat /\ cache.revision \in Nat
    BY DEF EventsInv, EventsTypeOK
  <2>2. StreamInOrder(s)'
    BY <1>1, <1>3, <1>5, <1>6, <1>7, <2>1 DEF StreamOK, StreamInOrder
  <2>3. StaleIsKnownTo(s)'
    BY <1>1, <1>3, <1>5, <1>6, <2>1 DEF StaleIsKnownTo, CacheInOrder
  <2>4. MissesNothing(s)'
    <3>1. \A x \in Shown(s) : x \in signal.sections => x \in due
      BY DEF due
    <3>2. QED
      BY <1>1, <1>3, <1>4, <1>5, <1>6, <1>7, <2>1, <3>1 DEF StreamOK, MissesNothing
  <2>5. QED
    BY <2>2, <2>3, <2>4 DEF StreamOK
<1>9. StreamsAreCounted'
  <2>1. \A q \in Streams : /\ Open(q)' <=> Open(q)
                           /\ stream'[q].session = stream[q].session
    BY <1>3, <1>5, <1>6, <1>7 DEF Open
  <2>2. QED
    BY <1>1, <2>1, CountsUndisturbed
<1>10. EventsTypeOK'
  BY <1>1, <1>6 DEF EventsInv, EventsTypeOK
<1>11. QED
  BY <1>1, <1>6, <1>8, <1>9, <1>10, OneStreamKeeps DEF EventsInv

LEMMA AuthTickKeeps ==
  ASSUME EventsAssumption, EventsInv, NEW s \in Streams, AuthTick(s)
  PROVE  EventsInv'
<1>1. /\ stream \in [Streams -> StreamRecord] /\ stream[s] \in StreamRecord
      /\ page \in [Streams -> PageRecord]
      /\ stream[s].step = "wait" /\ Open(s)
      /\ UNCHANGED <<revision, cache, valid, rights>>
  BY DEF EventsInv, EventsTypeOK, PageRecord, AuthTick, Open
<1>2. CASE EndsAtTick(s)
  BY <1>1, <1>2, CloseKeeps DEF AuthTick
<1>3. CASE ~EndsAtTick(s)
  <2> DEFINE now == rights[stream[s].session]
             shows == Shown(s)
             new == [stream[s] EXCEPT !.rights = now, !.step = "write", !.due = shows]
  <2>1. /\ stream' = [stream EXCEPT ![s] = new] /\ UNCHANGED <<page, limiter>>
    BY <1>1, <1>3 DEF AuthTick
  <2>2. now \in 0..1 /\ shows \in SUBSET Sections
    BY <1>1 DEF EventsInv, EventsTypeOK, StreamOK, StreamInOrder, Shown,
       EventsAssumption
  <2> HIDE DEF now, shows
  <2>3. /\ new \in StreamRecord /\ new.step = "write" /\ new.due = shows
        /\ new.inbox = stream[s].inbox /\ new.current = stream[s].current
        /\ new.kind = stream[s].kind /\ new.session = stream[s].session
    BY <1>1, <2>2 DEF StreamRecord
  <2> HIDE DEF new
  <2>4. /\ stream'[s] = new /\ stream' \in [Streams -> StreamRecord]
        /\ \A q \in Streams \ {s} : stream'[q] = stream[q] /\ page'[q] = page[q]
    BY <1>1, <2>1, <2>3
  <2>5. Open(s)' /\ Shown(s)' = shows
    BY <2>3, <2>4 DEF Open, Shown, shows
  <2>6. StreamOK(s)'
    <3>1. StreamOK(s)
      BY DEF EventsInv
    <3>2. QED
      BY <1>1, <2>1, <2>3, <2>4, <2>5, <3>1
      DEF StreamOK, StreamInOrder, StaleIsKnownTo, MissesNothing
  <2>7. StreamsAreCounted'
    <3>1. \A q \in Streams : /\ Open(q)' <=> Open(q)
                             /\ stream'[q].session = stream[q].session
      BY <1>1, <2>3, <2>4, <2>5 DEF Open
    <3>2. QED
      BY <2>1, <3>1, CountsUndisturbed
  <2>8. EventsTypeOK'
    BY <1>1, <2>1, <2>4 DEF EventsInv, EventsTypeOK
  <2>9. QED
    BY <1>1, <2>4, <2>6, <2>7, <2>8, OneStreamKeeps DEF EventsInv
<1>4. QED
  BY <1>2, <1>3

-----------------------------------------------------------------------------
(* Writes                                                                  *)

\* The end of a write: the connection waits again, as it was.
LEMMA Written ==
  ASSUME EventsAssumption, EventsInv, NEW s \in Streams,
         stream[s].step = "write",
         stream' = [stream EXCEPT ![s].step = "wait", ![s].due = {}]
  PROVE  /\ stream' \in [Streams -> StreamRecord]
         /\ \A q \in Streams \ {s} : stream'[q] = stream[q]
         /\ stream'[s].inbox = stream[s].inbox
         /\ stream'[s].current = stream[s].current
         /\ \A q \in Streams : /\ Open(q)' <=> Open(q)
                               /\ stream'[q].session = stream[q].session
                               /\ Shown(q)' = Shown(q)
<1> DEFINE new == [stream[s] EXCEPT !.step = "wait", !.due = {}]
<1>1. stream \in [Streams -> StreamRecord] /\ stream[s] \in StreamRecord
  BY DEF EventsInv, EventsTypeOK
<1>2. stream' = [stream EXCEPT ![s] = new]
  BY <1>1
<1>3. /\ new \in StreamRecord /\ new.step = "wait"
      /\ new.inbox = stream[s].inbox /\ new.current = stream[s].current
      /\ new.kind = stream[s].kind /\ new.session = stream[s].session
  BY <1>1 DEF StreamRecord
<1> HIDE DEF new
<1>4. /\ stream'[s] = new /\ stream' \in [Streams -> StreamRecord]
      /\ \A q \in Streams \ {s} : stream'[q] = stream[q]
  BY <1>1, <1>2, <1>3
<1>5. \A q \in Streams : /\ Open(q)' <=> Open(q)
                         /\ stream'[q].session = stream[q].session
                         /\ Shown(q)' = Shown(q)
  BY <1>3, <1>4 DEF Open, Shown
<1>6. QED
  BY <1>3, <1>4, <1>5

LEMMA WriteCallKeeps ==
  ASSUME EventsAssumption, EventsInv, NEW s \in Streams, WriteCall(s)
  PROVE  EventsInv'
<1>1. /\ stream[s].step = "write" /\ stream[s].kind = "call"
      /\ stream' = [stream EXCEPT ![s].step = "wait", ![s].due = {}]
      /\ UNCHANGED <<revision, cache, valid, rights, limiter>>
      /\ page \in [Streams -> PageRecord] /\ page[s] \in PageRecord
      /\ stream \in [Streams -> StreamRecord]
  BY DEF WriteCall, EventsInv, EventsTypeOK, PageRecord
<1>2. /\ page' \in [Streams -> PageRecord]
      /\ \A q \in Streams \ {s} : page'[q] = page[q]
      /\ page'[s].revision = page[s].revision
      /\ CallSection \notin page'[s].stale \/ CallSection \in page'[s].failed
  <2>1. CASE page' = [page EXCEPT ![s].stale = @ \ {CallSection}, ![s].failed = {}]
    <3> DEFINE new == [page[s] EXCEPT !.stale = @ \ {CallSection}, !.failed = {}]
    <3>1. page' = [page EXCEPT ![s] = new]
      BY <1>1, <2>1
    <3>2. /\ new \in PageRecord /\ new.revision = page[s].revision
          /\ CallSection \notin new.stale
      BY <1>1 DEF PageRecord
    <3> HIDE DEF new
    <3>3. QED
      BY <1>1, <3>1, <3>2
  <2>2. CASE page' = [page EXCEPT ![s].failed = {CallSection}]
    <3> DEFINE new == [page[s] EXCEPT !.failed = {CallSection}]
    <3>1. page' = [page EXCEPT ![s] = new]
      BY <1>1, <2>2
    <3>2. /\ new \in PageRecord /\ new.revision = page[s].revision
          /\ CallSection \in new.failed
      BY <1>1 DEF PageRecord, EventsAssumption
    <3> HIDE DEF new
    <3>3. QED
      BY <1>1, <3>1, <3>2
  <2>3. QED
    BY <2>1, <2>2 DEF WriteCall
<1>3. StreamOK(s)'
  <2>1. Shown(s)' = {CallSection} /\ Open(s)' /\ Open(s) /\ StreamOK(s)
    BY <1>1, Written DEF Shown, Open, EventsInv
  <2>2. StreamInOrder(s)' /\ StaleIsKnownTo(s)'
    BY <1>1, <1>2, <2>1, Written DEF StreamOK, StreamInOrder, StaleIsKnownTo
  <2>3. MissesNothing(s)'
    BY <1>2, <2>1 DEF MissesNothing
  <2>4. QED
    BY <2>2, <2>3 DEF StreamOK
<1>4. StreamsAreCounted' /\ EventsTypeOK'
  BY <1>1, <1>2, Written, CountsUndisturbed DEF EventsInv, EventsTypeOK, PageRecord
<1>5. QED
  BY <1>1, <1>2, <1>3, <1>4, Written, OneStreamKeeps DEF EventsInv

\* The cache a write works on: at least as new as the connection's signal and
\* as the cache, and what is stale in it was not read since its change.
LEMMA CacheForWrite ==
  ASSUME EventsAssumption, EventsInv, NEW s \in Streams
  PROVE  LET base == CacheAt(stream[s].current)
         IN /\ base \in CacheRecord /\ base.revision <= revision
            /\ cache.revision <= base.revision
            /\ stream[s].current <= base.revision
            /\ \A x \in Sections : base.state[x] = "stale" =>
                 base = cache /\ stream[s].current <= cache.revision
<1>1. /\ cache \in CacheRecord /\ stream[s].current \in 0..MaxSignals
      /\ revision \in 0..MaxSignals
      /\ stream[s].current <= revision /\ cache.revision <= revision
  BY DEF EventsInv, EventsTypeOK, CacheRecord, StreamRecord, StreamOK,
     StreamInOrder, CacheInOrder
<1>2. CASE stream[s].current > cache.revision
  <2> DEFINE empty == [revision |-> stream[s].current, built |-> {},
                       state |-> [x \in Sections |-> None]]
  <2>1. CacheAt(stream[s].current) = empty
    BY <1>2 DEF CacheAt
  <2>2. /\ empty \in CacheRecord /\ empty.revision = stream[s].current
        /\ \A x \in Sections : empty.state[x] = None
    BY <1>1 DEF CacheRecord
  <2> HIDE DEF empty
  <2>3. QED
    BY <1>1, <1>2, <2>1, <2>2 DEF EventsAssumption, CacheRecord
<1>3. CASE ~(stream[s].current > cache.revision)
  <2>1. CacheAt(stream[s].current) = cache
    BY <1>3 DEF CacheAt
  <2>2. QED
    BY <1>1, <1>3, <2>1 DEF CacheRecord
<1>4. QED
  BY <1>2, <1>3

LEMMA WriteStateKeeps ==
  ASSUME EventsAssumption, EventsInv, NEW s \in Streams, WriteState(s)
  PROVE  EventsInv'
<1> DEFINE due == stream[s].due
           base == CacheAt(stream[s].current)
           missing == due \ base.built
<1>1. /\ stream[s].step = "write" /\ stream[s].kind = "page"
      /\ stream' = [stream EXCEPT ![s].step = "wait", ![s].due = {}]
      /\ UNCHANGED <<revision, valid, rights, limiter>>
      /\ page \in [Streams -> PageRecord] /\ page[s] \in PageRecord
      /\ due \in SUBSET Sections /\ Open(s) /\ StreamOK(s)
  BY DEF WriteState, EventsInv, EventsTypeOK, PageRecord, StreamRecord, Open
<1>2. /\ base \in CacheRecord /\ base.revision <= revision
      /\ cache.revision <= base.revision
      /\ \A x \in Sections : base.state[x] = "stale" =>
           base = cache /\ stream[s].current <= cache.revision
  BY CacheForWrite
<1>3. PICK unbuilt \in SUBSET missing, unshown \in SUBSET (due \cap {CallSection}) :
        LET state == [x \in Sections |-> IF x \in missing \ unbuilt THEN "fresh"
                                         ELSE base.state[x]]
            sent  == {x \in due : state[x] # None} \ unshown
        IN /\ cache' = [revision |-> base.revision,
                        built |-> base.built \cup missing, state |-> state]
           /\ page' = [page EXCEPT ![s] =
                         Accepted(s, base.revision, [x \in sent |-> state[x]],
                                  due \ sent)]
  BY DEF WriteState
<1> HIDE DEF base
<1> DEFINE now == [x \in Sections |-> IF x \in missing \ unbuilt THEN "fresh"
                                      ELSE base.state[x]]
           sent == {x \in due : now[x] # None} \ unshown
           new == Accepted(s, base.revision, [x \in sent |-> now[x]], due \ sent)
<1>4. /\ cache' = [revision |-> base.revision, built |-> base.built \cup missing,
                   state |-> now]
      /\ page' = [page EXCEPT ![s] = new]
  BY <1>3
<1>5. /\ now \in [Sections -> {"fresh", "stale", None}] /\ sent \in SUBSET due
      /\ \A x \in Sections : now[x] = "stale" => base.state[x] = "stale"
  BY <1>1, <1>2 DEF CacheRecord, EventsAssumption
<1>6. /\ cache' \in CacheRecord /\ cache'.revision = base.revision
      /\ cache'.state = now
  BY <1>1, <1>2, <1>4, <1>5 DEF CacheRecord
<1> HIDE DEF now, sent
<1>7. /\ base.revision \in 0..MaxSignals /\ page[s].revision \in 0..MaxSignals
      /\ page[s].revision <= base.revision /\ cache.revision \in 0..MaxSignals
  BY <1>1, <1>2 DEF StreamOK, StreamInOrder, CacheRecord, PageRecord, EventsInv,
     EventsTypeOK
<1>8. new = [revision |-> base.revision,
             stale |-> {x \in Sections : IF x \in sent THEN now[x] = "stale"
                                         ELSE x \in page[s].stale},
             failed |-> (page[s].failed \ sent) \cup (due \ sent)]
  BY <1>1, <1>5, <1>7 DEF Accepted
<1> HIDE DEF new
<1>9. /\ new \in PageRecord /\ new.revision = base.revision
      /\ \A x \in Sections : x \in new.stale =>
           IF x \in sent THEN now[x] = "stale" ELSE x \in page[s].stale
      /\ new.failed = (page[s].failed \ sent) \cup (due \ sent)
  BY <1>1, <1>7, <1>8 DEF PageRecord
<1>10. /\ page' \in [Streams -> PageRecord] /\ page'[s] = new
       /\ \A q \in Streams \ {s} : page'[q] = page[q]
  BY <1>1, <1>4, <1>9
<1>11. CacheInOrder'
  BY <1>1, <1>2, <1>5, <1>6 DEF CacheInOrder, EventsInv
<1>12. ASSUME NEW q \in Streams PROVE StreamOK(q)'
  <2>1. StreamOK(q) /\ (Open(q)' <=> Open(q)) /\ Shown(q)' = Shown(q)
    BY <1>1, Written DEF EventsInv
  <2>2. /\ stream'[q].inbox = stream[q].inbox
        /\ stream'[q].current = stream[q].current
        /\ q # s => (stream'[q] = stream[q] /\ page'[q] = page[q])
    BY <1>1, <1>10, Written
  <2>3. page'[q].revision <= cache'.revision
    <3>1. CASE q = s
      BY <1>6, <1>7, <1>9, <1>10, <3>1
    <3>2. CASE q # s
      <4>1. page[q].revision <= cache.revision /\ page[q].revision \in Nat
        BY <1>1, <2>1 DEF StreamOK, StreamInOrder, PageRecord
      <4>2. QED
        BY <1>2, <1>6, <1>7, <2>2, <3>2, <4>1
    <3>3. QED
      BY <3>1, <3>2
  <2>4. StreamInOrder(q)'
    <3>1. IF Open(q)' THEN stream'[q].session \in Sessions ELSE stream'[q] = Closed
      BY <1>1, <2>1, <2>2, Written DEF StreamOK, StreamInOrder
    <3>2. QED
      BY <1>1, <2>1, <2>2, <2>3, <3>1 DEF StreamOK, StreamInOrder
  <2>5. StaleIsKnownTo(q)'
    BY <1>2, <1>5, <1>6, <2>1, <2>2 DEF StreamOK, StaleIsKnownTo
  <2>6. MissesNothing(q)'
    <3>1. CASE q # s
      BY <2>1, <2>2, <3>1 DEF StreamOK, MissesNothing
    <3>2. CASE q = s
      <4>1. Shown(s) = Sections
        BY <1>1 DEF Shown
      <4>2. ASSUME NEW x \in Sections, x \in new.stale
            PROVE  \/ stream[s].inbox # None /\ x \in stream[s].inbox.sections
                   \/ x \in new.failed
        <5>1. CASE x \in sent
          <6>1. base = cache /\ stream[s].current <= cache.revision
            BY <1>2, <1>5, <1>9, <4>2, <5>1
          <6>2. cache.state[x] = "stale"
            BY <1>5, <1>9, <4>2, <5>1, <6>1
          <6>3. stream[s].current \in Nat /\ cache.revision \in Nat
            BY <1>7 DEF EventsInv, EventsTypeOK, StreamRecord
          <6>4. QED
            BY <1>1, <6>1, <6>2, <6>3 DEF StreamOK, StaleIsKnownTo
        <5>2. CASE x \notin sent
          BY <1>1, <1>9, <4>1, <4>2, <5>2 DEF StreamOK, MissesNothing
        <5>3. QED
          BY <5>1, <5>2
      <4>3. QED
        BY <1>10, <2>1, <2>2, <3>2, <4>1, <4>2 DEF MissesNothing
    <3>3. QED
      BY <3>1, <3>2
  <2>7. QED
    BY <2>4, <2>5, <2>6 DEF StreamOK
<1>13. StreamsAreCounted' /\ EventsTypeOK'
  BY <1>1, <1>6, <1>10, Written, CountsUndisturbed
  DEF EventsInv, EventsTypeOK, PageRecord, CacheRecord
<1>14. QED
  BY <1>11, <1>12, <1>13 DEF EventsInv

-----------------------------------------------------------------------------
(* Signals, and sessions that change                                       *)

\* A signal reaches every connection with all that waits there already.
LEMMA PublishKeeps ==
  ASSUME EventsAssumption, EventsInv, NEW changed \in SUBSET Sections,
         Publish(changed)
  PROVE  EventsInv'
<1> DEFINE signal == [revision |-> revision + 1, sections |-> changed]
<1>1. /\ revision < MaxSignals /\ revision' = revision + 1
      /\ cache' = [cache EXCEPT !.state = [x \in Sections |->
                     IF x \in changed /\ @[x] # None THEN "stale" ELSE @[x]]]
      /\ page' = [s \in Streams |->
                    IF Open(s) THEN [page[s] EXCEPT !.stale = @ \cup changed]
                    ELSE page[s]]
      /\ stream' = [s \in Streams |->
                      IF Open(s)
                        THEN [stream[s] EXCEPT !.inbox = Coalesced(@, signal)]
                        ELSE stream[s]]
      /\ UNCHANGED <<valid, rights, limiter>>
  BY DEF Publish
<1>2. /\ revision \in Nat /\ revision' \in 0..MaxSignals
      /\ cache \in CacheRecord /\ stream \in [Streams -> StreamRecord]
      /\ page \in [Streams -> PageRecord] /\ CacheInOrder
      /\ \A s \in Streams : StreamOK(s)
  BY <1>1 DEF EventsInv, EventsTypeOK, EventsAssumption, CacheRecord, PageRecord
<1>3. signal \in Signal /\ signal.revision = revision' /\ signal.sections = changed
  BY <1>1, <1>2 DEF Signal
<1> HIDE DEF signal
<1>4. /\ cache' \in CacheRecord /\ cache'.revision = cache.revision
      /\ \A x \in Sections : cache'.state[x] = "stale" =>
           x \in changed \/ cache.state[x] = "stale"
  <2> DEFINE now == [x \in Sections |->
               IF x \in changed /\ cache.state[x] # None THEN "stale"
               ELSE cache.state[x]]
  <2>1. /\ now \in [Sections -> {"fresh", "stale", None}]
        /\ \A x \in Sections : now[x] = "stale" =>
             x \in changed \/ cache.state[x] = "stale"
    BY <1>2 DEF CacheRecord
  <2>2. cache' = [cache EXCEPT !.state = now]
    BY <1>1, <1>2 DEF CacheRecord
  <2> HIDE DEF now
  <2>3. cache' \in CacheRecord /\ cache'.revision = cache.revision /\ cache'.state = now
    BY <1>2, <2>1, <2>2 DEF CacheRecord
  <2>4. QED
    BY <2>1, <2>3
<1>5. ASSUME NEW s \in Streams
      PROVE  /\ stream'[s] \in StreamRecord
             /\ stream'[s].step = stream[s].step /\ stream'[s].kind = stream[s].kind
             /\ stream'[s].session = stream[s].session
             /\ stream'[s].current = stream[s].current
             /\ stream'[s].due = stream[s].due
             /\ page'[s] \in PageRecord
             /\ page'[s].revision = page[s].revision
             /\ page'[s].failed = page[s].failed
             /\ page'[s].stale \subseteq page[s].stale \cup changed
             /\ ~Open(s) => stream'[s] = stream[s]
             /\ Open(s) =>
                  /\ stream'[s].inbox \in Signal
                  /\ stream'[s].inbox.revision = revision'
                  /\ changed \subseteq stream'[s].inbox.sections
                  /\ stream[s].inbox # None =>
                       stream[s].inbox.sections \subseteq stream'[s].inbox.sections
  <2>1. stream[s] \in StreamRecord /\ page[s] \in PageRecord
    BY <1>2
  <2>2. CASE ~Open(s)
    BY <1>1, <2>1, <2>2
  <2>3. CASE Open(s)
    <3> DEFINE box == Coalesced(stream[s].inbox, signal)
               new == [stream[s] EXCEPT !.inbox = box]
               shown == [page[s] EXCEPT !.stale = @ \cup changed]
    <3>1. /\ box \in Signal /\ box.revision = revision' /\ changed \subseteq box.sections
          /\ stream[s].inbox # None => stream[s].inbox.sections \subseteq box.sections
      <4>1. CASE stream[s].inbox = None
        BY <1>3, <4>1 DEF Coalesced
      <4>2. CASE stream[s].inbox # None
        <5> DEFINE waiting == stream[s].inbox.sections
        <5>1. waiting \in SUBSET Sections
          BY <2>1, <4>2 DEF StreamRecord, Signal
        <5>2. box = [signal EXCEPT !.sections = @ \cup waiting]
          BY <4>2 DEF Coalesced
        <5> HIDE DEF waiting, box
        <5>3. /\ box \in Signal /\ box.revision = signal.revision
              /\ box.sections = changed \cup waiting
          BY <1>3, <5>1, <5>2 DEF Signal
        <5>4. QED
          BY <1>3, <5>3 DEF waiting
      <4>3. QED
        BY <4>1, <4>2
    <3>2. stream'[s] = new /\ page'[s] = shown
      BY <1>1, <2>3
    <3> HIDE DEF box
    <3>3. /\ new \in StreamRecord /\ new.inbox = box
          /\ new.step = stream[s].step /\ new.kind = stream[s].kind
          /\ new.session = stream[s].session /\ new.current = stream[s].current
          /\ new.due = stream[s].due
      BY <2>1, <3>1 DEF StreamRecord
    <3>4. /\ shown \in PageRecord /\ shown.revision = page[s].revision
          /\ shown.failed = page[s].failed
          /\ shown.stale = page[s].stale \cup changed
      BY <2>1 DEF PageRecord
    <3> HIDE DEF new, shown
    <3>5. QED
      BY <2>3, <3>1, <3>2, <3>3, <3>4
  <2>4. QED
    BY <2>2, <2>3
<1>6. CacheInOrder'
  BY <1>1, <1>2, <1>4 DEF CacheInOrder, CacheRecord
<1>7. \A s \in Streams : /\ Open(s)' <=> Open(s)
                         /\ stream'[s].session = stream[s].session
                         /\ Shown(s)' = Shown(s)
  BY <1>5 DEF Open, Shown
<1>8. ASSUME NEW s \in Streams PROVE StreamOK(s)'
  <2>1. StreamOK(s) /\ None \notin Signal
    BY <1>2 DEF EventsAssumption
  <2>2. StreamInOrder(s)'
    <3>1. IF Open(s)' THEN stream'[s].session \in Sessions ELSE stream'[s] = Closed
      BY <1>5, <1>7, <2>1 DEF StreamOK, StreamInOrder
    <3>2. stream'[s].current <= revision' /\ page'[s].revision <= cache'.revision
      BY <1>1, <1>2, <1>4, <1>5, <2>1 DEF StreamOK, StreamInOrder, StreamRecord
    <3>3. stream'[s].inbox # None => stream'[s].inbox.revision = revision'
      BY <1>5, <2>1, RecordTypes DEF StreamOK, StreamInOrder
    <3>4. QED
      BY <3>1, <3>2, <3>3 DEF StreamInOrder
  <2>3. StaleIsKnownTo(s)'
    BY <1>4, <1>5, <1>7, <2>1 DEF StreamOK, StaleIsKnownTo
  <2>4. MissesNothing(s)'
    BY <1>5, <1>7, <2>1 DEF StreamOK, MissesNothing
  <2>5. QED
    BY <2>2, <2>3, <2>4 DEF StreamOK
<1>9. stream' \in [Streams -> StreamRecord] /\ page' \in [Streams -> PageRecord]
  BY <1>1, <1>5
<1>10. StreamsAreCounted'
  BY <1>1, <1>7, CountsUndisturbed
<1>11. EventsTypeOK'
  BY <1>1, <1>2, <1>4, <1>9 DEF EventsInv, EventsTypeOK, CacheRecord, PageRecord
<1>12. QED
  BY <1>6, <1>8, <1>10, <1>11 DEF EventsInv

\* A session that is revoked or gets other rights, and a step of nobody.
LEMMA SessionsChange ==
  ASSUME EventsAssumption, EventsInv,
         UNCHANGED <<revision, cache, stream, page, limiter>>,
         valid' \subseteq valid, rights' \in [Sessions -> 0..1]
  PROVE  EventsInv'
<1>1. \A s \in Streams : StreamOK(s)'
  BY DEF EventsInv, StreamOK, StreamInOrder, StaleIsKnownTo, MissesNothing, Open,
     Shown
<1>2. CacheInOrder'
  BY DEF EventsInv, CacheInOrder
<1>3. StreamsAreCounted'
  BY CountsUndisturbed DEF Open
<1>4. EventsTypeOK'
  BY DEF EventsInv, EventsTypeOK
<1>5. QED
  BY <1>1, <1>2, <1>3, <1>4 DEF EventsInv

-----------------------------------------------------------------------------
(* The theorem                                                             *)

LEMMA EventsInvInit ==
  ASSUME EventsAssumption, EventsInit
  PROVE  EventsInv
<1>1. /\ 0 \in 0..MaxSignals /\ Cardinality(Streams) \in Nat
      /\ Cardinality({}) = 0
  BY FS_CardinalityType, FS_EmptySet DEF EventsAssumption
<1>2. \A s \in Streams : /\ stream[s] = Closed /\ page[s] = Blank
                         /\ ~Open(s) /\ stream[s].session = None
  BY RecordTypes DEF EventsInit, Open
<1>3. /\ cache.revision = 0 /\ revision = 0
      /\ \A x \in Sections : cache.state[x] = None
      /\ cache \in CacheRecord
  BY <1>1 DEF EventsInit, CacheRecord
<1>4. EventsTypeOK
  BY <1>1, <1>3, RecordTypes DEF EventsInit, EventsTypeOK, CacheRecord, PageRecord
<1>5. \A s \in Streams : StreamOK(s)
  BY <1>2, <1>3, RecordTypes DEF StreamOK, StreamInOrder, StaleIsKnownTo, MissesNothing
<1>6. CacheInOrder
  BY <1>3 DEF CacheInOrder, EventsAssumption
<1>7. StreamsAreCounted
  <2>1. {s \in Streams : Open(s)} = {}
    BY <1>2
  <2>2. \A a \in Sessions : {s \in Streams : stream[s].session = a} = {}
    BY <1>2 DEF EventsAssumption
  <2>3. QED
    BY <1>1, <2>1, <2>2 DEF StreamsAreCounted, EventsInit
<1>8. QED
  BY <1>4, <1>5, <1>6, <1>7 DEF EventsInv

LEMMA EventsInvNext ==
  ASSUME EventsAssumption, EventsInv, [EventsNext]_eventVars
  PROVE  EventsInv'
<1>1. CASE UNCHANGED eventVars
  BY <1>1, SessionsChange DEF eventVars, EventsInv, EventsTypeOK
<1>2. ASSUME NEW changed \in SUBSET Sections, Publish(changed)
      PROVE  EventsInv'
  BY <1>2, PublishKeeps
<1>3. ASSUME NEW s \in Streams, NEW a \in Sessions, NEW kind \in {"page", "call"},
             Connect(s, a, kind)
      PROVE  EventsInv'
  BY <1>3, ConnectKeeps
<1>4. ASSUME NEW s \in Streams,
             Leave(s) \/ Take(s) \/ WriteState(s) \/ WriteCall(s) \/ AuthTick(s)
      PROVE  EventsInv'
  <2>1. CASE Leave(s)
    BY <2>1, CloseKeeps DEF Leave
  <2>2. QED
    BY <1>4, <2>1, TakeKeeps, WriteStateKeeps, WriteCallKeeps, AuthTickKeeps
<1>5. ASSUME NEW a \in Sessions, Revoke(a)
      PROVE  EventsInv'
  BY <1>5, SessionsChange DEF Revoke, EventsInv, EventsTypeOK
<1>6. ASSUME NEW a \in Reassigned, Reassign(a)
      PROVE  EventsInv'
  <2>1. rights' \in [Sessions -> 0..1]
    BY <1>6 DEF Reassign, EventsInv, EventsTypeOK, EventsAssumption
  <2>2. QED
    BY <1>6, <2>1, SessionsChange DEF Reassign
<1>7. QED
  BY <1>1, <1>2, <1>3, <1>4, <1>5, <1>6 DEF EventsNext

\* The invariant says so of the state.
LEMMA EventsInvImplies ==
  ASSUME EventsInv
  PROVE  EventsTypeOK /\ StreamsAreServed
BY DEF EventsInv, StreamsAreServed, StreamsMissNothing, StreamOK, MissesNothing

\* However signals are coalesced, sections built late and writes overlap: a page
\* is behind only in sections that are on their way to it or whose build failed,
\* and the limiter counts the streams there are (runtimeevents.Hub.Publish,
\* httpapi currentRuntimeState and writeRuntimeState, eventStreamLimiter).
THEOREM EventsSafety ==
  ASSUME EventsAssumption
  PROVE  EventsSpec => [](EventsTypeOK /\ StreamsAreServed)
<1>1. EventsInit => EventsInv
  BY EventsInvInit
<1>2. EventsInv /\ [EventsNext]_eventVars => EventsInv'
  BY EventsInvNext
<1>3. EventsInv => EventsTypeOK /\ StreamsAreServed
  BY EventsInvImplies
<1>4. QED
  BY <1>1, <1>2, <1>3, PTL DEF EventsSpec

-----------------------------------------------------------------------------
(***************************************************************************)
(* Owners and hubs of a call's audio                                       *)
(***************************************************************************)

\* What the proofs need of the constants: an owner is no hub, and the absence
\* of a call is no call.
MediaAssumption == Owners \cap Hubs = {} /\ None \notin Calls

-----------------------------------------------------------------------------
(* Media: the inductive invariant                                          *)

SessionStages == {"live", "stopped", "done"}
Working == {"opening", "opened", "running"}

\* A slot that was given up is for no call, and an owner with a session keeps its
\* place in the table.
OwnersAreHeld ==
  \A o \in Owners :
    /\ stage[o] = "free" => key[o] = None
    /\ stage[o] \in SessionStages => o \in held
    /\ o \in packets \cup connected => stage[o] \in SessionStages

\* A call has one owner.
OneOwnerPerCall ==
  \A o, p \in held : key[o] # None /\ key[o] = key[p] => o = p

\* A hub that works in a lifetime that is not cancelled is its call's entry.
HubsAreEntries ==
  /\ \A h \in Hubs : h \in linked /\ hub[h] \in Working => h \in table
  /\ \A h, k \in table : hubCall[h] = hubCall[k] => h = k

OwnerInv == OwnersAreHeld /\ OneOwnerPerCall /\ AliveIsTruth

CoreInv == MediaTypeOK /\ OwnerInv /\ HubsAreEntries

\* A call whose lifetime is about to be dropped, or was, has no owner in a
\* lifetime that is not cancelled, and gets none before the sweep is over.
SweepInv ==
  /\ \A c \in Calls : sweep[c] # "no" => c \notin authority
  /\ \A o \in held \cap linked :
       key[o] # None => life[key[o]] # "none" /\ sweep[key[o]] # "closed"

MediaInv == CoreInv /\ SweepInv

-----------------------------------------------------------------------------
(* Media: what a step leaves alone                                         *)

LEMMA OwnersUndisturbed ==
  ASSUME MediaInv, UNCHANGED <<stage, key, held, packets, connected, alive>>,
         \A o \in Owners : o \in linked' => o \in linked
  PROVE  OwnerInv'
BY DEF MediaInv, CoreInv, MediaTypeOK, OwnerInv, OwnersAreHeld, OneOwnerPerCall,
       AliveIsTruth, OwnersOf

LEMMA HubsUndisturbed ==
  ASSUME MediaInv, UNCHANGED hubs, \A h \in Hubs : h \in linked' => h \in linked
  PROVE  HubsAreEntries'
BY DEF MediaInv, CoreInv, MediaTypeOK, HubsAreEntries, hubs

\* An owner moves on, and what is said about its session stays true.
LEMMA StageMoves ==
  ASSUME MediaInv, NEW o \in Owners, NEW s \in Stages, Move(o, s),
         UNCHANGED <<key, held, packets, connected, alive>>,
         \A p \in Owners : p \in linked' => p \in linked,
         s = "free" => stage[o] = "free", s \in SessionStages => o \in held,
         o \in packets \cup connected => s \in SessionStages
  PROVE  OwnerInv' /\ stage' \in [Owners -> Stages]
<1>1. /\ stage' \in [Owners -> Stages] /\ stage'[o] = s
      /\ \A p \in Owners \ {o} : stage'[p] = stage[p]
  BY DEF MediaInv, CoreInv, MediaTypeOK, Move
<1>2. OwnersAreHeld'
  BY <1>1 DEF MediaInv, CoreInv, OwnerInv, OwnersAreHeld
<1>3. OneOwnerPerCall' /\ AliveIsTruth'
  BY DEF MediaInv, CoreInv, MediaTypeOK, OwnerInv, OneOwnerPerCall,
     AliveIsTruth, OwnersOf
<1>4. QED
  BY <1>1, <1>2, <1>3 DEF OwnerInv

-----------------------------------------------------------------------------
(* Owners                                                                  *)

\* An owner that starts, or takes over, is for a call nobody owns.
LEMMA ReserveKeeps ==
  ASSUME MediaAssumption, MediaInv, NEW o \in Owners, NEW c \in Calls,
         Reserve(o, c) \/ Activate(o, c)
  PROVE  CoreInv'
<1>1. MediaTypeOK /\ OwnersAreHeld /\ OneOwnerPerCall /\ AliveIsTruth
  BY DEF MediaInv, CoreInv, OwnerInv
<1>2. /\ key[o] = None /\ OwnersOf(c) = {} /\ c # None
      /\ key' = [key EXCEPT ![o] = c] /\ held' = held \cup {o}
      /\ o \notin OwnersOf(c) /\ ~alive[c]
      /\ linked' = linked \cup {o}
      /\ UNCHANGED <<packets, connected, hubs, core, authority, sweep, ended,
                     binding, hubRef>>
      /\ life' = [life EXCEPT ![c] = "live"]
  BY <1>1 DEF Reserve, Activate, OwnersAreHeld, AliveIsTruth, Prepared,
     MediaAssumption, MediaTypeOK
<1>3. /\ stage' \in [Owners -> Stages]
      /\ \A p \in Owners \ {o} : stage'[p] = stage[p]
      /\ stage'[o] \in {stage[o], "check"}
      /\ stage'[o] # "free"
      /\ o \in packets \cup connected => stage'[o] = stage[o]
  BY <1>1 DEF Reserve, Activate, Move, MediaTypeOK, Stages, OwnersAreHeld,
     SessionStages, TransportReady
<1>4. /\ key' \in [Owners -> Calls \cup {None}] /\ key'[o] = c
      /\ \A p \in Owners \ {o} : key'[p] = key[p]
  BY <1>1, <1>2 DEF MediaTypeOK
<1>5. /\ alive' \in [Calls -> BOOLEAN]
      /\ \A d \in Calls \ {c} : alive'[d] <=> alive[d]
      /\ alive'[c] <=> o \in connected
  <2>1. CASE Reserve(o, c)
    BY <1>1, <1>2, <2>1 DEF Reserve, MediaTypeOK, OwnersAreHeld, SessionStages
  <2>2. CASE Activate(o, c)
    BY <1>1, <1>2, <2>2 DEF Activate, MediaTypeOK
  <2>3. QED
    BY <2>1, <2>2
<1>6. MediaTypeOK'
  BY <1>1, <1>2, <1>3, <1>4, <1>5 DEF MediaTypeOK, hubs
<1>7. OwnersAreHeld'
  BY <1>1, <1>2, <1>3, <1>4 DEF OwnersAreHeld, SessionStages
<1>8. OneOwnerPerCall'
  BY <1>1, <1>2, <1>4 DEF OneOwnerPerCall, OwnersOf, MediaTypeOK
<1>9. AliveIsTruth'
  <2>1. OwnersOf(c)' = {o}
    BY <1>1, <1>2, <1>4 DEF OwnersOf, MediaTypeOK
  <2>2. \A d \in Calls \ {c} : OwnersOf(d)' = OwnersOf(d)
    BY <1>1, <1>2, <1>4, MediaAssumption DEF OwnersOf, MediaTypeOK, MediaAssumption
  <2>3. \A d \in Calls \ {c} : o \notin OwnersOf(d)'
    BY <1>4 DEF OwnersOf
  <2>4. QED
    BY <1>1, <1>2, <1>5, <2>1, <2>2, <2>3 DEF AliveIsTruth
<1>10. HubsAreEntries'
  BY <1>2, HubsUndisturbed DEF MediaAssumption
<1>11. QED
  BY <1>6, <1>7, <1>8, <1>9, <1>10 DEF MediaInv, CoreInv, OwnerInv

\* An owner that gives up its slot takes its word about the call back.
LEMMA FreeKeeps ==
  ASSUME MediaAssumption, MediaInv, NEW o \in Owners,
         FailOpen(o) \/ RemoveOwner(o)
  PROVE  CoreInv'
<1>1. MediaTypeOK /\ OwnersAreHeld /\ OneOwnerPerCall /\ AliveIsTruth
  BY DEF MediaInv, CoreInv, OwnerInv
<1>2. /\ FreeOwner(o) /\ UNCHANGED <<core, authority, life, sweep, hubs>>
      /\ o \in connected => o \in held
      /\ alive' = AliveAfterRemoval(o)
  BY <1>1 DEF FailOpen, RemoveOwner, AliveAfterRemoval, OwnersAreHeld, SessionStages
<1>3. /\ stage' \in [Owners -> Stages] /\ stage'[o] = "free"
      /\ \A p \in Owners \ {o} : stage'[p] = stage[p]
      /\ key' \in [Owners -> Calls \cup {None}] /\ key'[o] = None
      /\ \A p \in Owners \ {o} : key'[p] = key[p]
      /\ held' = held \ {o} /\ packets' = packets \ {o}
      /\ connected' = connected \ {o} /\ linked' = linked \ {o}
      /\ ended' = ended \ {o}
      /\ hubRef' \in [Owners -> Hubs \cup {None}]
      /\ binding' \in [Owners -> {"none", "wait", "bound"}]
  BY <1>1, <1>2 DEF FreeOwner, Move, MediaTypeOK, Stages
<1>4. /\ alive' \in [Calls -> BOOLEAN]
      /\ o \in connected /\ key[o] # None =>
           ~alive'[key[o]] /\ \A d \in Calls \ {key[o]} : alive'[d] = alive[d]
      /\ o \notin connected \/ key[o] = None => alive' = alive
  BY <1>1, <1>2 DEF AliveAfterRemoval, Prepared, MediaTypeOK
<1>5. MediaTypeOK'
  BY <1>1, <1>2, <1>3, <1>4 DEF MediaTypeOK, hubs
<1>6. OwnersAreHeld'
  BY <1>1, <1>3 DEF OwnersAreHeld, SessionStages
<1>7. OneOwnerPerCall'
  BY <1>1, <1>3 DEF OneOwnerPerCall, MediaTypeOK
<1>8. AliveIsTruth'
  <2>1. \A d \in Calls : OwnersOf(d)' = OwnersOf(d) \ {o}
    BY <1>1, <1>3 DEF OwnersOf, MediaTypeOK
  <2>2. \A d \in Calls : key[o] # d => OwnersOf(d)' = OwnersOf(d)
    BY <2>1 DEF OwnersOf
  <2>3. \A d \in Calls : o \in held /\ key[o] = d => OwnersOf(d)' = {}
    BY <1>1, <1>3 DEF OneOwnerPerCall, OwnersOf, MediaTypeOK, MediaAssumption
  <2>4. ASSUME NEW d \in Calls
        PROVE  /\ alive'[d] => \E p \in OwnersOf(d)' : p \in connected'
               /\ \A p \in OwnersOf(d)' \cap connected' :
                    p \in linked' => alive'[d]
    <3>1. CASE key[o] = d /\ o \in connected
      BY <1>2, <1>4, <2>3, <3>1, MediaAssumption DEF MediaAssumption, OwnersOf
    <3>2. CASE ~(key[o] = d /\ o \in connected)
      <4>1. alive'[d] = alive[d]
        BY <1>1, <1>4, <3>2 DEF MediaTypeOK
      <4>2. \A p : p \in OwnersOf(d) /\ p \in connected
                     <=> p \in OwnersOf(d)' /\ p \in connected'
        BY <1>3, <2>1, <3>2 DEF OwnersOf
      <4>3. QED
        BY <1>1, <1>3, <4>1, <4>2 DEF AliveIsTruth
    <3>3. QED
      BY <3>1, <3>2
  <2>5. QED
    BY <2>4 DEF AliveIsTruth
<1>9. HubsAreEntries'
  BY <1>2, <1>3, HubsUndisturbed
<1>10. QED
  BY <1>5, <1>6, <1>7, <1>8, <1>9 DEF MediaInv, CoreInv, OwnerInv

\* A step of an owner that keeps its call, its place and what was said.
LEMMA StageStepKeeps ==
  ASSUME MediaAssumption, MediaInv, NEW o \in Owners,
         \/ CheckHub(o) \/ HubReady(o) \/ Commit(o) \/ BindFails(o)
         \/ SessionStops(o) \/ SessionDone(o)
         \/ \E h \in Hubs : AcquireHub(o, h)
  PROVE  OwnerInv' /\ stage' \in [Owners -> Stages]
<1>1. MediaTypeOK /\ OwnersAreHeld
  BY DEF MediaInv, CoreInv, OwnerInv
<1>2. /\ UNCHANGED <<key, held, packets, connected, alive>>
      /\ \A p \in Owners : p \in linked' => p \in linked
  BY DEF CheckHub, HubReady, Commit, BindFails, SessionStops, SessionDone,
     AcquireHub, SessionOnly, MediaAssumption
<1>3. \E s \in Stages :
        /\ Move(o, s) /\ (s = "free" => stage[o] = "free")
        /\ s \in SessionStages => o \in held
        /\ o \in packets \cup connected => s \in SessionStages
  <2>1. CASE CheckHub(o) \/ HubReady(o) \/ \E h \in Hubs : AcquireHub(o, h)
    BY <1>1, <2>1 DEF CheckHub, HubReady, AcquireHub, Stages, SessionStages,
       OwnersAreHeld
  <2>2. CASE Commit(o) \/ SessionStops(o) \/ SessionDone(o)
    BY <1>1, <2>2 DEF Commit, Committable, SessionStops, SessionDone, Stages,
       SessionStages, OwnersAreHeld
  <2>3. CASE BindFails(o)
    <3>1. CASE stage[o] = "live"
      <4>1. Move(o, "stopped") /\ o \in held
        BY <1>1, <2>3, <3>1 DEF BindFails, OwnersAreHeld, SessionStages
      <4>2. QED
        BY <4>1 DEF Stages, SessionStages
    <3>2. CASE stage[o] # "live"
      <4>1. Move(o, stage[o]) /\ stage[o] \in Stages
        BY <1>1, <2>3, <3>2 DEF BindFails, MediaTypeOK
      <4>2. QED
        BY <1>1, <4>1 DEF OwnersAreHeld
    <3>3. QED
      BY <3>1, <3>2
  <2>4. QED
    BY <2>1, <2>2, <2>3
<1>4. QED
  BY <1>2, <1>3, StageMoves

\* The rest of an owner's steps to a hub and from it.
LEMMA OwnerStepKeeps ==
  ASSUME MediaAssumption, MediaInv, NEW o \in Owners,
         \/ CheckHub(o) \/ HubReady(o) \/ Commit(o) \/ BindFails(o)
         \/ SessionStops(o) \/ SessionDone(o)
  PROVE  CoreInv'
<1>1. MediaTypeOK
  BY DEF MediaInv, CoreInv
<1>2. OwnerInv' /\ stage' \in [Owners -> Stages]
  BY StageStepKeeps
<1>3. /\ UNCHANGED <<core, authority, life, sweep, key, held, ended, packets,
                     connected, linked, hubs, alive>>
      /\ binding' \in [Owners -> {"none", "wait", "bound"}]
      /\ hubRef' \in [Owners -> Hubs \cup {None}]
  BY <1>1 DEF CheckHub, HubReady, Commit, BindFails, SessionStops, SessionDone,
     SessionOnly, MediaTypeOK
<1>4. MediaTypeOK'
  BY <1>1, <1>2, <1>3 DEF MediaTypeOK, hubs
<1>5. HubsAreEntries'
  BY <1>3, HubsUndisturbed
<1>6. QED
  BY <1>2, <1>4, <1>5 DEF MediaInv, CoreInv

\* Whoever asks for a call's hub finds its entry or makes the only one.
LEMMA JoinKeeps ==
  ASSUME MediaInv, NEW c \in Calls \cup {None}, NEW h \in Hubs, JoinHub(c, h),
         linked' \subseteq linked \cup {h} \cup Owners,
         Owners \cap Hubs = {}
  PROVE  /\ HubsAreEntries'
         /\ hub' \in [Hubs -> HubStages] /\ table' \subseteq Hubs
         /\ hubCall' \in [Hubs -> Calls \cup {None}]
<1>1. MediaTypeOK /\ HubsAreEntries
  BY DEF MediaInv, CoreInv
<1>2. CASE EntryOf(c) = {h} /\ UNCHANGED <<hub, hubCall, table>>
  BY <1>1, <1>2 DEF MediaTypeOK, HubsAreEntries, EntryOf
<1>3. CASE /\ EntryOf(c) = {} /\ hub[h] = "free"
           /\ hub' = [hub EXCEPT ![h] = "opening"]
           /\ hubCall' = [hubCall EXCEPT ![h] = c]
           /\ table' = table \cup {h}
  <2>1. /\ hub' \in [Hubs -> HubStages] /\ table' \subseteq Hubs
        /\ hubCall' \in [Hubs -> Calls \cup {None}] /\ hubCall'[h] = c
        /\ \A k \in Hubs \ {h} : hub'[k] = hub[k] /\ hubCall'[k] = hubCall[k]
    BY <1>1, <1>3 DEF MediaTypeOK, HubStages
  <2>2. \A k \in table : hubCall[k] # c
    BY <1>3 DEF EntryOf
  <2>3. \A k \in Hubs : k \in linked' /\ hub'[k] \in Working => k \in table'
    BY <1>1, <1>3, <2>1 DEF HubsAreEntries
  <2>4. \A k, l \in table' : hubCall'[k] = hubCall'[l] => k = l
    BY <1>1, <1>3, <2>1, <2>2 DEF HubsAreEntries, MediaTypeOK
  <2>5. QED
    BY <2>1, <2>3, <2>4 DEF HubsAreEntries
<1>4. QED
  BY <1>2, <1>3 DEF JoinHub

LEMMA AcquireKeeps ==
  ASSUME MediaAssumption, MediaInv, NEW o \in Owners, NEW h \in Hubs,
         AcquireHub(o, h) \/ BindHub(o, h)
  PROVE  CoreInv'
<1>1. MediaTypeOK /\ OwnersAreHeld
  BY DEF MediaInv, CoreInv, OwnerInv
<1>2. /\ JoinHub(key[o], h)
      /\ linked' = IF h \notin table /\ o \in linked THEN linked \cup {h} ELSE linked
      /\ UNCHANGED <<core, authority, life, sweep, key, held, ended, packets,
                     connected, alive>>
      /\ hubRef' = [hubRef EXCEPT ![o] = h]
  BY DEF AcquireHub, BindHub
<1>3. /\ HubsAreEntries'
      /\ hub' \in [Hubs -> HubStages] /\ table' \subseteq Hubs
      /\ hubCall' \in [Hubs -> Calls \cup {None}]
  <2>1. key[o] \in Calls \cup {None}
    BY <1>1 DEF MediaTypeOK
  <2>2. QED
    BY <1>2, <2>1, JoinKeeps DEF MediaAssumption
<1>4. OwnerInv' /\ stage' \in [Owners -> Stages]
  <2>1. CASE AcquireHub(o, h)
    BY <2>1, StageStepKeeps
  <2>2. CASE BindHub(o, h)
    <3>1. UNCHANGED stage
      BY <2>2 DEF BindHub
    <3>2. QED
      BY <1>1, <1>2, <3>1, OwnersUndisturbed DEF MediaTypeOK, MediaAssumption
  <2>3. QED
    BY <2>1, <2>2
<1>5. /\ binding' \in [Owners -> {"none", "wait", "bound"}]
      /\ hubRef' \in [Owners -> Hubs \cup {None}]
      /\ linked' \subseteq Owners \cup Hubs
  BY <1>1, <1>2 DEF AcquireHub, BindHub, MediaTypeOK
<1>6. MediaTypeOK'
  BY <1>1, <1>2, <1>3, <1>4, <1>5 DEF MediaTypeOK
<1>7. QED
  BY <1>3, <1>4, <1>6 DEF MediaInv, CoreInv

\* What an owner reports of itself, and a prepared session.
LEMMA SessionKeeps ==
  ASSUME MediaAssumption, MediaInv, NEW o \in Owners,
         \/ Bound(o) \/ PrepareSocket(o) \/ FirstPacket(o)
         \/ NoticeConnected(o) \/ ReleaseOwner(o)
  PROVE  CoreInv'
<1>1. MediaTypeOK /\ OwnersAreHeld /\ OneOwnerPerCall /\ AliveIsTruth
  BY DEF MediaInv, CoreInv, OwnerInv
<1>2. UNCHANGED <<core, authority, life, sweep, key, hubRef, linked, hubs>>
  BY DEF Bound, PrepareSocket, FirstPacket, NoticeConnected, ReleaseOwner,
     SessionOnly
<1>3. HubsAreEntries'
  BY <1>2, HubsUndisturbed
<1>4. MediaTypeOK'
  <2>1. /\ stage' \in [Owners -> Stages] /\ alive' \in [Calls -> BOOLEAN]
        /\ binding' \in [Owners -> {"none", "wait", "bound"}]
    BY <1>1 DEF Bound, PrepareSocket, FirstPacket, NoticeConnected, ReleaseOwner,
       SessionOnly, Move, MediaTypeOK, Stages
  <2>2. /\ held' \subseteq Owners /\ ended' \subseteq Owners
        /\ packets' \subseteq Owners /\ connected' \subseteq Owners
    BY <1>1 DEF Bound, PrepareSocket, FirstPacket, NoticeConnected, ReleaseOwner,
       SessionOnly, MediaTypeOK
  <2>3. QED
    BY <1>1, <1>2, <2>1, <2>2 DEF MediaTypeOK, hubs
<1>5. OwnerInv'
  <2>1. CASE Bound(o) \/ ReleaseOwner(o)
    BY <2>1, OwnersUndisturbed DEF Bound, ReleaseOwner
  <2>2. CASE FirstPacket(o)
    <3>1. /\ UNCHANGED <<stage, key, held, connected, alive>>
          /\ packets' = packets \cup {o} /\ stage[o] \in SessionStages
      BY <2>2 DEF FirstPacket, SessionOnly, SessionStages
    <3>2. QED
      BY <1>1, <1>2, <3>1 DEF OwnerInv, OwnersAreHeld, OneOwnerPerCall, AliveIsTruth,
         OwnersOf
  <2>3. CASE PrepareSocket(o)
    <3>1. /\ UNCHANGED <<packets, connected, alive>> /\ key[o] = None
          /\ held' = held \cup {o} /\ stage[o] = "free"
          /\ stage'[o] = "live" /\ \A p \in Owners \ {o} : stage'[p] = stage[p]
      BY <1>1, <2>3 DEF PrepareSocket, Move, MediaTypeOK, OwnersAreHeld
    <3>2. OwnersAreHeld'
      BY <1>1, <1>2, <3>1 DEF OwnersAreHeld, SessionStages
    <3>3. OneOwnerPerCall'
      BY <1>1, <1>2, <3>1 DEF OneOwnerPerCall, MediaTypeOK
    <3>4. AliveIsTruth'
      BY <1>1, <1>2, <3>1, MediaAssumption DEF AliveIsTruth, OwnersOf, MediaAssumption
    <3>5. QED
      BY <3>2, <3>3, <3>4 DEF OwnerInv
  <2>4. CASE NoticeConnected(o)
    <3>1. /\ UNCHANGED <<stage, held, packets>>
          /\ connected' = connected \cup {o} /\ o \in held
          /\ stage[o] \in SessionStages
          /\ key[o] = None \/ o \notin linked =>
               alive' = alive \/ (key[o] # None /\ alive' = [alive EXCEPT ![key[o]] = TRUE])
          /\ key[o] = None => alive' = alive
          /\ key[o] # None /\ o \in linked => alive' = [alive EXCEPT ![key[o]] = TRUE]
      BY <2>4 DEF NoticeConnected, Reportable, SessionOnly, SessionStages, Prepared,
         MediaInv, SweepInv
    <3>2. OwnersAreHeld' /\ OneOwnerPerCall'
      BY <1>1, <1>2, <3>1 DEF OwnersAreHeld, OneOwnerPerCall
    <3>3. AliveIsTruth'
      BY <1>1, <1>2, <3>1, MediaAssumption
         DEF AliveIsTruth, OwnersOf, MediaAssumption, MediaTypeOK
    <3>4. QED
      BY <3>2, <3>3 DEF OwnerInv
  <2>5. QED
    BY <2>1, <2>2, <2>3, <2>4
<1>6. QED
  BY <1>3, <1>4, <1>5 DEF MediaInv, CoreInv

-----------------------------------------------------------------------------
(* Hubs                                                                    *)

LEMMA HubStepKeeps ==
  ASSUME MediaAssumption, MediaInv, NEW h \in Hubs,
         \/ \E c \in Calls : Subscribe(c, h)
         \/ HubStep(h) \/ HubStops(h) \/ ReuseHub(h)
  PROVE  CoreInv'
<1>1. MediaTypeOK /\ HubsAreEntries
  BY DEF MediaInv, CoreInv
<1>2. UNCHANGED <<core, authority, sweep, owner, alive>>
  BY DEF Subscribe, HubStep, OpenReturns, PublishHub, HubDone, HubStops, ReuseHub,
     HubOnly
<1>3. OwnerInv'
  <2>1. \A o \in Owners : o \in linked' => o \in linked
    BY DEF Subscribe, HubStep, OpenReturns, PublishHub, HubDone, HubStops, ReuseHub,
       MediaAssumption
  <2>2. QED
    BY <1>2, <2>1, OwnersUndisturbed DEF owner
<1>4. ASSUME NEW c \in Calls, Subscribe(c, h)
      PROVE  CoreInv'
  <2>1. JoinHub(c, h) /\ linked' = linked \cup {h}
    BY <1>4 DEF Subscribe
  <2>2. /\ HubsAreEntries'
        /\ hub' \in [Hubs -> HubStages] /\ table' \subseteq Hubs
        /\ hubCall' \in [Hubs -> Calls \cup {None}]
    BY <2>1, JoinKeeps DEF MediaAssumption
  <2>3. linked' \subseteq Owners \cup Hubs /\ life' \in [Calls -> {"none", "live", "cancelled"}]
    BY <1>1, <1>4, <2>1 DEF MediaTypeOK, Subscribe
  <2>4. MediaTypeOK'
    BY <1>1, <1>2, <2>2, <2>3 DEF MediaTypeOK, owner
  <2>5. QED
    BY <1>3, <2>2, <2>4 DEF MediaInv, CoreInv
<1>5. ASSUME HubStep(h) \/ HubStops(h) \/ ReuseHub(h)
      PROVE  CoreInv'
  <2>1. /\ UNCHANGED life
        /\ linked' \subseteq linked /\ table' \subseteq table
        /\ hub' \in [Hubs -> HubStages] /\ hub'[h] \in HubStages
        /\ \A k \in Hubs \ {h} : hub'[k] = hub[k]
    <3>1. CASE OpenReturns(h) \/ HubDone(h) \/ HubStops(h) \/ ReuseHub(h)
      BY <1>1, <3>1 DEF OpenReturns, HubDone, HubStops, ReuseHub, HubOnly,
         MoveHub, TableAfterDone, MediaTypeOK, HubStages
    <3>2. CASE PublishHub(h)
      BY <1>1, <3>2 DEF PublishHub, HubOnly, MoveHub, MediaTypeOK, HubStages
    <3>3. QED
      BY <1>5, <3>1, <3>2 DEF HubStep
  <2>2. /\ hubCall' \in [Hubs -> Calls \cup {None}]
        /\ \A k \in table' : hubCall'[k] = hubCall[k]
    BY <1>1, <1>5 DEF HubStep, OpenReturns, HubDone, HubStops, ReuseHub, PublishHub,
       HubOnly, MediaTypeOK
  <2>3. \A k \in table : k \in table' \/ (k = h /\ hub'[k] \notin Working)
    <3>1. CASE OpenReturns(h) \/ HubStops(h) \/ ReuseHub(h)
      BY <3>1 DEF OpenReturns, HubStops, ReuseHub
    <3>2. CASE HubDone(h)
      BY <1>1, <3>2 DEF HubDone, MoveHub, TableAfterDone, MediaTypeOK, Working
    <3>3. CASE PublishHub(h)
      BY <1>1, <3>3 DEF PublishHub, MoveHub, MediaTypeOK, Working
    <3>4. QED
      BY <1>5, <3>1, <3>2, <3>3 DEF HubStep
  <2>4. hub'[h] \in Working => hub[h] \in Working
    BY <1>1, <1>5 DEF HubStep, OpenReturns, HubDone, HubStops, ReuseHub, PublishHub,
       MoveHub, MediaTypeOK, Working
  <2>5. HubsAreEntries'
    BY <1>1, <2>1, <2>2, <2>3, <2>4 DEF HubsAreEntries, MediaTypeOK
  <2>6. MediaTypeOK'
    BY <1>1, <1>2, <2>1, <2>2 DEF MediaTypeOK, owner
  <2>7. QED
    BY <1>3, <2>5, <2>6 DEF MediaInv, CoreInv
<1>6. QED
  BY <1>4, <1>5

-----------------------------------------------------------------------------
(* Media: closing                                                          *)

\* CloseCall takes a call's entry and its owners without a session away.
LEMMA CloseNowKeeps ==
  ASSUME MediaAssumption, MediaInv, NEW c \in Calls, CloseNow(c),
         sweep' \in [Calls -> {"no", "stale", "closed"}]
  PROVE  CoreInv'
<1>1. MediaTypeOK /\ OwnersAreHeld /\ OneOwnerPerCall /\ AliveIsTruth /\ HubsAreEntries
  BY DEF MediaInv, CoreInv, OwnerInv
<1>2. UNCHANGED <<core, authority, stage, key, packets, connected, binding,
                  hubRef, hub, hubCall, alive>>
  BY DEF CloseNow
<1>3. /\ held' \subseteq held
      /\ \A o \in held : o \in held' \/ stage[o] \notin SessionStages
      /\ linked' \subseteq linked
  BY DEF CloseNow, SessionStages
<1>4. MediaTypeOK'
  <2>1. life' \in [Calls -> {"none", "live", "cancelled"}]
    BY <1>1 DEF CloseNow, MediaTypeOK
  <2>2. /\ held' \subseteq Owners /\ linked' \subseteq Owners \cup Hubs
        /\ ended' \subseteq Owners /\ table' \subseteq Hubs
    BY <1>1 DEF CloseNow, MediaTypeOK, OwnersOf
  <2>3. QED
    BY <1>1, <1>2, <2>1, <2>2 DEF MediaTypeOK
<1>5. OwnersAreHeld'
  BY <1>1, <1>2, <1>3 DEF OwnersAreHeld, MediaTypeOK
<1>6. OneOwnerPerCall'
  BY <1>1, <1>2, <1>3 DEF OneOwnerPerCall
<1>7. AliveIsTruth'
  <2>1. \A o \in Owners : o \in connected => (o \in held' <=> o \in held)
    BY <1>1, <1>3 DEF OwnersAreHeld
  <2>2. QED
    BY <1>1, <1>2, <1>3, <2>1 DEF AliveIsTruth, OwnersOf, MediaTypeOK
<1>8. HubsAreEntries'
  BY <1>1, <1>2 DEF CloseNow, HubsAreEntries, EntryOf, Unlinked
<1>9. QED
  BY <1>4, <1>5, <1>6, <1>7, <1>8 DEF MediaInv, CoreInv, OwnerInv

LEMMA MediaCloseKeeps ==
  ASSUME MediaAssumption, MediaInv,
         \/ \E c \in Calls : CloseCall(c) \/ SweepStep(c)
         \/ \E active \in SUBSET Calls : Snapshot(active)
         \/ BeginClose \/ FinishClose
  PROVE  CoreInv'
<1>1. MediaTypeOK /\ OwnersAreHeld /\ OneOwnerPerCall /\ AliveIsTruth /\ HubsAreEntries
  BY DEF MediaInv, CoreInv, OwnerInv
<1>2. ASSUME NEW c \in Calls, CloseCall(c) \/ SweepCall(c)
      PROVE  CoreInv'
  <2>1. CloseNow(c) /\ sweep' \in [Calls -> {"no", "stale", "closed"}]
    BY <1>1, <1>2 DEF CloseCall, SweepCall, MediaTypeOK
  <2>2. QED
    BY <2>1, CloseNowKeeps
<1>3. ASSUME \/ \E c \in Calls : DropLifetime(c)
             \/ \E active \in SUBSET Calls : Snapshot(active)
      PROVE  CoreInv'
  <2>1. UNCHANGED <<core, owner, linked, hubs, alive>>
    BY <1>3 DEF DropLifetime, Snapshot
  <2>2. MediaTypeOK'
    <3>1. /\ authority' \subseteq Calls
          /\ sweep' \in [Calls -> {"no", "stale", "closed"}]
          /\ life' \in [Calls -> {"none", "live", "cancelled"}]
      BY <1>1, <1>3 DEF DropLifetime, Snapshot, MediaTypeOK
    <3>2. QED
      BY <1>1, <2>1, <3>1 DEF MediaTypeOK, owner, hubs
  <2>3. OwnerInv'
    BY <2>1, OwnersUndisturbed DEF owner
  <2>4. HubsAreEntries'
    BY <2>1, HubsUndisturbed
  <2>5. QED
    BY <2>2, <2>3, <2>4 DEF MediaInv, CoreInv
<1>4. ASSUME BeginClose
      PROVE  CoreInv'
  <2>1. /\ UNCHANGED <<authority, sweep, stage, key, held, packets, connected,
                       binding, hubRef, hubs, alive>>
        /\ core' = "closing" /\ linked' = {} /\ ended' = held
        /\ life' \in [Calls -> {"none", "live", "cancelled"}]
    BY <1>1, <1>4 DEF BeginClose, MediaTypeOK
  <2>2. MediaTypeOK'
    BY <1>1, <2>1 DEF MediaTypeOK, hubs
  <2>3. OwnerInv' /\ HubsAreEntries'
    BY <2>1, OwnersUndisturbed, HubsUndisturbed
  <2>4. QED
    BY <2>2, <2>3 DEF MediaInv, CoreInv
<1>5. ASSUME FinishClose
      PROVE  CoreInv'
  <2>1. /\ UNCHANGED <<sweep, stage, key, ended, packets, connected, binding,
                       hubRef, linked, hub, hubCall, alive>>
        /\ core' = "closed" /\ held' = {} /\ table' = {} /\ authority' = {}
        /\ life' \in [Calls -> {"none", "live", "cancelled"}]
        /\ \A o \in Owners : stage[o] = "free"
        /\ \A h \in Hubs : hub[h] \notin {"opening", "opened"}
        /\ \A h \in table : hub[h] \in {"done", "failed"}
    BY <1>5 DEF FinishClose
  <2>2. MediaTypeOK'
    BY <1>1, <2>1 DEF MediaTypeOK
  <2>3. OwnersAreHeld' /\ OneOwnerPerCall'
    BY <1>1, <2>1 DEF OwnersAreHeld, OneOwnerPerCall, SessionStages
  <2>4. connected = {}
    BY <1>1, <2>1 DEF OwnersAreHeld, SessionStages, MediaTypeOK
  <2>5. AliveIsTruth'
    BY <1>1, <2>1, <2>4 DEF AliveIsTruth, OwnersOf
  <2>6. HubsAreEntries'
    BY <1>1, <2>1 DEF HubsAreEntries, Working
  <2>7. QED
    BY <2>2, <2>3, <2>5, <2>6 DEF MediaInv, CoreInv, OwnerInv
<1>6. QED
  BY <1>2, <1>3, <1>4, <1>5 DEF SweepStep

-----------------------------------------------------------------------------
(* Media: every behaviour                                                  *)

LEMMA MediaInvInit ==
  ASSUME MediaInit
  PROVE  MediaInv
<1>1. MediaTypeOK
  BY DEF MediaInit, MediaTypeOK, Stages, HubStages
<1>2. OwnerInv /\ HubsAreEntries
  BY DEF MediaInit, OwnerInv, OwnersAreHeld, OneOwnerPerCall, AliveIsTruth,
     OwnersOf, HubsAreEntries, SessionStages
<1>3. SweepInv
  BY DEF MediaInit, SweepInv
<1>4. QED
  BY <1>1, <1>2, <1>3 DEF MediaInv, CoreInv

\* Lifetimes are dropped by the sweep of a call that is not in the snapshot,
\* after its owners were cut off.
LEMMA SweepInvNext ==
  ASSUME MediaAssumption, MediaInv, [MediaNext]_mediaVars
  PROVE  SweepInv'
<1>1. MediaTypeOK /\ SweepInv
  BY DEF MediaInv, CoreInv
<1>2. ASSUME UNCHANGED <<authority, life, sweep, key>>,
             \A o \in Owners : o \in held' \cap linked' /\ key[o] # None
                                => o \in held \cap linked,
             held' \subseteq Owners
      PROVE  SweepInv'
  BY <1>1, <1>2 DEF SweepInv
<1>3. ASSUME NEW o \in Owners, NEW c \in Calls, Reserve(o, c) \/ Activate(o, c)
      PROVE  SweepInv'
  <2>1. /\ c \in authority /\ UNCHANGED <<authority, sweep>>
        /\ life' = [life EXCEPT ![c] = "live"]
        /\ key' = [key EXCEPT ![o] = c]
        /\ held' = held \cup {o} /\ linked' = linked \cup {o}
    BY <1>1, <1>3 DEF Reserve, Activate, Active
  <2>2. sweep[c] = "no" /\ c # None
    BY <1>1, <2>1 DEF SweepInv, MediaAssumption
  <2>3. ASSUME NEW p \in held' \cap linked', key'[p] # None
        PROVE  life'[key'[p]] # "none" /\ sweep'[key'[p]] # "closed"
    <3>1. CASE p = o
      BY <1>1, <2>1, <2>2, <3>1 DEF MediaTypeOK
    <3>2. CASE p # o
      <4>1. p \in held \cap linked /\ key'[p] = key[p] /\ p \in Owners
        BY <1>1, <2>1, <2>3, <3>2 DEF MediaTypeOK
      <4>2. life[key[p]] # "none" /\ sweep[key[p]] # "closed" /\ key[p] \in Calls
        BY <1>1, <2>3, <4>1 DEF SweepInv, MediaTypeOK
      <4>3. QED
        BY <1>1, <2>1, <4>1, <4>2 DEF MediaTypeOK
    <3>3. QED
      BY <3>1, <3>2
  <2>4. QED
    BY <1>1, <2>1, <2>3 DEF SweepInv
<1>4. ASSUME NEW o \in Owners,
             \/ \E h \in Hubs : AcquireHub(o, h) \/ BindHub(o, h)
             \/ CheckHub(o) \/ HubReady(o) \/ Commit(o) \/ BindStep(o)
             \/ FirstPacket(o) \/ NoticeConnected(o) \/ SessionStops(o)
             \/ SessionDone(o) \/ ReleaseOwner(o)
      PROVE  SweepInv'
  <2>1. /\ UNCHANGED <<authority, life, sweep, key, held>>
        /\ \A p \in Owners : p \in linked' => p \in linked
    BY <1>4 DEF AcquireHub, BindHub, CheckHub, HubReady, Commit, BindStep, Bound,
       BindFails, FirstPacket, NoticeConnected, SessionStops, SessionDone,
       ReleaseOwner, SessionOnly, MediaAssumption
  <2>2. QED
    BY <1>1, <1>2, <2>1 DEF MediaTypeOK
<1>5. ASSUME NEW o \in Owners, PrepareSocket(o)
      PROVE  SweepInv'
  <2>1. stage[o] = "free" => key[o] = None
    BY DEF MediaInv, CoreInv, OwnerInv, OwnersAreHeld
  <2>2. QED
    BY <1>1, <1>2, <1>5, <2>1 DEF PrepareSocket, MediaTypeOK
<1>6. ASSUME NEW o \in Owners, FailOpen(o) \/ RemoveOwner(o)
      PROVE  SweepInv'
  <2>1. /\ UNCHANGED <<authority, life, sweep>> /\ held' = held \ {o}
        /\ linked' = linked \ {o} /\ \A p \in Owners \ {o} : key'[p] = key[p]
    BY <1>1, <1>6 DEF FailOpen, RemoveOwner, FreeOwner, MediaTypeOK
  <2>2. QED
    BY <1>1, <2>1 DEF SweepInv, MediaTypeOK
<1>7. ASSUME NEW h \in Hubs,
             \/ \E c \in Calls : Subscribe(c, h)
             \/ HubStep(h) \/ HubStops(h) \/ ReuseHub(h)
      PROVE  SweepInv'
  <2>1. CASE \E c \in Calls : Subscribe(c, h)
    <3>1. /\ UNCHANGED <<authority, sweep, key, held>>
          /\ linked' = linked \cup {h}
          /\ \A c \in Calls : life[c] # "none" => life'[c] # "none"
      BY <1>1, <2>1 DEF Subscribe, owner, MediaTypeOK
    <3>2. QED
      BY <1>1, <3>1 DEF SweepInv, MediaTypeOK, MediaAssumption
  <2>2. CASE HubStep(h) \/ HubStops(h) \/ ReuseHub(h)
    <3>1. UNCHANGED <<authority, life, sweep, key, held>> /\ linked' \subseteq linked
      BY <2>2 DEF HubStep, OpenReturns, PublishHub, HubDone, HubStops, ReuseHub,
         HubOnly, owner
    <3>2. QED
      BY <1>1, <1>2, <3>1 DEF MediaTypeOK
  <2>3. QED
    BY <1>7, <2>1, <2>2
<1>8. ASSUME NEW c \in Calls, CloseCall(c) \/ SweepCall(c)
      PROVE  SweepInv'
  <2>1. /\ CloseNow(c) /\ UNCHANGED <<authority, key>>
        /\ held' \subseteq held /\ linked' = linked \ Unlinked(c)
        /\ \A d \in Calls : life[d] # "none" => life'[d] # "none"
    BY <1>1, <1>8 DEF CloseCall, SweepCall, CloseNow, MediaTypeOK
  <2>2. /\ \A d \in Calls \ {c} : sweep'[d] = sweep[d]
        /\ sweep'[c] # "no" => sweep[c] # "no"
    BY <1>1, <1>8 DEF CloseCall, SweepCall, MediaTypeOK
  <2>3. \A o \in Owners : key[o] = c => o \notin linked'
    BY <2>1 DEF Unlinked
  <2>4. QED
    BY <1>1, <2>1, <2>2, <2>3 DEF SweepInv, MediaTypeOK
<1>9. ASSUME NEW c \in Calls, DropLifetime(c)
      PROVE  SweepInv'
  BY <1>1, <1>9 DEF DropLifetime, SweepInv, owner, MediaTypeOK
<1>10. ASSUME NEW active \in SUBSET Calls, Snapshot(active)
       PROVE  SweepInv'
  BY <1>1, <1>10 DEF Snapshot, SweepInv, owner, MediaTypeOK
<1>11. CASE BeginClose
  BY <1>1, <1>11 DEF BeginClose, SweepInv, MediaTypeOK
<1>12. CASE FinishClose
  BY <1>1, <1>12 DEF FinishClose, SweepInv, MediaTypeOK
<1>13. CASE UNCHANGED mediaVars
  BY <1>1, <1>13 DEF mediaVars, owner, SweepInv
<1>14. QED
  BY <1>3, <1>4, <1>5, <1>6, <1>7, <1>8, <1>9, <1>10, <1>11, <1>12, <1>13
     DEF MediaNext, OpenStep, BindStep, SessionEnds, SweepStep

LEMMA MediaInvNext ==
  ASSUME MediaAssumption, MediaInv, [MediaNext]_mediaVars
  PROVE  MediaInv'
<1>1. ASSUME UNCHANGED mediaVars
      PROVE  CoreInv'
  <2>1. MediaTypeOK'
    BY <1>1 DEF mediaVars, MediaInv, CoreInv, MediaTypeOK, owner, hubs
  <2>2. OwnerInv' /\ HubsAreEntries'
    BY <1>1, OwnersUndisturbed, HubsUndisturbed DEF mediaVars, owner
  <2>3. QED
    BY <2>1, <2>2 DEF MediaInv, CoreInv
<1>2. ASSUME NEW o \in Owners,
             \/ \E c \in Calls : Reserve(o, c) \/ Activate(o, c)
             \/ \E h \in Hubs : AcquireHub(o, h) \/ BindHub(o, h)
             \/ OpenStep(o) \/ PrepareSocket(o) \/ BindStep(o)
             \/ FirstPacket(o) \/ NoticeConnected(o) \/ SessionStops(o)
             \/ SessionEnds(o) \/ ReleaseOwner(o)
      PROVE  CoreInv'
  BY <1>2, ReserveKeeps, AcquireKeeps, OwnerStepKeeps, FreeKeeps, SessionKeeps
     DEF OpenStep, BindStep, SessionEnds
<1>3. ASSUME MediaNext
      PROVE  CoreInv'
  BY <1>2, <1>3, HubStepKeeps, MediaCloseKeeps DEF MediaNext
<1>4. CoreInv'
  BY <1>1, <1>3
<1>5. QED
  BY <1>4, SweepInvNext DEF MediaInv

-----------------------------------------------------------------------------
(* Media: what the invariant says                                          *)

\* A call's working hubs in one lifetime are its one entry of the table, so
\* they are at most one.
LEMMA OneWorkingHub ==
  ASSUME MediaInv
  PROVE  OneHubPerCall
<1>1. SUFFICES ASSUME NEW c \in Calls
               PROVE  Cardinality({h \in Hubs : hubCall[h] = c /\ h \in linked
                         /\ hub[h] \in {"opening", "opened", "running"}}) <= 1
  BY DEF OneHubPerCall
<1> DEFINE W == {h \in Hubs : hubCall[h] = c /\ h \in linked
                         /\ hub[h] \in {"opening", "opened", "running"}}
<1>2. \A h, k \in W : h = k
  BY DEF MediaInv, CoreInv, HubsAreEntries, Working
<1> HIDE DEF W
<1>3. CASE W = {}
  BY <1>3, FS_EmptySet DEF W
<1>4. CASE W # {}
  <2>1. PICK h : h \in W
    BY <1>4
  <2>2. W = {h}
    BY <1>2, <2>1
  <2>3. Cardinality(W) = 1
    BY <2>2, FS_Singleton
  <2>4. QED
    BY <2>3 DEF W
<1>5. QED
  BY <1>3, <1>4

\* What was last said of a call's media is what its owner has, a call has one
\* hub at work, and a session that runs is an owner (Core.mu, core.go).
LEMMA MediaInvImplies ==
  ASSUME MediaInv
  PROVE  MediaIsTrue
<1>1. AliveIsTruth /\ SessionIsOwner
  BY DEF MediaInv, CoreInv, OwnerInv, OwnersAreHeld, SessionIsOwner, SessionStages
<1>2. QED
  BY <1>1, OneWorkingHub DEF MediaIsTrue

\* In every behaviour of the core, for any number of calls, owners and hubs.
THEOREM MediaSafety == ASSUME MediaAssumption PROVE MediaSpec => []MediaIsTrue
<1>1. MediaSpec => []MediaInv
  BY MediaInvInit, MediaInvNext, PTL DEF MediaSpec
<1>2. QED
  BY <1>1, MediaInvImplies, PTL

-----------------------------------------------------------------------------
(***************************************************************************)
(* The Telegram bot of a unit                                              *)
(***************************************************************************)

\* What the proofs need of the constants: the updates have a last number, and
\* the absence of a value is none.
BotAssumption ==
  /\ MaxUpdate \in Nat /\ Last \in [Bots -> 0..MaxUpdate]
  /\ None \notin Bots \cup Journal
  /\ None \notin [bot : Bots, on : BOOLEAN, offset : 0..MaxUpdate + 1]

-----------------------------------------------------------------------------
(* Bot: the inductive invariant                                            *)

\* Every update of the bot below the number was handled.
HandledBelow(b, n) == \A u \in Updates : u < n => u \in handled[b]

\* The SMS of an update is journalled before it is sent, once.
SmsIsJournalled ==
  /\ \A b \in Bots, u \in Updates :
       texted[b][u] <= 1 /\ (sms[b][u] = None => texted[b][u] = 0)
  /\ poller.step = "send" =>
       /\ poller.batch # {}
       /\ sms[poller.bot][Current(poller.batch)] # None
       /\ texted[poller.bot][Current(poller.batch)] = 0

\* A goroutine has a bot; a switch waits for the one it cancelled.
PollerIsManaged ==
  /\ PollerRuns => poller.bot \in Bots
  /\ manager.step = "switching" => poller.cancelled \/ ~PollerRuns
  /\ poller.step = "advance" =>
       poller.batch # {} /\ Current(poller.batch) \in handled[poller.bot]
  /\ edit # None => edit.bot = botUnit.bot /\ edit.offset <= botUnit.offset

\* Until a poller writes into another bot's row, an offset is below what its bot
\* still has to handle: the stored one, the one a poller will read or has, and
\* that of the batch.
OffsetsFollowHandling ==
  /\ botUnit.bot \in Bots => HandledBelow(botUnit.bot, botUnit.offset)
  /\ manager.step = "switching" /\ manager.want \in Bots /\ botUnit.bot \in Bots =>
       HandledBelow(manager.want, botUnit.offset)
  /\ poller.step = "load" /\ ~poller.cancelled /\ botUnit.bot \in Bots =>
       HandledBelow(poller.bot, botUnit.offset)
  /\ PollerRuns => HandledBelow(poller.bot, poller.next)
  /\ PollerRuns => \A w \in poller.batch, v \in Updates \ poller.batch :
                     v < w => v \in handled[poller.bot]

BotInv ==
  /\ BotTypeOK /\ SmsIsJournalled /\ PollerIsManaged
  /\ ForgottenWasHandled /\ (crossed \/ OffsetsFollowHandling)

-----------------------------------------------------------------------------
(* Bot: numbers                                                            *)

\* A set of numbers has a least one.
LEMMA NatMin ==
  ASSUME NEW T \in SUBSET Nat, T # {}
  PROVE  Min(T) \in T /\ \A y \in T : Min(T) <= y
<1> DEFINE R == OpToRel(<, Nat)
<1>1. IsWellFoundedOn(R, Nat)
  BY NatLessThanWellFounded
<1>2. \A x, y \in Nat : <<y, x>> \in R <=> y < x
  BY DEF OpToRel
<1> HIDE DEF R
<1>3. \E x \in T : \A y \in T : ~ (<<y, x>> \in R)
  BY <1>1, WFMin
<1>4. PICK x \in T : \A y \in T : ~ (<<y, x>> \in R)
  BY <1>3
<1>5. \A y \in T : ~ (y < x)
  BY <1>2, <1>4
<1>6. \A y \in T : x <= y
  BY <1>5
<1>7. QED
  BY <1>6 DEF Min

LEMMA CurrentIsLeast ==
  ASSUME BotAssumption, NEW T \in SUBSET Updates, T # {}
  PROVE  /\ Current(T) \in T /\ Current(T) \in 1..MaxUpdate
         /\ \A y \in T : Current(T) <= y
BY NatMin DEF Current, Updates, BotAssumption

LEMMA TwoMax ==
  ASSUME NEW m \in Nat, NEW n \in Nat
  PROVE  Max({m, n}) = IF m >= n THEN m ELSE n
BY DEF Max

-----------------------------------------------------------------------------
(* Bot: settings                                                           *)

LEMMA SettingsKeep ==
  ASSUME BotAssumption, BotInv, ReadUnit \/ WriteUnit \/ DeleteUnit
  PROVE  BotInv'
<1>1. /\ BotTypeOK /\ SmsIsJournalled /\ PollerIsManaged
      /\ ForgottenWasHandled /\ (crossed \/ OffsetsFollowHandling)
  BY DEF BotInv
<1>2. UNCHANGED <<poller, sms, texted, handled, arrived, confirmed, crossed>>
  BY DEF ReadUnit, WriteUnit, DeleteUnit, durable, telegram
<1>3. manager' \in [due : BOOLEAN, step : {"idle", "switching"}, want : Bots \cup {None}]
      /\ manager'.step = manager.step /\ manager'.want = manager.want
  <2> DEFINE yes == TRUE
  <2>1. manager' \in {manager, [manager EXCEPT !.due = yes]} /\ yes \in BOOLEAN
    BY DEF ReadUnit, WriteUnit, DeleteUnit
  <2> HIDE DEF yes
  <2>2. QED
    BY <1>1, <2>1 DEF BotTypeOK
<1>4. SmsIsJournalled' /\ ForgottenWasHandled'
  BY <1>1, <1>2 DEF SmsIsJournalled, ForgottenWasHandled
<1>5. \A b : \A m, n \in Nat : m <= n /\ HandledBelow(b, n) => HandledBelow(b, m)
  BY BotAssumption DEF HandledBelow, Updates, BotAssumption
<1>6. \A b : HandledBelow(b, 0) /\ HandledBelow(b, 0)'
  BY BotAssumption DEF HandledBelow, Updates, BotAssumption
<1>7. botUnit.offset \in Nat
  BY <1>1, BotAssumption DEF BotTypeOK, BotAssumption
<1>8. CASE ReadUnit
  <2>1. edit' = botUnit /\ UNCHANGED <<botUnit, manager>> /\ botUnit.bot \in Bots
    BY <1>1, <1>8 DEF ReadUnit, BotTypeOK
  <2>2. edit' \in [bot : Bots, on : BOOLEAN, offset : 0..MaxUpdate + 1]
    BY <1>1, <2>1 DEF BotTypeOK
  <2>3. BotTypeOK'
    BY <1>1, <1>2, <2>1, <2>2 DEF BotTypeOK
  <2>4. PollerIsManaged'
    BY <1>1, <1>2, <1>7, <2>1 DEF PollerIsManaged, PollerRuns
  <2>5. crossed' \/ OffsetsFollowHandling'
    BY <1>1, <1>2, <2>1 DEF OffsetsFollowHandling, HandledBelow, PollerRuns
  <2>6. QED
    BY <1>4, <2>3, <2>4, <2>5 DEF BotInv
<1>9. CASE WriteUnit
  <2>1. /\ edit # None /\ edit' = None
        /\ edit \in [bot : Bots, on : BOOLEAN, offset : 0..MaxUpdate + 1]
        /\ edit.bot = botUnit.bot /\ edit.offset <= botUnit.offset
    BY <1>1, <1>9 DEF WriteUnit, BotTypeOK, PollerIsManaged
  <2>2. /\ botUnit' \in [bot : Bots \cup {None}, on : BOOLEAN, offset : 0..MaxUpdate + 1]
        /\ \/ botUnit'.bot = botUnit.bot /\ botUnit'.offset = edit.offset
           \/ botUnit'.offset = 0
    <3>1. CASE \E on \in BOOLEAN : botUnit' = [edit EXCEPT !.on = on]
      BY <2>1, <3>1
    <3>2. CASE \E on \in BOOLEAN, b \in Bots : botUnit' = [bot |-> b, on |-> on, offset |-> 0]
      BY <3>2, BotAssumption DEF BotAssumption
    <3>3. QED
      BY <1>9, <3>1, <3>2 DEF WriteUnit
  <2>3. BotTypeOK'
    BY <1>1, <1>2, <1>3, <2>1, <2>2 DEF BotTypeOK
  <2>4. PollerIsManaged'
    BY <1>1, <1>2, <1>3, <2>1 DEF PollerIsManaged, PollerRuns
  <2>5. \A b : HandledBelow(b, botUnit.offset) => HandledBelow(b, botUnit'.offset)
    BY <1>5, <1>6, <1>7, <2>1, <2>2, BotAssumption DEF BotAssumption
  <2>6. \A b, n : HandledBelow(b, n)' <=> HandledBelow(b, n')
    BY <1>2 DEF HandledBelow
  <2>7. ASSUME OffsetsFollowHandling
        PROVE  OffsetsFollowHandling'
    <3>1. botUnit'.bot \in Bots => HandledBelow(botUnit'.bot, botUnit'.offset)
      BY <1>6, <2>2, <2>5, <2>7 DEF OffsetsFollowHandling
    <3>2. botUnit.bot \in Bots
      BY <2>1
    <3>3. /\ manager'.step = "switching" /\ manager'.want \in Bots =>
               HandledBelow(manager'.want, botUnit'.offset)
          /\ poller'.step = "load" /\ ~poller'.cancelled =>
               HandledBelow(poller'.bot, botUnit'.offset)
      BY <1>2, <1>3, <2>5, <2>7, <3>2 DEF OffsetsFollowHandling
    <3>4. QED
      BY <1>2, <2>7, <3>1, <3>3 DEF OffsetsFollowHandling, PollerRuns, HandledBelow
  <2>8. QED
    BY <1>1, <1>2, <1>4, <2>3, <2>4, <2>7 DEF BotInv
<1>10. CASE DeleteUnit
  <2>1. edit' = None /\ botUnit' = [botUnit EXCEPT !.bot = None, !.on = FALSE]
    BY <1>10 DEF DeleteUnit
  <2>2. /\ botUnit'.bot = None
        /\ botUnit' \in [bot : Bots \cup {None}, on : BOOLEAN, offset : 0..MaxUpdate + 1]
    <3> DEFINE no == FALSE
    <3>1. botUnit' = [botUnit EXCEPT !.bot = None, !.on = no] /\ no \in BOOLEAN
      BY <2>1
    <3> HIDE DEF no
    <3>2. QED
      BY <1>1, <3>1 DEF BotTypeOK
  <2>3. BotTypeOK'
    BY <1>1, <1>2, <1>3, <2>1, <2>2 DEF BotTypeOK
  <2>4. PollerIsManaged'
    BY <1>1, <1>2, <1>3, <2>1 DEF PollerIsManaged, PollerRuns
  <2>5. crossed' \/ OffsetsFollowHandling'
    BY <1>1, <1>2, <2>2, BotAssumption
       DEF OffsetsFollowHandling, HandledBelow, PollerRuns, BotAssumption
  <2>6. QED
    BY <1>4, <2>3, <2>4, <2>5 DEF BotInv
<1>11. QED
  BY <1>8, <1>9, <1>10

-----------------------------------------------------------------------------
(* Manager                                                                 *)

LEMMA ManagerKeeps ==
  ASSUME BotAssumption, BotInv, ReconcileUnit \/ StartPoller
  PROVE  BotInv'
<1>1. /\ BotTypeOK /\ SmsIsJournalled /\ PollerIsManaged
      /\ ForgottenWasHandled /\ (crossed \/ OffsetsFollowHandling)
  BY DEF BotInv
<1>2. UNCHANGED <<botUnit, edit, sms, texted, handled, arrived, confirmed, crossed>>
  BY DEF ReconcileUnit, StartPoller, durable, telegram
<1>3. ForgottenWasHandled'
  BY <1>1, <1>2 DEF ForgottenWasHandled
<1> DEFINE yes == TRUE
           no == FALSE
<1>4. yes \in BOOLEAN /\ no \in BOOLEAN /\ yes /\ ~no
  OBVIOUS
<1>5. Wanted \in Bots \cup {None} /\ (Wanted \in Bots => Wanted = botUnit.bot)
  BY <1>1, BotAssumption DEF Wanted, BotTypeOK, BotAssumption
<1>6. CASE ReconcileUnit
  <2>1. \/ manager' = [manager EXCEPT !.due = no] /\ UNCHANGED poller
        \/ /\ manager' = [due |-> no, step |-> "switching", want |-> Wanted]
           /\ poller' = IF PollerRuns THEN [poller EXCEPT !.cancelled = yes] ELSE poller
    BY <1>6 DEF ReconcileUnit
  <2>2. manager.step = "idle"
    BY <1>6 DEF ReconcileUnit
  <2> HIDE DEF yes, no
  <2>3. /\ manager' \in [due : BOOLEAN, step : {"idle", "switching"}, want : Bots \cup {None}]
        /\ manager'.step = "switching" => manager'.want = Wanted
    <3>1. manager \in [due : BOOLEAN, step : {"idle", "switching"}, want : Bots \cup {None}]
      BY <1>1 DEF BotTypeOK
    <3>2. CASE manager' = [manager EXCEPT !.due = no]
      BY <1>4, <2>2, <3>1, <3>2
    <3>3. CASE manager' = [due |-> no, step |-> "switching", want |-> Wanted]
      BY <1>4, <1>5, <3>3
    <3>4. QED
      BY <2>1, <3>2, <3>3
  <2>4. /\ poller' \in [step : {"off", "load", "poll", "pick", "send", "advance", "done"},
                 bot : Bots \cup {None}, next : 0..MaxUpdate + 1,
                 batch : SUBSET Updates, cancelled : BOOLEAN]
        /\ poller'.step = poller.step /\ poller'.bot = poller.bot
        /\ poller'.next = poller.next /\ poller'.batch = poller.batch
        /\ poller'.cancelled = poller.cancelled \/ poller'.cancelled
        /\ manager'.step = "switching" => poller'.cancelled \/ ~PollerRuns
    BY <1>1, <1>4, <2>1, <2>2 DEF BotTypeOK
  <2>5. BotTypeOK'
    BY <1>1, <1>2, <2>3, <2>4 DEF BotTypeOK
  <2>6. SmsIsJournalled'
    BY <1>1, <1>2, <2>4 DEF SmsIsJournalled
  <2>7. PollerIsManaged'
    BY <1>1, <1>2, <2>4 DEF PollerIsManaged, PollerRuns
  <2>8. crossed' \/ OffsetsFollowHandling'
    BY <1>1, <1>2, <1>5, <2>3, <2>4 DEF OffsetsFollowHandling, HandledBelow, PollerRuns
  <2>9. QED
    BY <1>3, <2>5, <2>6, <2>7, <2>8 DEF BotInv
<1>7. CASE StartPoller
  <2>1. manager.step = "switching" /\ ~PollerRuns
    BY <1>7 DEF StartPoller
  <2>2. NoPoller \in [step : {"off", "load", "poll", "pick", "send", "advance", "done"},
                 bot : Bots \cup {None}, next : 0..MaxUpdate + 1,
                 batch : SUBSET Updates, cancelled : BOOLEAN]
        /\ NoPoller.next = 0 /\ NoPoller.batch = {} /\ NoPoller.step = "off"
    BY BotAssumption DEF NoPoller, BotAssumption
  <2>3. /\ manager' \in [due : BOOLEAN, step : {"idle", "switching"}, want : Bots \cup {None}]
        /\ manager'.step = "idle"
        /\ poller' \in [step : {"off", "load", "poll", "pick", "send", "advance", "done"},
                 bot : Bots \cup {None}, next : 0..MaxUpdate + 1,
                 batch : SUBSET Updates, cancelled : BOOLEAN]
        /\ poller'.next = 0 /\ poller'.batch = {}
        /\ poller'.step \in {"off", "load"}
        /\ poller'.step = "load" => manager.want \in Bots /\ poller'.bot = manager.want
    <3>1. CASE /\ manager.want # None
               /\ poller' = [NoPoller EXCEPT !.step = "load", !.bot = manager.want]
               /\ manager' = [manager EXCEPT !.step = "idle", !.want = None]
      BY <1>1, <2>2, <3>1 DEF BotTypeOK
    <3>2. CASE /\ poller' = NoPoller
               /\ \E retry \in BOOLEAN :
                    manager' = [due |-> manager.due \/ retry, step |-> "idle", want |-> None]
      <4>1. PICK retry \in BOOLEAN :
                    manager' = [due |-> manager.due \/ retry, step |-> "idle", want |-> None]
        BY <3>2
      <4> DEFINE due == manager.due \/ retry
      <4>2. due \in BOOLEAN
        OBVIOUS
      <4>3. manager' = [due |-> due, step |-> "idle", want |-> None]
        BY <4>1
      <4> HIDE DEF due
      <4>4. QED
        BY <2>2, <3>2, <4>2, <4>3
    <3>3. QED
      BY <1>7, <3>1, <3>2 DEF StartPoller
  <2>4. BotTypeOK'
    BY <1>1, <1>2, <2>3 DEF BotTypeOK
  <2>5. SmsIsJournalled'
    BY <1>1, <1>2, <2>3 DEF SmsIsJournalled
  <2>6. PollerIsManaged'
    BY <1>1, <1>2, <2>3 DEF PollerIsManaged, PollerRuns
  <2>7. \A b : HandledBelow(b, 0)'
    BY BotAssumption DEF HandledBelow, Updates, BotAssumption
  <2>8. crossed' \/ OffsetsFollowHandling'
    BY <1>1, <1>2, <2>1, <2>3, <2>7 DEF OffsetsFollowHandling, HandledBelow, PollerRuns
  <2>9. QED
    BY <1>3, <2>4, <2>5, <2>6, <2>8 DEF BotInv
<1>8. QED
  BY <1>6, <1>7

-----------------------------------------------------------------------------
(* Poller                                                                  *)

PollerRecord == [step : {"off", "load", "poll", "pick", "send", "advance", "done"},
                 bot : Bots \cup {None}, next : 0..MaxUpdate + 1,
                 batch : SUBSET Updates, cancelled : BOOLEAN]

\* The offset a poller starts with is its bot's.
LEMMA LoadOffsetKeeps ==
  ASSUME BotAssumption, BotInv, LoadOffset
  PROVE  BotInv'
<1>1. /\ BotTypeOK /\ SmsIsJournalled /\ PollerIsManaged
      /\ ForgottenWasHandled /\ (crossed \/ OffsetsFollowHandling)
  BY DEF BotInv
<1>2. /\ UNCHANGED <<botUnit, edit, manager, sms, texted, handled, arrived,
                    confirmed, crossed>>
      /\ poller.step = "load"
  BY DEF LoadOffset, durable, telegram
<1>3. /\ poller' \in PollerRecord /\ poller'.bot = poller.bot
      /\ poller'.batch = poller.batch /\ poller'.cancelled = poller.cancelled
      /\ \/ poller'.step = "done" /\ poller'.next = poller.next
         \/ /\ poller'.step = "poll" /\ poller'.next = botUnit.offset
            /\ ~poller.cancelled /\ botUnit.bot # None
  BY <1>1 DEF LoadOffset, BotTypeOK, PollerRecord
<1>4. BotTypeOK'
  BY <1>1, <1>2, <1>3 DEF BotTypeOK, PollerRecord
<1>5. SmsIsJournalled' /\ ForgottenWasHandled'
  BY <1>1, <1>2, <1>3 DEF SmsIsJournalled, ForgottenWasHandled
<1>6. PollerIsManaged'
  BY <1>1, <1>2, <1>3 DEF PollerIsManaged, PollerRuns
<1>7. crossed' \/ OffsetsFollowHandling'
  <2>1. botUnit.bot \in Bots \/ botUnit.bot = None
    BY <1>1 DEF BotTypeOK
  <2>2. QED
    BY <1>1, <1>2, <1>3, <2>1 DEF OffsetsFollowHandling, HandledBelow, PollerRuns
<1>8. QED
  BY <1>4, <1>5, <1>6, <1>7 DEF BotInv

\* A request confirms only what was handled.
LEMMA GetUpdatesKeeps ==
  ASSUME BotAssumption, BotInv, GetUpdates
  PROVE  BotInv'
<1>1. /\ BotTypeOK /\ SmsIsJournalled /\ PollerIsManaged
      /\ ForgottenWasHandled /\ (crossed \/ OffsetsFollowHandling)
  BY DEF BotInv
<1>2. /\ UNCHANGED <<botUnit, edit, manager, sms, texted, handled, arrived, crossed>>
      /\ poller.step = "poll" /\ PollerRuns /\ poller.bot \in Bots
      /\ MaxUpdate \in Nat
  BY <1>1, BotAssumption DEF GetUpdates, durable, PollerRuns, PollerIsManaged, BotAssumption
<1> DEFINE low == Max({confirmed[poller.bot], poller.next})
           left == {u \in 1..arrived[poller.bot] : u >= low}
<1>3. /\ low \in 0..MaxUpdate + 1
      /\ low = confirmed[poller.bot] \/ low = poller.next
  <2>1. /\ confirmed[poller.bot] \in 0..MaxUpdate + 1
        /\ poller.next \in 0..MaxUpdate + 1
    BY <1>1, <1>2 DEF BotTypeOK
  <2>2. QED
    BY <1>2, <2>1, TwoMax
<1>4. left \in SUBSET Updates
      /\ \A w \in left, v \in Updates \ left : v < w => v < low
  <2>1. arrived[poller.bot] \in 0..MaxUpdate
    BY <1>1, <1>2 DEF BotTypeOK
  <2>2. QED
    BY <1>2, <1>3, <2>1 DEF Updates
<1> HIDE DEF low, left
<1>5. \/ /\ UNCHANGED confirmed /\ poller' = [poller EXCEPT !.step = "done"]
      \/ /\ confirmed' = [confirmed EXCEPT ![poller.bot] = low]
         /\ poller' \in { [poller EXCEPT !.step = "pick", !.batch = left],
                          poller, [poller EXCEPT !.step = "done"] }
  BY DEF GetUpdates, low, left
<1>6. /\ poller' \in PollerRecord /\ poller'.bot = poller.bot
      /\ poller'.next = poller.next /\ poller'.cancelled = poller.cancelled
      /\ \/ poller'.step = "done"
         \/ poller' = poller /\ confirmed' = [confirmed EXCEPT ![poller.bot] = low]
         \/ /\ poller'.step = "pick" /\ poller'.batch = left
            /\ confirmed' = [confirmed EXCEPT ![poller.bot] = low]
  <2>1. poller \in PollerRecord
    BY <1>1 DEF BotTypeOK, PollerRecord
  <2>2. CASE poller' = [poller EXCEPT !.step = "done"]
    BY <2>1, <2>2 DEF PollerRecord
  <2>3. CASE /\ confirmed' = [confirmed EXCEPT ![poller.bot] = low]
             /\ poller' = poller
    BY <2>1, <2>3
  <2>4. CASE /\ confirmed' = [confirmed EXCEPT ![poller.bot] = low]
             /\ poller' = [poller EXCEPT !.step = "pick", !.batch = left]
    BY <1>4, <2>1, <2>4 DEF PollerRecord
  <2>5. QED
    BY <1>5, <2>2, <2>3, <2>4
<1>7. /\ confirmed' \in [Bots -> 0..MaxUpdate + 1]
      /\ \A b \in Bots \ {poller.bot} : confirmed'[b] = confirmed[b]
      /\ confirmed'[poller.bot] \in {low, confirmed[poller.bot]}
      /\ poller'.step = "pick" => confirmed'[poller.bot] = low
  BY <1>1, <1>2, <1>3, <1>5, <1>6 DEF BotTypeOK
<1>8. BotTypeOK'
  BY <1>1, <1>2, <1>6, <1>7 DEF BotTypeOK, PollerRecord
<1>9. SmsIsJournalled'
  BY <1>1, <1>2, <1>6 DEF SmsIsJournalled
<1>10. PollerIsManaged'
  BY <1>1, <1>2, <1>6 DEF PollerIsManaged, PollerRuns
<1>11. ~crossed => \A v \in Updates : v < low => v \in handled[poller.bot]
  BY <1>1, <1>2, <1>3 DEF ForgottenWasHandled, OffsetsFollowHandling, HandledBelow
<1>12. ForgottenWasHandled'
  BY <1>1, <1>2, <1>7, <1>11 DEF ForgottenWasHandled
<1>13. crossed' \/ OffsetsFollowHandling'
  BY <1>1, <1>2, <1>4, <1>6, <1>11 DEF OffsetsFollowHandling, HandledBelow, PollerRuns
<1>14. QED
  BY <1>8, <1>9, <1>10, <1>12, <1>13 DEF BotInv

\* An update ends without an SMS, or its SMS is journalled, once.
LEMMA HandleUpdateKeeps ==
  ASSUME BotAssumption, BotInv, HandleUpdate
  PROVE  BotInv'
<1>1. /\ BotTypeOK /\ SmsIsJournalled /\ PollerIsManaged
      /\ ForgottenWasHandled /\ (crossed \/ OffsetsFollowHandling)
  BY DEF BotInv
<1>2. /\ UNCHANGED <<botUnit, edit, manager, texted, arrived, confirmed, crossed>>
      /\ poller.step = "pick" /\ poller.batch # {} /\ PollerRuns /\ poller.bot \in Bots
  BY <1>1 DEF HandleUpdate, telegram, PollerRuns, PollerIsManaged
<1> DEFINE u == Current(poller.batch)
           b == poller.bot
<1>3. u \in Updates /\ poller \in PollerRecord
  BY <1>1, <1>2, CurrentIsLeast DEF BotTypeOK, PollerRecord
<1>4. \/ /\ handled' = [handled EXCEPT ![b] = @ \cup {u}] /\ UNCHANGED sms
         /\ poller' = [poller EXCEPT !.step = "advance"]
      \/ /\ sms[b][u] = None /\ UNCHANGED handled
         /\ sms' = [sms EXCEPT ![b][u] = "pending"]
         /\ poller' = [poller EXCEPT !.step = "send"]
  BY DEF HandleUpdate, Done, Unused
<1> HIDE DEF u, b
<1>5. /\ poller' \in PollerRecord /\ poller'.bot = poller.bot
      /\ poller'.next = poller.next /\ poller'.cancelled = poller.cancelled
      /\ poller'.batch = poller.batch
      /\ \/ poller'.step = "advance" /\ u \in handled'[b]
         \/ poller'.step = "send" /\ UNCHANGED handled
  BY <1>1, <1>2, <1>3, <1>4 DEF BotTypeOK, PollerRecord, b
<1>6. /\ handled' \in [Bots -> SUBSET Updates]
      /\ \A c \in Bots : handled[c] \subseteq handled'[c]
  <2>1. handled \in [Bots -> SUBSET Updates] /\ b \in Bots
    BY <1>1, <1>2 DEF BotTypeOK, b
  <2>2. CASE handled' = [handled EXCEPT ![b] = @ \cup {u}]
    BY <1>3, <2>1, <2>2
  <2>3. CASE UNCHANGED handled
    BY <2>1, <2>3
  <2>4. QED
    BY <1>4, <2>2, <2>3
<1>7. /\ sms' \in [Bots -> [Updates -> Journal \cup {None}]]
      /\ \A c \in Bots, v \in Updates : sms'[c][v] = None => sms[c][v] = None
      /\ poller'.step = "send" => sms'[b][u] # None /\ texted[b][u] = 0
  <2>1. CASE UNCHANGED sms /\ poller' = [poller EXCEPT !.step = "advance"]
    BY <1>1, <1>3, <2>1 DEF BotTypeOK, PollerRecord
  <2>2. CASE sms[b][u] = None /\ sms' = [sms EXCEPT ![b][u] = "pending"]
    BY <1>1, <1>2, <1>3, <2>2, BotAssumption
       DEF BotTypeOK, Journal, SmsIsJournalled, BotAssumption, b
  <2>3. QED
    BY <1>4, <2>1, <2>2
<1>8. BotTypeOK'
  BY <1>1, <1>2, <1>5, <1>6, <1>7 DEF BotTypeOK, PollerRecord
<1>9. SmsIsJournalled'
  BY <1>1, <1>2, <1>5, <1>7 DEF SmsIsJournalled, u, b
<1>10. PollerIsManaged'
  BY <1>1, <1>2, <1>5 DEF PollerIsManaged, PollerRuns, u, b
<1>11. ForgottenWasHandled'
  BY <1>1, <1>2, <1>6 DEF ForgottenWasHandled
<1>12. crossed' \/ OffsetsFollowHandling'
  <2>1. \A c \in Bots : \A n : HandledBelow(c, n) => \A v \in Updates : v < n => v \in handled'[c]
    BY <1>6 DEF HandledBelow
  <2>2. QED
    BY <1>1, <1>2, <1>5, <1>6, <2>1 DEF OffsetsFollowHandling, HandledBelow, PollerRuns
<1>13. QED
  BY <1>8, <1>9, <1>10, <1>11, <1>12 DEF BotInv

\* The journalled SMS reaches the modem or not, once.
LEMMA SendSmsKeeps ==
  ASSUME BotAssumption, BotInv, SendSms
  PROVE  BotInv'
<1>1. /\ BotTypeOK /\ SmsIsJournalled /\ PollerIsManaged
      /\ ForgottenWasHandled /\ (crossed \/ OffsetsFollowHandling)
  BY DEF BotInv
<1>2. /\ UNCHANGED <<botUnit, edit, manager, arrived, confirmed, crossed>>
      /\ poller.step = "send" /\ poller.batch # {} /\ PollerRuns /\ poller.bot \in Bots
      /\ poller' = [poller EXCEPT !.step = "advance"]
  BY <1>1 DEF SendSms, telegram, PollerRuns, PollerIsManaged, SmsIsJournalled
<1> DEFINE u == Current(poller.batch)
           b == poller.bot
<1>3. u \in Updates /\ poller \in PollerRecord /\ texted[b][u] = 0
  BY <1>1, <1>2, CurrentIsLeast DEF BotTypeOK, PollerRecord, SmsIsJournalled
<1>4. handled' = [handled EXCEPT ![b] = @ \cup {u}]
  BY DEF SendSms, Done
<1>5. PICK reached \in BOOLEAN, result \in Journal :
        /\ sms' = [sms EXCEPT ![b][u] = result]
        /\ texted' = IF reached /\ texted[b][u] < 2
                       THEN [texted EXCEPT ![b][u] = @ + 1] ELSE texted
  BY DEF SendSms, Outcomes, Journal
<1>6. /\ poller' \in PollerRecord /\ poller'.bot = poller.bot
      /\ poller'.next = poller.next /\ poller'.cancelled = poller.cancelled
      /\ poller'.batch = poller.batch /\ poller'.step = "advance"
  BY <1>2, <1>3 DEF PollerRecord
<1> HIDE DEF u, b
<1>7. /\ handled' \in [Bots -> SUBSET Updates] /\ u \in handled'[b]
      /\ \A c \in Bots : handled[c] \subseteq handled'[c]
  BY <1>1, <1>2, <1>3, <1>4 DEF BotTypeOK, b
<1>8. /\ sms' \in [Bots -> [Updates -> Journal \cup {None}]]
      /\ \A c \in Bots, v \in Updates :
           sms'[c][v] = None => sms[c][v] = None /\ (c # b \/ v # u)
  BY <1>1, <1>2, <1>3, <1>5, BotAssumption DEF BotTypeOK, BotAssumption, b
<1>9. /\ texted' \in [Bots -> [Updates -> 0..2]]
      /\ \A c \in Bots, v \in Updates :
           IF c = b /\ v = u THEN texted'[c][v] <= 1 ELSE texted'[c][v] = texted[c][v]
  BY <1>1, <1>2, <1>3, <1>5 DEF BotTypeOK, b
<1>10. BotTypeOK'
  BY <1>1, <1>2, <1>6, <1>7, <1>8, <1>9 DEF BotTypeOK, PollerRecord
<1>11. SmsIsJournalled'
  BY <1>1, <1>2, <1>6, <1>8, <1>9 DEF SmsIsJournalled
<1>12. PollerIsManaged'
  BY <1>1, <1>2, <1>6, <1>7 DEF PollerIsManaged, PollerRuns, u, b
<1>13. ForgottenWasHandled'
  BY <1>1, <1>2, <1>7 DEF ForgottenWasHandled
<1>14. crossed' \/ OffsetsFollowHandling'
  <2>1. \A c \in Bots : \A n : HandledBelow(c, n) => \A v \in Updates : v < n => v \in handled'[c]
    BY <1>7 DEF HandledBelow
  <2>2. QED
    BY <1>1, <1>2, <1>6, <1>7, <2>1 DEF OffsetsFollowHandling, HandledBelow, PollerRuns
<1>15. QED
  BY <1>10, <1>11, <1>12, <1>13, <1>14 DEF BotInv

\* The checkpoint moves past an update that was handled, in the order of the
\* numbers.
LEMMA AdvanceKeeps ==
  ASSUME BotAssumption, BotInv, Advance
  PROVE  BotInv'
<1>1. /\ BotTypeOK /\ SmsIsJournalled /\ PollerIsManaged
      /\ ForgottenWasHandled /\ (crossed \/ OffsetsFollowHandling)
  BY DEF BotInv
<1>2. /\ UNCHANGED <<edit, manager, sms, texted, handled, arrived, confirmed>>
      /\ poller.step = "advance" /\ PollerRuns /\ poller.bot \in Bots
      /\ poller.batch # {}
  BY <1>1 DEF Advance, durable, telegram, PollerRuns, PollerIsManaged
<1> DEFINE u == Current(poller.batch)
<1>3. /\ u \in poller.batch /\ u \in 1..MaxUpdate /\ u \in handled[poller.bot]
      /\ \A y \in poller.batch : u <= y
      /\ poller \in PollerRecord /\ MaxUpdate \in Nat
  BY <1>1, <1>2, CurrentIsLeast, BotAssumption
     DEF BotTypeOK, PollerRecord, PollerIsManaged, BotAssumption
<1>4. \/ /\ ~poller.cancelled /\ botUnit.bot # None /\ botUnit.offset <= u + 1
         /\ botUnit' = [botUnit EXCEPT !.offset = u + 1]
         /\ poller' = [poller EXCEPT !.step = "pick", !.next = u + 1,
                                     !.batch = @ \ {u}]
         /\ crossed' = (crossed \/ botUnit.bot # poller.bot)
      \/ poller' = [poller EXCEPT !.step = "done"] /\ UNCHANGED <<botUnit, crossed>>
  BY DEF Advance
<1> HIDE DEF u
<1>5. SmsIsJournalled'
  <2>1. poller'.step # "send"
    BY <1>3, <1>4 DEF PollerRecord
  <2>2. QED
    BY <1>1, <1>2, <2>1 DEF SmsIsJournalled
<1>6. CASE poller' = [poller EXCEPT !.step = "done"] /\ UNCHANGED <<botUnit, crossed>>
  <2>1. /\ poller' \in PollerRecord /\ poller'.step = "done" /\ poller'.bot = poller.bot
        /\ poller'.cancelled = poller.cancelled
    BY <1>3, <1>6 DEF PollerRecord
  <2>2. BotTypeOK'
    BY <1>1, <1>2, <1>6, <2>1 DEF BotTypeOK, PollerRecord
  <2>3. PollerIsManaged' /\ ForgottenWasHandled'
    BY <1>1, <1>2, <1>6, <2>1 DEF PollerIsManaged, PollerRuns, ForgottenWasHandled
  <2>4. crossed' \/ OffsetsFollowHandling'
    BY <1>1, <1>2, <1>6, <2>1 DEF OffsetsFollowHandling, HandledBelow, PollerRuns
  <2>5. QED
    BY <1>5, <2>2, <2>3, <2>4 DEF BotInv
<1>7. CASE /\ ~poller.cancelled /\ botUnit.bot # None /\ botUnit.offset <= u + 1
           /\ botUnit' = [botUnit EXCEPT !.offset = u + 1]
           /\ poller' = [poller EXCEPT !.step = "pick", !.next = u + 1,
                                       !.batch = @ \ {u}]
           /\ crossed' = (crossed \/ botUnit.bot # poller.bot)
  <2>1. /\ poller' \in PollerRecord /\ poller'.step = "pick" /\ poller'.bot = poller.bot
        /\ poller'.cancelled = poller.cancelled /\ poller'.next = u + 1
        /\ poller'.batch = poller.batch \ {u}
    <3> DEFINE n == u + 1
               others == poller.batch \ {u}
    <3>1. n \in 0..MaxUpdate + 1 /\ others \in SUBSET Updates
      BY <1>3 DEF PollerRecord
    <3>2. poller' = [poller EXCEPT !.step = "pick", !.next = n, !.batch = others]
      BY <1>7
    <3> HIDE DEF n, others
    <3>3. /\ poller' \in PollerRecord /\ poller'.step = "pick" /\ poller'.bot = poller.bot
          /\ poller'.cancelled = poller.cancelled /\ poller'.next = n
          /\ poller'.batch = others
      BY <1>3, <3>1, <3>2 DEF PollerRecord
    <3>4. QED
      BY <3>3 DEF n, others
  <2>2. /\ botUnit' \in [bot : Bots \cup {None}, on : BOOLEAN, offset : 0..MaxUpdate + 1]
        /\ botUnit'.bot = botUnit.bot /\ botUnit'.offset = u + 1
        /\ botUnit.offset \in Nat
    BY <1>1, <1>3, <1>7 DEF BotTypeOK
  <2>3. BotTypeOK'
    <3>1. crossed' \in BOOLEAN
      BY <1>7
    <3>2. QED
      BY <1>1, <1>2, <2>1, <2>2, <3>1 DEF BotTypeOK, PollerRecord
  <2>4. PollerIsManaged'
    <3>1. manager.step # "switching"
      BY <1>1, <1>2, <1>7 DEF PollerIsManaged
    <3>2. edit # None => edit.offset \in Nat
      BY <1>1, <1>3 DEF BotTypeOK
    <3>3. QED
      BY <1>1, <1>2, <1>3, <1>7, <2>1, <2>2, <3>1, <3>2 DEF PollerIsManaged, PollerRuns
  <2>5. ForgottenWasHandled'
    BY <1>1, <1>2, <1>7 DEF ForgottenWasHandled
  <2>6. ASSUME ~crossed'
        PROVE  OffsetsFollowHandling'
    <3>1. OffsetsFollowHandling /\ botUnit.bot = poller.bot
      BY <1>1, <1>7, <2>6
    <3>2. HandledBelow(poller.bot, u + 1)
      BY <1>2, <1>3, <3>1 DEF OffsetsFollowHandling, HandledBelow, Updates
    <3>3. \A w \in poller'.batch, v \in Updates \ poller'.batch :
            v < w => v \in handled[poller.bot]
      BY <1>2, <1>3, <2>1, <3>1 DEF OffsetsFollowHandling
    <3>4. manager.step # "switching"
      BY <1>1, <1>2, <1>7 DEF PollerIsManaged
    <3>5. QED
      BY <1>2, <2>1, <2>2, <3>1, <3>2, <3>3, <3>4
         DEF OffsetsFollowHandling, HandledBelow, PollerRuns
  <2>7. QED
    BY <1>5, <2>3, <2>4, <2>5, <2>6 DEF BotInv
<1>8. QED
  BY <1>4, <1>6, <1>7

LEMMA NextPollKeeps ==
  ASSUME BotAssumption, BotInv, NextPoll
  PROVE  BotInv'
<1>1. /\ BotTypeOK /\ SmsIsJournalled /\ PollerIsManaged
      /\ ForgottenWasHandled /\ (crossed \/ OffsetsFollowHandling)
  BY DEF BotInv
<1>2. /\ UNCHANGED <<botUnit, edit, manager, sms, texted, handled, arrived,
                    confirmed, crossed>>
      /\ PollerRuns
  BY DEF NextPoll, durable, telegram, PollerRuns
<1>3. /\ poller' \in PollerRecord /\ poller'.bot = poller.bot
      /\ poller'.batch = poller.batch /\ poller'.cancelled = poller.cancelled
      /\ poller'.step = "poll" /\ poller'.next = poller.next
  BY <1>1 DEF NextPoll, BotTypeOK, PollerRecord
<1>4. BotTypeOK'
  BY <1>1, <1>2, <1>3 DEF BotTypeOK, PollerRecord
<1>5. SmsIsJournalled' /\ ForgottenWasHandled'
  BY <1>1, <1>2, <1>3 DEF SmsIsJournalled, ForgottenWasHandled
<1>6. PollerIsManaged'
  BY <1>1, <1>2, <1>3 DEF PollerIsManaged, PollerRuns
<1>7. crossed' \/ OffsetsFollowHandling'
  BY <1>1, <1>2, <1>3 DEF OffsetsFollowHandling, HandledBelow, PollerRuns
<1>8. QED
  BY <1>4, <1>5, <1>6, <1>7 DEF BotInv

-----------------------------------------------------------------------------
(* Telegram and the process                                                *)

LEMMA OutsideKeeps ==
  ASSUME BotAssumption, BotInv, RestartBot \/ \E b \in Bots : Arrive(b)
  PROVE  BotInv'
<1>1. /\ BotTypeOK /\ SmsIsJournalled /\ PollerIsManaged
      /\ ForgottenWasHandled /\ (crossed \/ OffsetsFollowHandling)
  BY DEF BotInv
<1>2. ASSUME NEW b \in Bots, Arrive(b)
      PROVE  BotInv'
  <2>1. UNCHANGED <<botUnit, edit, manager, poller, sms, texted, handled,
                    confirmed, crossed>>
    BY <1>2 DEF Arrive, durable
  <2>2. arrived' \in [Bots -> 0..MaxUpdate]
    BY <1>1, <1>2, BotAssumption DEF Arrive, BotTypeOK, BotAssumption
  <2>3. BotTypeOK'
    BY <1>1, <2>1, <2>2 DEF BotTypeOK
  <2>4. SmsIsJournalled' /\ PollerIsManaged' /\ ForgottenWasHandled'
    BY <1>1, <2>1 DEF SmsIsJournalled, PollerIsManaged, PollerRuns, ForgottenWasHandled
  <2>5. crossed' \/ OffsetsFollowHandling'
    BY <1>1, <2>1 DEF OffsetsFollowHandling, HandledBelow, PollerRuns
  <2>6. QED
    BY <2>3, <2>4, <2>5 DEF BotInv
<1>3. CASE RestartBot
  <2>1. /\ UNCHANGED <<botUnit, texted, handled, arrived, confirmed, crossed>>
        /\ edit' = None /\ poller' = NoPoller
        /\ manager' = [due |-> TRUE, step |-> "idle", want |-> None]
    BY <1>3 DEF RestartBot, telegram
  <2>2. /\ NoPoller \in PollerRecord /\ NoPoller.step = "off"
    BY BotAssumption DEF NoPoller, PollerRecord, BotAssumption
  <2>3. /\ sms' \in [Bots -> [Updates -> Journal \cup {None}]]
        /\ \A c \in Bots, v \in Updates : sms'[c][v] = None => sms[c][v] = None
    BY <1>1, <1>3, BotAssumption
       DEF RestartBot, RecoveredCommand, BotTypeOK, Journal, BotAssumption
  <2>4. BotTypeOK'
    BY <1>1, <2>1, <2>2, <2>3 DEF BotTypeOK, PollerRecord
  <2>5. SmsIsJournalled' /\ PollerIsManaged' /\ ForgottenWasHandled'
    BY <1>1, <2>1, <2>2, <2>3
       DEF SmsIsJournalled, PollerIsManaged, PollerRuns, ForgottenWasHandled
  <2>6. crossed' \/ OffsetsFollowHandling'
    BY <1>1, <2>1, <2>2 DEF OffsetsFollowHandling, HandledBelow, PollerRuns
  <2>7. QED
    BY <2>4, <2>5, <2>6 DEF BotInv
<1>4. QED
  BY <1>2, <1>3

-----------------------------------------------------------------------------
(* Bot: every behaviour                                                    *)

LEMMA BotInvInit ==
  ASSUME BotAssumption, BotInit
  PROVE  BotInv
<1>1. MaxUpdate \in Nat
  BY BotAssumption DEF BotAssumption
<1>2. NoPoller \in PollerRecord /\ NoPoller.step = "off"
  BY <1>1 DEF NoPoller, PollerRecord
<1>3. BotTypeOK
  <2> DEFINE yes == TRUE
  <2>1. manager = [due |-> yes, step |-> "idle", want |-> None] /\ yes \in BOOLEAN
    BY DEF BotInit
  <2> HIDE DEF yes
  <2>2. manager \in [due : BOOLEAN, step : {"idle", "switching"}, want : Bots \cup {None}]
    BY <2>1
  <2>3. botUnit \in [bot : Bots \cup {None}, on : BOOLEAN, offset : 0..MaxUpdate + 1]
    <3>1. 0 \in 0..MaxUpdate + 1
      BY <1>1
    <3>2. PICK b \in Bots, on \in {TRUE} : botUnit = [bot |-> b, on |-> on, offset |-> 0]
      BY DEF BotInit
    <3>3. on \in BOOLEAN
      BY <3>2
    <3>4. botUnit = [bot |-> b, on |-> on, offset |-> 0]
      BY <3>2
    <3>5. QED
      BY <3>1, <3>3, <3>4
  <2>4. /\ sms \in [Bots -> [Updates -> Journal \cup {None}]]
        /\ texted \in [Bots -> [Updates -> 0..2]]
        /\ arrived \in [Bots -> 0..MaxUpdate]
        /\ confirmed \in [Bots -> 0..MaxUpdate + 1]
        /\ handled \in [Bots -> SUBSET Updates] /\ crossed \in BOOLEAN
    <3>1. 0 \in 0..MaxUpdate + 1 /\ 0 \in 0..MaxUpdate /\ 0 \in 0..2
      BY <1>1
    <3>2. crossed \in BOOLEAN /\ handled \in [Bots -> SUBSET Updates]
      BY DEF BotInit
    <3>3. sms \in [Bots -> [Updates -> Journal \cup {None}]]
      BY DEF BotInit
    <3>4. texted \in [Bots -> [Updates -> 0..2]]
      BY <3>1 DEF BotInit
    <3>5. arrived \in [Bots -> 0..MaxUpdate] /\ confirmed \in [Bots -> 0..MaxUpdate + 1]
      BY <3>1 DEF BotInit
    <3>6. QED
      BY <3>2, <3>3, <3>4, <3>5
  <2>5. QED
    BY <1>2, <2>2, <2>3, <2>4 DEF BotInit, BotTypeOK, PollerRecord
<1>4. SmsIsJournalled /\ PollerIsManaged
  BY <1>2 DEF BotInit, SmsIsJournalled, PollerIsManaged, PollerRuns
<1>5. ForgottenWasHandled
  BY <1>1 DEF BotInit, ForgottenWasHandled, Updates
<1>6. OffsetsFollowHandling
  <2>1. botUnit.offset = 0
    BY DEF BotInit
  <2>2. QED
    BY <1>1, <1>2, <2>1 DEF BotInit, OffsetsFollowHandling, HandledBelow, Updates, PollerRuns
<1>7. QED
  BY <1>3, <1>4, <1>5, <1>6 DEF BotInv

LEMMA BotInvNext ==
  ASSUME BotAssumption, BotInv, [BotNext]_botVars
  PROVE  BotInv'
<1>1. CASE UNCHANGED botVars
  BY <1>1 DEF botVars, BotInv, BotTypeOK, SmsIsJournalled, PollerIsManaged, PollerRuns,
     ForgottenWasHandled, OffsetsFollowHandling, HandledBelow
<1>2. CASE BotNext
  BY <1>2, SettingsKeep, ManagerKeeps, LoadOffsetKeeps, GetUpdatesKeeps,
     HandleUpdateKeeps, SendSmsKeeps, AdvanceKeeps, NextPollKeeps, OutsideKeeps
     DEF BotNext
<1>3. QED
  BY <1>1, <1>2

\* The invariant says so of the state.
LEMMA BotInvImplies ==
  ASSUME BotInv
  PROVE  BotIsExact
BY DEF BotInv, SmsIsJournalled, BotIsExact, SmsSentOnce

\* An update leads to at most one SMS, and Telegram forgets none that was not
\* handled, for any bots and any number of updates (telegram/poller.go).
THEOREM BotSafety == ASSUME BotAssumption PROVE BotSpec => []BotIsExact
<1>1. BotSpec => []BotInv
  BY BotInvInit, BotInvNext, PTL DEF BotSpec
<1>2. BotInv => BotIsExact
  BY BotInvImplies
<1>3. QED
  BY <1>1, <1>2, PTL

-----------------------------------------------------------------------------
(***************************************************************************)
(* The notification outbox                                                 *)
(***************************************************************************)

\* What the proofs need of the constants.
OutboxAssumption == MaxDeliveries \in Nat /\ None \notin Events \cup Statuses \cup PushStatuses

-----------------------------------------------------------------------------
(* Outbox: the inductive invariant                                         *)

TeleTypeOK ==
  /\ known \subseteq Events
  /\ teleRow \in [Events -> Statuses \cup {None}]
  /\ batch \subseteq Events
  /\ hand \in [event : Events \cup {None}, step : {"idle", "claimed", "asked"},
               outcome : {"sent", "failed", "indeterminate", None}]
  /\ told \in [Events -> 0..2] /\ spared \subseteq Events
  /\ dispatcher \in {"up", "down"}

Listing == [event : Events, attempts : 0..MaxDeliveries + 1, able : BOOLEAN]

PushTypeOK ==
  /\ push \in [Events -> [status : PushStatuses \cup {None},
                          attempts : 0..MaxDeliveries + 1,
                          due : BOOLEAN, late : BOOLEAN]]
  /\ pushBatch \subseteq Listing
  /\ grip \in [event : Events \cup {None}, attempts : 0..MaxDeliveries + 1,
               able : BOOLEAN, step : {"idle", "claimed", "asked"},
               outcome : PushStatuses \cup {None}]
  /\ able \in BOOLEAN
  /\ rang \in [Events -> 0..MaxDeliveries + 2]

\* The dispatcher that has not started holds nothing; the row in its hand is the
\* one it took, which nobody has posted before.
HandIsHeld ==
  /\ dispatcher = "down" => hand = Idle /\ batch = {}
  /\ hand.step = "idle" => hand = Idle
  /\ hand.step # "idle" => hand.event \in Events /\ teleRow[hand.event] = "sending"
  /\ hand.step = "claimed" => told[hand.event] = 0
  /\ hand.step = "asked" =>
       /\ hand.outcome # None
       /\ hand.outcome = "failed" => told[hand.event] = 0
       /\ hand.outcome = "sent" => hand.event \in spared \/ told[hand.event] = 1

\* An event the store has not recorded has no row.
UnknownIsUnqueued ==
  \A e \in Events \ known : teleRow[e] = None /\ push[e] = Unqueued /\ rang[e] = 0

\* What the Apple sender has listed or taken says how often the row was tried,
\* and the attempt it is at was counted before it is made.
AttemptsAreCounted ==
  /\ \A l \in pushBatch :
       /\ l.event \in known /\ l.attempts = push[l.event].attempts
       /\ l.event # grip.event
       /\ \A k \in pushBatch : k.event = l.event => k = l
  /\ grip.step = "idle" => grip = NoPush
  /\ grip.step # "idle" =>
       /\ grip.event \in known
       /\ push[grip.event].attempts = Counted(grip.attempts)
  /\ grip.step = "claimed" => rang[grip.event] <= grip.attempts
  /\ grip.step = "asked" /\ grip.outcome = "accepted" => rang[grip.event] >= 1
  /\ \A e \in Events : rang[e] <= push[e].attempts

TeleInv == TeleTypeOK /\ HandIsHeld /\ TelegramOnce
PushInv == PushTypeOK /\ AttemptsAreCounted /\ PushesAreBounded

OutboxInv == TeleInv /\ PushInv /\ UnknownIsUnqueued

-----------------------------------------------------------------------------
(* Telegram                                                                *)

LEMMA TeleUndisturbed ==
  ASSUME TeleInv, UNCHANGED <<known, teleVars, dispatcher>>
  PROVE  TeleInv'
BY DEF TeleInv, TeleTypeOK, HandIsHeld, TelegramOnce, teleVars, Idle

\* A row is taken while it is pending, which nobody has posted yet.
LEMMA ClaimKeeps ==
  ASSUME OutboxAssumption, TeleInv, NEW e \in Events, Claim(e)
  PROVE  TeleInv'
<1>1. TeleTypeOK /\ HandIsHeld /\ TelegramOnce /\ hand = Idle
  BY DEF TeleInv, Claim
<1>2. /\ batch' = batch \ {e} /\ UNCHANGED <<known, told, spared, dispatcher>>
      /\ dispatcher = "up"
  BY <1>1 DEF Claim, HandIsHeld, TeleTypeOK
<1>3. CASE teleRow[e] = "pending"
  <2>1. /\ teleRow' = [teleRow EXCEPT ![e] = "sending"]
        /\ hand' = [event |-> e, step |-> "claimed", outcome |-> None]
    BY <1>3 DEF Claim
  <2>2. TeleTypeOK'
    BY <1>1, <1>2, <2>1 DEF TeleTypeOK, Statuses
  <2>3. HandIsHeld'
    BY <1>1, <1>2, <1>3, <2>1 DEF HandIsHeld, TeleTypeOK, TelegramOnce
  <2>4. TelegramOnce'
    BY <1>1, <1>2, <2>1, OutboxAssumption DEF TelegramOnce, TeleTypeOK, OutboxAssumption, Statuses
  <2>5. QED
    BY <2>2, <2>3, <2>4 DEF TeleInv
<1>4. CASE teleRow[e] # "pending"
  <2>1. UNCHANGED <<teleRow, hand>>
    BY <1>4 DEF Claim
  <2>2. QED
    BY <1>1, <1>2, <2>1 DEF TeleInv, TeleTypeOK, HandIsHeld, TelegramOnce, Idle
<1>5. QED
  BY <1>3, <1>4

\* The message of a taken row is posted once, or the unit does not want it.
LEMMA NotifyKeeps ==
  ASSUME OutboxAssumption, TeleInv, Notify
  PROVE  TeleInv'
<1>1. TeleTypeOK /\ HandIsHeld /\ TelegramOnce /\ hand.step = "claimed"
  BY DEF TeleInv, Notify
<1>2. /\ UNCHANGED <<known, teleRow, batch, dispatcher>>
      /\ hand.event \in Events /\ teleRow[hand.event] = "sending"
      /\ told[hand.event] = 0 /\ dispatcher = "up"
  <2>1. UNCHANGED <<known, teleRow, batch, dispatcher>>
    BY DEF Notify
  <2>2. hand # Idle
    BY <1>1 DEF Idle
  <2>3. QED
    BY <1>1, <2>1, <2>2 DEF HandIsHeld, TeleTypeOK
<1>3. CASE ~config
  <2>1. /\ hand' = [hand EXCEPT !.step = "asked", !.outcome = "sent"]
        /\ spared' = spared \cup {hand.event} /\ UNCHANGED told
    BY <1>3 DEF Notify
  <2>2. TeleTypeOK'
    BY <1>1, <1>2, <2>1 DEF TeleTypeOK
  <2>3. hand'.event = hand.event /\ hand'.step = "asked" /\ hand'.outcome = "sent"
    BY <1>1, <2>1 DEF TeleTypeOK
  <2>4. HandIsHeld'
    BY <1>1, <1>2, <2>1, <2>3, OutboxAssumption
       DEF HandIsHeld, OutboxAssumption, Statuses
  <2>5. TelegramOnce'
    BY <1>1, <1>2, <2>1 DEF TelegramOnce
  <2>6. QED
    BY <2>2, <2>4, <2>5 DEF TeleInv
<1>4. CASE config
  <2>1. PICK reached \in BOOLEAN, answer \in {"ok", "refused", "unknown"} :
          /\ answer = "ok" => reached
          /\ answer = "refused" => ~reached
          /\ hand' = [hand EXCEPT !.step = "asked",
                                  !.outcome = Outcome(reached, answer)]
          /\ told' = IF reached /\ told[hand.event] < 2
                       THEN [told EXCEPT ![hand.event] = @ + 1] ELSE told
          /\ UNCHANGED spared
    BY <1>4 DEF Notify
  <2>2. /\ hand'.event = hand.event /\ hand'.step = "asked"
        /\ hand'.outcome \in {"sent", "failed", "indeterminate"}
        /\ hand' \in [event : Events \cup {None}, step : {"idle", "claimed", "asked"},
                      outcome : {"sent", "failed", "indeterminate", None}]
        /\ hand'.outcome = "sent" => reached
        /\ hand'.outcome = "failed" => ~reached
    BY <1>1, <2>1 DEF TeleTypeOK, Outcome
  <2>3. /\ told' \in [Events -> 0..2]
        /\ \A e \in Events \ {hand.event} : told'[e] = told[e]
        /\ reached => told'[hand.event] = 1
        /\ ~reached => told'[hand.event] = 0
    BY <1>1, <1>2, <2>1 DEF TeleTypeOK
  <2>4. TeleTypeOK'
    BY <1>1, <1>2, <2>1, <2>2, <2>3 DEF TeleTypeOK
  <2>5. HandIsHeld'
    BY <1>1, <1>2, <2>2, <2>3, OutboxAssumption DEF HandIsHeld, OutboxAssumption, Statuses
  <2>6. TelegramOnce'
    BY <1>1, <1>2, <2>1, <2>2, <2>3, OutboxAssumption
       DEF TelegramOnce, TeleTypeOK, OutboxAssumption, Statuses
  <2>7. QED
    BY <2>4, <2>5, <2>6 DEF TeleInv
<1>5. QED
  BY <1>3, <1>4

LEMMA FinishKeeps ==
  ASSUME OutboxAssumption, TeleInv, FinishNotification
  PROVE  TeleInv'
<1>1. TeleTypeOK /\ HandIsHeld /\ TelegramOnce /\ hand.step = "asked"
  BY DEF TeleInv, FinishNotification
<1>2. /\ UNCHANGED <<known, told, spared, dispatcher>> /\ hand' = Idle
      /\ hand.event \in Events /\ dispatcher = "up"
      /\ batch' \subseteq batch
      /\ teleRow' = [teleRow EXCEPT ![hand.event] = hand.outcome] \/ UNCHANGED teleRow
  BY <1>1 DEF FinishNotification, HandIsHeld, Idle, TeleTypeOK
<1>3. TeleTypeOK'
  BY <1>1, <1>2 DEF TeleTypeOK, Statuses, Idle
<1>4. HandIsHeld'
  BY <1>1, <1>2 DEF HandIsHeld, Idle, TeleTypeOK
<1>5. TelegramOnce'
  BY <1>1, <1>2, OutboxAssumption DEF TelegramOnce, HandIsHeld, TeleTypeOK,
     OutboxAssumption, Statuses
<1>6. QED
  BY <1>3, <1>4, <1>5 DEF TeleInv

\* Recovery and what the dispatcher lists say nothing new about a message.
LEMMA TeleStepKeeps ==
  ASSUME OutboxAssumption, TeleInv,
         Start \/ ListPending \/ ChangeUnit \/ Reconcile
  PROVE  TeleInv'
<1>1. TeleTypeOK /\ HandIsHeld /\ TelegramOnce
  BY DEF TeleInv
<1>2. UNCHANGED <<known, hand, told, spared>>
  BY DEF Start, ListPending, ChangeUnit, Reconcile
<1>3. CASE Start
  <2>1. /\ teleRow' \in [Events -> Statuses \cup {None}]
        /\ \A e \in Events : teleRow'[e] = teleRow[e] \/ teleRow'[e] = "indeterminate"
        /\ dispatcher' = "up" /\ hand = Idle /\ UNCHANGED batch
    BY <1>1, <1>3 DEF Start, Recovered, TeleTypeOK, Statuses, HandIsHeld
  <2>2. QED
    BY <1>1, <1>2, <2>1, OutboxAssumption DEF TeleInv, TeleTypeOK, HandIsHeld,
       TelegramOnce, Idle, OutboxAssumption, Statuses
<1>4. CASE ListPending \/ ChangeUnit \/ Reconcile
  <2>1. /\ UNCHANGED <<teleRow, dispatcher>> /\ batch' \subseteq Events
        /\ dispatcher = "down" => UNCHANGED batch
    BY <1>1, <1>4 DEF ListPending, ChangeUnit, Reconcile, TeleTypeOK
  <2>2. QED
    BY <1>1, <1>2, <2>1 DEF TeleInv, TeleTypeOK, HandIsHeld, TelegramOnce, Idle
<1>5. QED
  BY <1>3, <1>4

\* A row that was being sent at the crash stays so until the recovery.
LEMMA RestartTeleKeeps ==
  ASSUME OutboxAssumption, TeleInv, Restart
  PROVE  TeleInv'
BY DEF TeleInv, TeleTypeOK, HandIsHeld, TelegramOnce, Restart, Idle

\* An event that is reported again leaves its row alone.
LEMMA ObserveTeleKeeps ==
  ASSUME OutboxAssumption, TeleInv, UnknownIsUnqueued, NEW e \in Events, Observe(e)
  PROVE  TeleInv'
<1>1. TeleTypeOK /\ HandIsHeld /\ TelegramOnce
  BY DEF TeleInv
<1>2. /\ known' = known \cup {e}
      /\ UNCHANGED <<teleUnit, config, batch, hand, told, spared, dispatcher>>
      /\ teleRow' \in [Events -> Statuses \cup {None}]
      /\ \A f \in Events : teleRow'[f] = teleRow[f]
                             \/ (f \notin known /\ teleRow'[f] = "pending")
  BY <1>1 DEF Observe, RowFor, TeleTypeOK, Statuses
<1>3. \A f \in Events \ known : teleRow[f] = None
  BY DEF UnknownIsUnqueued
<1>4. TeleTypeOK'
  BY <1>1, <1>2 DEF TeleTypeOK
<1>5. HandIsHeld'
  BY <1>1, <1>2, <1>3, OutboxAssumption DEF HandIsHeld, Idle, OutboxAssumption, Statuses
<1>6. TelegramOnce'
  BY <1>1, <1>2, <1>3, OutboxAssumption DEF TelegramOnce, OutboxAssumption, Statuses
<1>7. QED
  BY <1>4, <1>5, <1>6 DEF TeleInv

-----------------------------------------------------------------------------
(* Apple push                                                              *)

LEMMA PushUndisturbed ==
  ASSUME PushInv, UNCHANGED <<known, pushVars>>
  PROVE  PushInv'
BY DEF PushInv, PushTypeOK, AttemptsAreCounted, PushesAreBounded, pushVars, NoPush,
   Listing, Counted

\* The listing says how often each row was tried.
LEMMA ListDueKeeps ==
  ASSUME OutboxAssumption, PushInv, UnknownIsUnqueued, ListDue
  PROVE  PushInv'
<1>1. PushTypeOK /\ AttemptsAreCounted /\ PushesAreBounded /\ grip = NoPush
  BY DEF PushInv, ListDue
<1>2. /\ UNCHANGED <<known, push, grip, able, rang>>
      /\ pushBatch' = {[event |-> e, attempts |-> push[e].attempts, able |-> able] :
            e \in {x \in Events : push[x].status = "pending" /\ push[x].due}}
  BY DEF ListDue
<1>3. \A e \in Events : push[e].status = "pending" => e \in known
  BY OutboxAssumption DEF UnknownIsUnqueued, Unqueued, OutboxAssumption, PushStatuses
<1>4. PushTypeOK'
  BY <1>1, <1>2 DEF PushTypeOK, Listing
<1>5. \A l \in pushBatch' : /\ l.event \in known /\ l.attempts = push[l.event].attempts
                            /\ l.event # None
                            /\ \A k \in pushBatch' : k.event = l.event => k = l
  BY <1>2, <1>3, OutboxAssumption DEF OutboxAssumption
<1>6. AttemptsAreCounted'
  BY <1>1, <1>2, <1>5 DEF AttemptsAreCounted, NoPush, Counted
<1>7. PushesAreBounded'
  BY <1>1, <1>2 DEF PushesAreBounded
<1>8. QED
  BY <1>4, <1>6, <1>7 DEF PushInv

\* The attempt is counted when the row is taken.
LEMMA ClaimPushKeeps ==
  ASSUME OutboxAssumption, PushInv, known \subseteq Events,
         NEW l \in pushBatch, ClaimPush(l)
  PROVE  PushInv' /\ \A e \in Events : push'[e] = push[e] \/ e \in known
<1>1. PushTypeOK /\ AttemptsAreCounted /\ PushesAreBounded /\ grip = NoPush
  BY DEF PushInv, ClaimPush
<1>2. /\ pushBatch' = pushBatch \ {l} /\ UNCHANGED <<known, able, rang>>
      /\ l \in Listing /\ l.event \in known
      /\ l.attempts = push[l.event].attempts
  BY <1>1 DEF ClaimPush, PushTypeOK, AttemptsAreCounted
<1>3. CASE push[l.event].status = "pending"
  <2> DEFINE q == [push[l.event] EXCEPT !.status = "sending",
                                        !.attempts = Counted(@)]
             n == Counted(l.attempts)
             g == [event |-> l.event, attempts |-> l.attempts,
                   able |-> l.able, step |-> "claimed", outcome |-> None]
  <2>1. push' = [push EXCEPT ![l.event] = q] /\ grip' = g
    BY <1>1, <1>2, <1>3 DEF ClaimPush, PushTypeOK
  <2>2. /\ Counted(l.attempts) \in 0..MaxDeliveries + 1
        /\ l.attempts <= Counted(l.attempts)
    BY <1>2, OutboxAssumption DEF Counted, OutboxAssumption, Listing
  <2>3. /\ q \in [status : PushStatuses \cup {None},
                  attempts : 0..MaxDeliveries + 1, due : BOOLEAN, late : BOOLEAN]
        /\ q.status = "sending" /\ q.attempts = Counted(l.attempts)
    <3>1. /\ push[l.event] \in [status : PushStatuses \cup {None},
                 attempts : 0..MaxDeliveries + 1, due : BOOLEAN, late : BOOLEAN]
          /\ q = [push[l.event] EXCEPT !.status = "sending", !.attempts = n]
      BY <1>1, <1>2 DEF PushTypeOK
    <3>2. n \in 0..MaxDeliveries + 1
      BY <2>2
    <3> HIDE DEF n, q
    <3>3. /\ q.status = "sending" /\ q.attempts = n
          /\ q \in [status : PushStatuses \cup {None},
                    attempts : 0..MaxDeliveries + 1, due : BOOLEAN, late : BOOLEAN]
      BY <3>1, <3>2 DEF PushStatuses
    <3>4. QED
      BY <3>3 DEF n
  <2>4. /\ g.event = l.event /\ g.attempts = l.attempts /\ g.step = "claimed"
        /\ g \in [event : Events \cup {None}, attempts : 0..MaxDeliveries + 1,
                  able : BOOLEAN, step : {"idle", "claimed", "asked"},
                  outcome : PushStatuses \cup {None}]
    BY <1>2 DEF Listing
  <2> HIDE DEF q, g
  <2>5. /\ push' \in [Events -> [status : PushStatuses \cup {None},
                          attempts : 0..MaxDeliveries + 1,
                          due : BOOLEAN, late : BOOLEAN]]
        /\ push'[l.event] = q /\ \A e \in Events \ {l.event} : push'[e] = push[e]
    BY <1>1, <1>2, <2>1, <2>3 DEF PushTypeOK
  <2>6. PushTypeOK'
    BY <1>1, <1>2, <2>1, <2>4, <2>5 DEF PushTypeOK
  <2>7. AttemptsAreCounted'
    <3>1. \A k \in pushBatch' :
            /\ k.event \in known' /\ k.attempts = push'[k.event].attempts
            /\ k.event # grip'.event
            /\ \A m \in pushBatch' : m.event = k.event => m = k
      BY <1>1, <1>2, <2>1, <2>4, <2>5 DEF AttemptsAreCounted, PushTypeOK
    <3>2. /\ grip'.step = "claimed" /\ grip'.event \in known'
          /\ push'[grip'.event].attempts = Counted(grip'.attempts)
          /\ rang'[grip'.event] <= grip'.attempts
      BY <1>1, <1>2, <2>1, <2>3, <2>4, <2>5 DEF AttemptsAreCounted
    <3>3. \A e \in Events : rang'[e] <= push'[e].attempts
      <4>1. rang'[l.event] <= l.attempts /\ l.attempts <= push'[l.event].attempts
        BY <1>1, <1>2, <2>2, <2>3, <2>5 DEF AttemptsAreCounted
      <4>2. /\ rang'[l.event] \in Nat /\ l.attempts \in Nat
            /\ push'[l.event].attempts \in Nat
        BY <1>1, <1>2, <2>2, <2>3, <2>5 DEF PushTypeOK, Listing
      <4>3. QED
        BY <1>1, <1>2, <2>5, <4>1, <4>2 DEF AttemptsAreCounted
    <3>4. QED
      BY <3>1, <3>2, <3>3 DEF AttemptsAreCounted, Counted
  <2>8. PushesAreBounded'
    BY <1>1, <1>2, <2>3, <2>5 DEF PushesAreBounded
  <2>9. QED
    BY <1>2, <2>5, <2>6, <2>7, <2>8 DEF PushInv
<1>4. CASE push[l.event].status # "pending"
  <2>1. UNCHANGED <<push, grip>>
    BY <1>4 DEF ClaimPush
  <2>2. PushTypeOK' /\ AttemptsAreCounted' /\ PushesAreBounded'
    BY <1>1, <1>2, <2>1 DEF PushTypeOK, AttemptsAreCounted, PushesAreBounded, Counted
  <2>3. QED
    BY <2>1, <2>2 DEF PushInv
<1>5. QED
  BY <1>3, <1>4

\* What the sender decides without asking, and what is only time or rights.
LEMMA WithholdKeeps ==
  ASSUME OutboxAssumption, PushInv, known \subseteq Events, Withhold
  PROVE  PushInv'
<1>1. PushTypeOK /\ AttemptsAreCounted /\ PushesAreBounded /\ grip.step = "claimed"
  BY DEF PushInv, Withhold
<1>2. UNCHANGED <<known, push, pushBatch, able, rang>>
  BY DEF Withhold
<1>3. PICK outcome \in {"expired", "cancelled", "failed"} : grip' = Answered(outcome)
  BY DEF Withhold
<1>4. /\ grip'.event = grip.event /\ grip'.attempts = grip.attempts
      /\ grip'.step = "asked" /\ grip'.outcome = outcome
      /\ grip' \in [event : Events \cup {None}, attempts : 0..MaxDeliveries + 1,
                  able : BOOLEAN, step : {"idle", "claimed", "asked"},
                  outcome : PushStatuses \cup {None}]
  BY <1>1, <1>3 DEF Answered, PushTypeOK, PushStatuses
<1>5. PushTypeOK'
  BY <1>1, <1>2, <1>4 DEF PushTypeOK
<1>6. AttemptsAreCounted'
  BY <1>1, <1>2, <1>4 DEF AttemptsAreCounted, Counted
<1>7. QED
  BY <1>1, <1>2, <1>5, <1>6 DEF PushInv, PushesAreBounded

\* An attempt is made only below the limit, and it was counted.
LEMMA SendKeeps ==
  ASSUME OutboxAssumption, PushInv, known \subseteq Events, Send
  PROVE  PushInv'
<1>1. /\ PushTypeOK /\ AttemptsAreCounted /\ PushesAreBounded
      /\ grip.step = "claimed" /\ grip.attempts < MaxDeliveries
  BY DEF PushInv, Send
<1>2. UNCHANGED <<known, push, pushBatch>> /\ grip.event \in known /\ grip.event \in Events
  BY <1>1 DEF Send, AttemptsAreCounted
<1>3. PICK reached \in BOOLEAN, answer \in {"ok", "retry", "invalid", "refused"} :
        /\ answer = "ok" => reached
        /\ grip' = Answered(CASE answer = "ok"    -> "accepted"
                             [] answer = "retry" -> RetryOutcome
                             [] OTHER            -> "failed")
        /\ able' = (able /\ answer # "invalid")
        /\ rang' = IF reached /\ rang[grip.event] < MaxDeliveries + 2
                    THEN [rang EXCEPT ![grip.event] = @ + 1] ELSE rang
  BY DEF Send
<1> DEFINE outcome == CASE answer = "ok"    -> "accepted"
                       [] answer = "retry" -> RetryOutcome
                       [] OTHER            -> "failed"
<1>4. /\ outcome \in {"accepted", "expired", "pending", "failed"}
      /\ outcome = "accepted" => reached
      /\ grip' = Answered(outcome)
  BY <1>3 DEF RetryOutcome
<1> HIDE DEF outcome
<1>5. /\ grip'.event = grip.event /\ grip'.attempts = grip.attempts
      /\ grip'.step = "asked" /\ grip'.outcome = outcome
      /\ grip' \in [event : Events \cup {None}, attempts : 0..MaxDeliveries + 1,
                  able : BOOLEAN, step : {"idle", "claimed", "asked"},
                  outcome : PushStatuses \cup {None}]
  BY <1>1, <1>4 DEF Answered, PushTypeOK, PushStatuses
<1>6. /\ rang[grip.event] \in Nat /\ grip.attempts \in Nat /\ MaxDeliveries \in Nat
      /\ rang[grip.event] <= grip.attempts
      /\ push[grip.event].attempts = grip.attempts + 1
  BY <1>1, <1>2, OutboxAssumption DEF PushTypeOK, AttemptsAreCounted, OutboxAssumption,
     Counted
<1>7. /\ rang' \in [Events -> 0..MaxDeliveries + 2]
      /\ \A e \in Events \ {grip.event} : rang'[e] = rang[e]
      /\ rang'[grip.event] = IF reached THEN rang[grip.event] + 1 ELSE rang[grip.event]
  BY <1>1, <1>2, <1>3, <1>6 DEF PushTypeOK
<1>8. PushTypeOK'
  <2>1. able' \in BOOLEAN
    BY <1>3
  <2>2. QED
    BY <1>1, <1>2, <1>5, <1>7, <2>1 DEF PushTypeOK
<1>9. AttemptsAreCounted'
  <2>1. \A e \in Events : rang'[e] <= push'[e].attempts
    BY <1>1, <1>2, <1>6, <1>7 DEF AttemptsAreCounted
  <2>2. outcome = "accepted" => rang'[grip'.event] >= 1
    BY <1>4, <1>5, <1>6, <1>7
  <2>3. QED
    BY <1>1, <1>2, <1>5, <2>1, <2>2 DEF AttemptsAreCounted, Counted
<1>10. PushesAreBounded'
  BY <1>1, <1>2, <1>6, <1>7 DEF PushesAreBounded, PushTypeOK
<1>11. QED
  BY <1>8, <1>9, <1>10 DEF PushInv

\* A step that changes neither what was counted nor what is claimed of it.
LEMMA PushRowsKeep ==
  ASSUME OutboxAssumption, PushInv, UNCHANGED <<known, rang>>, able' \in BOOLEAN,
         known \subseteq Events,
         pushBatch' \subseteq pushBatch, grip' \in {grip, NoPush},
         push' \in [Events -> [status : PushStatuses \cup {None},
                          attempts : 0..MaxDeliveries + 1,
                          due : BOOLEAN, late : BOOLEAN]],
         \A e \in Events : push'[e].attempts = push[e].attempts,
         \A e \in Events : push'[e].status = "accepted" => rang[e] >= 1
  PROVE  PushInv'
<1>1. PushTypeOK /\ AttemptsAreCounted /\ PushesAreBounded
  BY DEF PushInv
<1>2. PushTypeOK'
  <2>1. NoPush \in [event : Events \cup {None}, attempts : 0..MaxDeliveries + 1,
                   able : BOOLEAN, step : {"idle", "claimed", "asked"},
                   outcome : PushStatuses \cup {None}]
    <3>1. 0 \in 0..MaxDeliveries + 1
      BY OutboxAssumption DEF OutboxAssumption
    <3>2. QED
      BY <3>1 DEF NoPush
  <2>2. QED
    BY <1>1, <2>1 DEF PushTypeOK
<1>3. AttemptsAreCounted'
  <2>1. \A l \in pushBatch : l.event # None
    BY <1>1, OutboxAssumption DEF AttemptsAreCounted, OutboxAssumption
  <2>2. QED
    BY <1>1, <2>1 DEF AttemptsAreCounted, NoPush, Counted
<1>4. PushesAreBounded'
  BY <1>1 DEF PushesAreBounded
<1>5. QED
  BY <1>2, <1>3, <1>4 DEF PushInv

LEMMA PushStepKeeps ==
  ASSUME OutboxAssumption, PushInv, known \subseteq Events,
         \/ FinishPush \/ ChangeTarget
         \/ \E e \in Events : BecomeDue(e) \/ Lapse(e)
  PROVE  PushInv' /\ \A e \in Events : push'[e] = push[e] \/ e \in known
                                      \/ push[e].status # None
<1>1. PushTypeOK /\ AttemptsAreCounted /\ PushesAreBounded
  BY DEF PushInv
<1>2. CASE FinishPush
  <2>1. /\ UNCHANGED <<known, pushBatch, able, rang>> /\ grip' = NoPush
        /\ grip.step = "asked" /\ grip.event \in known /\ grip.event \in Events
    BY <1>1, <1>2 DEF FinishPush, AttemptsAreCounted
  <2>2. CASE UNCHANGED push
    BY <1>1, <2>1, <2>2, PushRowsKeep DEF PushTypeOK, PushesAreBounded
  <2>3. CASE push' = [push EXCEPT ![grip.event].status = grip.outcome,
                                  ![grip.event].due = FALSE]
    <3> DEFINE q == [push[grip.event] EXCEPT !.status = grip.outcome, !.due = FALSE]
    <3>1. push' = [push EXCEPT ![grip.event] = q]
      BY <1>1, <2>1, <2>3 DEF PushTypeOK
    <3>2. /\ q \in [status : PushStatuses \cup {None},
                    attempts : 0..MaxDeliveries + 1, due : BOOLEAN, late : BOOLEAN]
          /\ q.status = grip.outcome /\ q.attempts = push[grip.event].attempts
      BY <1>1, <2>1 DEF PushTypeOK
    <3> HIDE DEF q
    <3>3. /\ push' \in [Events -> [status : PushStatuses \cup {None},
                          attempts : 0..MaxDeliveries + 1,
                          due : BOOLEAN, late : BOOLEAN]]
          /\ push'[grip.event] = q
          /\ \A e \in Events \ {grip.event} : push'[e] = push[e]
      BY <1>1, <2>1, <3>1, <3>2 DEF PushTypeOK
    <3>4. \A e \in Events : push'[e].status = "accepted" => rang[e] >= 1
      BY <1>1, <2>1, <3>2, <3>3 DEF AttemptsAreCounted, PushesAreBounded
    <3>5. \A e \in Events : push'[e].attempts = push[e].attempts
      BY <3>2, <3>3
    <3>6. able' \in BOOLEAN /\ grip' \in {grip, NoPush} /\ pushBatch' \subseteq pushBatch
      BY <1>1, <2>1 DEF PushTypeOK
    <3>7. PushInv'
      BY <2>1, <3>3, <3>4, <3>5, <3>6, PushRowsKeep
    <3>8. QED
      BY <2>1, <3>3, <3>7
  <2>4. QED
    BY <1>2, <2>2, <2>3 DEF FinishPush
<1>3. CASE ChangeTarget
  BY <1>1, <1>3, PushRowsKeep DEF ChangeTarget, PushTypeOK, PushesAreBounded
<1>4. ASSUME NEW e \in Events, BecomeDue(e) \/ Lapse(e)
      PROVE  /\ PushInv'
             /\ \A f \in Events : push'[f] = push[f] \/ push[f].status # None
  <2>1. /\ UNCHANGED <<known, pushBatch, grip, able, rang>>
        /\ push[e].status # None
        /\ push' \in { [push EXCEPT ![e].due = TRUE], [push EXCEPT ![e].late = TRUE] }
    BY <1>4, OutboxAssumption DEF BecomeDue, Lapse, OutboxAssumption, PushStatuses
  <2>2. /\ push' \in [Events -> [status : PushStatuses \cup {None},
                          attempts : 0..MaxDeliveries + 1,
                          due : BOOLEAN, late : BOOLEAN]]
        /\ \A f \in Events : /\ push'[f].attempts = push[f].attempts
                              /\ push'[f].status = push[f].status
        /\ \A f \in Events \ {e} : push'[f] = push[f]
    <3>1. PICK q \in { [push[e] EXCEPT !.due = TRUE], [push[e] EXCEPT !.late = TRUE] } :
            push' = [push EXCEPT ![e] = q]
      BY <1>1, <2>1 DEF PushTypeOK
    <3>2. /\ q \in [status : PushStatuses \cup {None},
                    attempts : 0..MaxDeliveries + 1, due : BOOLEAN, late : BOOLEAN]
          /\ q.status = push[e].status /\ q.attempts = push[e].attempts
      <4> DEFINE yes == TRUE
      <4>3. push[e] \in [status : PushStatuses \cup {None},
                 attempts : 0..MaxDeliveries + 1, due : BOOLEAN, late : BOOLEAN]
            /\ yes \in BOOLEAN
        BY <1>1 DEF PushTypeOK
      <4>1. CASE q = [push[e] EXCEPT !.due = yes]
        <5> HIDE DEF yes
        <5>1. QED
          BY <4>1, <4>3
      <4>2. CASE q = [push[e] EXCEPT !.late = TRUE]
        BY <1>1, <4>2 DEF PushTypeOK
      <4>4. QED
        BY <4>1, <4>2
    <3>3. QED
      BY <1>1, <3>1, <3>2 DEF PushTypeOK
  <2>3. \A f \in Events : push'[f].status = "accepted" => rang[f] >= 1
    BY <1>1, <2>2 DEF PushesAreBounded
  <2>4. able' \in BOOLEAN /\ grip' \in {grip, NoPush} /\ pushBatch' \subseteq pushBatch
    BY <1>1, <2>1 DEF PushTypeOK
  <2>5. QED
    BY <2>1, <2>2, <2>3, <2>4, PushRowsKeep
<1>5. QED
  BY <1>2, <1>3, <1>4

LEMMA RestartPushKeeps ==
  ASSUME OutboxAssumption, PushInv, UnknownIsUnqueued, known \subseteq Events, Restart
  PROVE  PushInv' /\ \A e \in Events \ known : push'[e] = push[e]
<1>1. PushTypeOK /\ AttemptsAreCounted /\ PushesAreBounded
  BY DEF PushInv
<1>2. /\ UNCHANGED <<known, able, rang>> /\ pushBatch' = {} /\ grip' = NoPush
      /\ push' \in [Events -> [status : PushStatuses \cup {None},
                          attempts : 0..MaxDeliveries + 1,
                          due : BOOLEAN, late : BOOLEAN]]
      /\ \A e \in Events : push'[e].attempts = push[e].attempts
      /\ \A e \in Events : push'[e] = push[e] \/ push'[e].status = "pending"
      /\ \A e \in Events : push'[e] = push[e] \/ push[e].status = "sending"
  <2>1. UNCHANGED <<known, able, rang>> /\ pushBatch' = {} /\ grip' = NoPush
    BY DEF Restart
  <2>2. CASE UNCHANGED push
    BY <1>1, <2>1, <2>2 DEF PushTypeOK
  <2>3. CASE push' = [e \in Events |->
                   IF push[e].status = "sending"
                     THEN [push[e] EXCEPT !.status = "pending", !.due = TRUE]
                     ELSE push[e]]
    <3>1. ASSUME NEW e \in Events
          PROVE  LET q == [push[e] EXCEPT !.status = "pending", !.due = TRUE]
                 IN /\ q \in [status : PushStatuses \cup {None},
                              attempts : 0..MaxDeliveries + 1,
                              due : BOOLEAN, late : BOOLEAN]
                    /\ q.attempts = push[e].attempts /\ q.status = "pending"
      BY <1>1 DEF PushTypeOK, PushStatuses
    <3>2. ASSUME NEW e \in Events
          PROVE  /\ push'[e] \in [status : PushStatuses \cup {None},
                              attempts : 0..MaxDeliveries + 1,
                              due : BOOLEAN, late : BOOLEAN]
                 /\ push'[e].attempts = push[e].attempts
                 /\ push'[e] = push[e] \/ push'[e].status = "pending"
                 /\ push'[e] = push[e] \/ push[e].status = "sending"
      BY <1>1, <2>3, <3>1 DEF PushTypeOK
    <3>3. push' = [e \in Events |-> push'[e]]
      BY <2>3
    <3>4. QED
      BY <2>1, <3>2, <3>3
  <2>4. QED
    BY <2>2, <2>3 DEF Restart
<1>3. able' \in BOOLEAN /\ pushBatch' \subseteq pushBatch
  BY <1>1, <1>2 DEF PushTypeOK
<1>4. \A e \in Events : push'[e].status = "accepted" => rang[e] >= 1
  <2>1. \A e \in Events : push'[e].status = "accepted" => push[e].status = "accepted"
    BY <1>2
  <2>2. QED
    BY <1>1, <2>1 DEF PushesAreBounded
<1>5. PushInv'
  BY <1>2, <1>3, <1>4, PushRowsKeep
<1>6. \A e \in Events \ known : push[e].status # "sending"
  BY OutboxAssumption DEF UnknownIsUnqueued, Unqueued, OutboxAssumption, PushStatuses
<1>7. QED
  BY <1>2, <1>5, <1>6

\* An event that is recorded gets a row that was never tried.
LEMMA ObservePushKeeps ==
  ASSUME OutboxAssumption, PushInv, UnknownIsUnqueued, known \subseteq Events,
         NEW e \in Events, Observe(e)
  PROVE  PushInv'
<1>1. PushTypeOK /\ AttemptsAreCounted /\ PushesAreBounded
  BY DEF PushInv
<1>2. known' = known \cup {e} /\ UNCHANGED <<pushBatch, grip, able, rang>>
  BY DEF Observe
<1> DEFINE yes == TRUE
<1> DEFINE fresh == [Unqueued EXCEPT !.status = "pending", !.due = yes]
<1>3. /\ fresh.attempts = 0 /\ fresh.status = "pending"
      /\ fresh \in [status : PushStatuses \cup {None},
                    attempts : 0..MaxDeliveries + 1, due : BOOLEAN, late : BOOLEAN]
  <2>1. 0 \in 0..MaxDeliveries + 1 /\ yes \in BOOLEAN
    BY OutboxAssumption DEF OutboxAssumption
  <2> HIDE DEF yes
  <2>2. /\ Unqueued \in [status : PushStatuses \cup {None},
                    attempts : 0..MaxDeliveries + 1, due : BOOLEAN, late : BOOLEAN]
        /\ Unqueued.attempts = 0
    BY <2>1 DEF Unqueued
  <2>3. QED
    BY <2>1, <2>2 DEF PushStatuses
<1>4. push' = [push EXCEPT ![e] = IF e \in known \/ ~able THEN push[e] ELSE fresh]
  BY DEF Observe, PushFor
<1> HIDE DEF fresh, yes
<1>5. /\ push' \in [Events -> [status : PushStatuses \cup {None},
                          attempts : 0..MaxDeliveries + 1,
                          due : BOOLEAN, late : BOOLEAN]]
      /\ \A f \in Events : push'[f] = push[f] \/ (f \notin known /\ push'[f] = fresh)
  BY <1>1, <1>3, <1>4 DEF PushTypeOK
<1>6. PushTypeOK'
  BY <1>1, <1>2, <1>5 DEF PushTypeOK
<1>7. \A f \in known : push'[f] = push[f]
  BY <1>5
<1>8. AttemptsAreCounted'
  <2>1. \A f \in Events : rang'[f] <= push'[f].attempts
    BY <1>1, <1>2, <1>3, <1>5 DEF AttemptsAreCounted, UnknownIsUnqueued
  <2>2. QED
    BY <1>1, <1>2, <1>7, <2>1 DEF AttemptsAreCounted, Counted
<1>9. PushesAreBounded'
  BY <1>1, <1>2, <1>3, <1>5 DEF PushesAreBounded
<1>10. QED
  BY <1>6, <1>8, <1>9 DEF PushInv

-----------------------------------------------------------------------------
(* Outbox: every behaviour                                                 *)

LEMMA OutboxInvInit ==
  ASSUME OutboxAssumption, OutboxInit
  PROVE  OutboxInv
<1>1. MaxDeliveries \in Nat
  BY OutboxAssumption DEF OutboxAssumption
<1>2. TeleInv
  <2>1. Idle \in [event : Events \cup {None}, step : {"idle", "claimed", "asked"},
                 outcome : {"sent", "failed", "indeterminate", None}]
    BY DEF Idle
  <2>2. TeleTypeOK
    BY <2>1 DEF OutboxInit, TeleTypeOK
  <2>3. HandIsHeld
    BY DEF OutboxInit, HandIsHeld, Idle
  <2>4. TelegramOnce
    BY OutboxAssumption DEF OutboxInit, TelegramOnce, OutboxAssumption, Statuses
  <2>5. QED
    BY <2>2, <2>3, <2>4 DEF TeleInv
<1>3. PushTypeOK
  <2>1. /\ Unqueued \in [status : PushStatuses \cup {None},
                          attempts : 0..MaxDeliveries + 1,
                          due : BOOLEAN, late : BOOLEAN]
        /\ NoPush \in [event : Events \cup {None}, attempts : 0..MaxDeliveries + 1,
                   able : BOOLEAN, step : {"idle", "claimed", "asked"},
                   outcome : PushStatuses \cup {None}]
        /\ 0 \in 0..MaxDeliveries + 2
    BY <1>1 DEF Unqueued, NoPush
  <2>2. QED
    BY <2>1 DEF OutboxInit, PushTypeOK
<1>4. AttemptsAreCounted
  BY DEF OutboxInit, AttemptsAreCounted, NoPush, Unqueued
<1>5. PushesAreBounded
  BY <1>1, OutboxAssumption
     DEF OutboxInit, PushesAreBounded, Unqueued, OutboxAssumption, PushStatuses
<1>6. UnknownIsUnqueued
  BY DEF OutboxInit, UnknownIsUnqueued
<1>7. QED
  BY <1>2, <1>3, <1>4, <1>5, <1>6 DEF OutboxInv, PushInv

LEMMA OutboxInvNext ==
  ASSUME OutboxAssumption, OutboxInv, [OutboxNext]_outboxVars
  PROVE  OutboxInv'
<1>1. /\ TeleInv /\ PushInv /\ UnknownIsUnqueued /\ known \subseteq Events
      /\ \A e \in Events \ known :
           teleRow[e] = None /\ push[e].status = None /\ push[e] = Unqueued
  <2>1. Unqueued.status = None
    BY DEF Unqueued
  <2>2. QED
    BY <2>1 DEF OutboxInv, TeleInv, TeleTypeOK, UnknownIsUnqueued
<1>2. CASE UNCHANGED outboxVars
  BY <1>1, <1>2, TeleUndisturbed, PushUndisturbed
     DEF outboxVars, OutboxInv, UnknownIsUnqueued, teleVars, pushVars
<1>3. ASSUME NEW e \in Events, Observe(e)
      PROVE  OutboxInv'
  <2>1. TeleInv' /\ PushInv'
    BY <1>1, <1>3, ObserveTeleKeeps, ObservePushKeeps
  <2>2. UnknownIsUnqueued'
    BY <1>1, <1>3 DEF Observe, UnknownIsUnqueued, TeleInv, TeleTypeOK, PushInv, PushTypeOK
  <2>3. QED
    BY <2>1, <2>2 DEF OutboxInv
<1>4. ASSUME \/ \E e \in Events : Claim(e)
             \/ Start \/ ListPending \/ Notify \/ FinishNotification
             \/ ChangeUnit \/ Reconcile
      PROVE  OutboxInv'
  <2>1. UNCHANGED <<known, pushVars>>
    BY <1>4 DEF Claim, Start, ListPending, Notify, FinishNotification, ChangeUnit, Reconcile
  <2>2. TeleInv'
    BY <1>1, <1>4, ClaimKeeps, TeleStepKeeps, NotifyKeeps, FinishKeeps
  <2>3. PushInv'
    BY <1>1, <2>1, PushUndisturbed
  <2>4. \A e \in Events \ known : teleRow'[e] = None
    <3>1. TeleTypeOK /\ HandIsHeld
      BY <1>1 DEF TeleInv
    <3>2. ASSUME NEW f \in Events, Claim(f)
          PROVE  \A e \in Events \ known : teleRow'[e] = None
      BY <1>1, <3>1, <3>2, OutboxAssumption
         DEF Claim, TeleTypeOK, OutboxAssumption, Statuses
    <3>3. CASE Start
      BY <1>1, <3>3, OutboxAssumption DEF Start, Recovered, OutboxAssumption, Statuses
    <3>4. CASE FinishNotification
      BY <1>1, <3>1, <3>4, OutboxAssumption
         DEF FinishNotification, HandIsHeld, TeleTypeOK, OutboxAssumption, Statuses, Idle
    <3>5. CASE ListPending \/ Notify \/ ChangeUnit \/ Reconcile
      BY <1>1, <3>5 DEF ListPending, Notify, ChangeUnit, Reconcile
    <3>6. QED
      BY <1>4, <3>2, <3>3, <3>4, <3>5
  <2>5. UnknownIsUnqueued'
    BY <1>1, <2>1, <2>4 DEF UnknownIsUnqueued, pushVars
  <2>6. QED
    BY <2>2, <2>3, <2>5 DEF OutboxInv
<1>5. ASSUME \/ \E l \in pushBatch : ClaimPush(l)
             \/ \E e \in Events : BecomeDue(e) \/ Lapse(e)
             \/ ListDue \/ Withhold \/ Send \/ FinishPush \/ ChangeTarget
      PROVE  OutboxInv'
  <2>1. UNCHANGED <<known, teleVars, dispatcher>>
    BY <1>5 DEF ClaimPush, BecomeDue, Lapse, ListDue, Withhold, Send, FinishPush,
       ChangeTarget
  <2>2. TeleInv'
    BY <1>1, <2>1, TeleUndisturbed
  <2>3. /\ PushInv'
        /\ \A e \in Events : push'[e] = push[e] \/ e \in known \/ push[e].status # None
    <3>1. CASE \E l \in pushBatch : ClaimPush(l)
      BY <1>1, <3>1, ClaimPushKeeps
    <3>2. CASE ListDue \/ Withhold \/ Send
      <4>1. UNCHANGED push
        BY <3>2 DEF ListDue, Withhold, Send
      <4>2. QED
        BY <1>1, <3>2, <4>1, ListDueKeeps, WithholdKeeps, SendKeeps
    <3>3. CASE \/ FinishPush \/ ChangeTarget
               \/ \E e \in Events : BecomeDue(e) \/ Lapse(e)
      BY <1>1, <3>3, PushStepKeeps
    <3>4. QED
      BY <1>5, <3>1, <3>2, <3>3
  <2>4. \A e \in Events \ known : rang'[e] = rang[e]
    <3>1. CASE Send
      <4>1. grip.event \in known
        BY <1>1, <3>1 DEF PushInv, AttemptsAreCounted, Send
      <4>2. QED
        BY <1>1, <3>1, <4>1 DEF Send, PushInv, PushTypeOK
    <3>2. CASE ~Send
      BY <1>5, <3>2 DEF ClaimPush, BecomeDue, Lapse, ListDue, Withhold, FinishPush,
         ChangeTarget
    <3>3. QED
      BY <3>1, <3>2
  <2>5. UnknownIsUnqueued'
    BY <1>1, <2>1, <2>3, <2>4 DEF UnknownIsUnqueued, teleVars
  <2>6. QED
    BY <2>2, <2>3, <2>5 DEF OutboxInv
<1>6. CASE Restart
  <2>1. TeleInv' /\ PushInv' /\ \A e \in Events \ known : push'[e] = push[e]
    BY <1>1, <1>6, RestartTeleKeeps, RestartPushKeeps
  <2>2. UnknownIsUnqueued'
    BY <1>1, <1>6, <2>1 DEF Restart, UnknownIsUnqueued
  <2>3. QED
    BY <2>1, <2>2 DEF OutboxInv
<1>7. QED
  BY <1>2, <1>3, <1>4, <1>5, <1>6 DEF OutboxNext

\* The invariant says so of the state.
LEMMA OutboxInvImplies ==
  ASSUME OutboxInv
  PROVE  OutboxIsTruthful
BY DEF OutboxInv, TeleInv, PushInv, OutboxIsTruthful

\* A notification is never posted twice, a device never rung too often, and the
\* rows tell the truth about both, for any number of events, through any number
\* of crashes and lost answers.
THEOREM OutboxSafety == ASSUME OutboxAssumption PROVE OutboxSpec => []OutboxIsTruthful
<1>1. OutboxSpec => []OutboxInv
  BY OutboxInvInit, OutboxInvNext, PTL DEF OutboxSpec
<1>2. OutboxInv => OutboxIsTruthful
  BY OutboxInvImplies
<1>3. QED
  BY <1>1, <1>2, PTL
=============================================================================
