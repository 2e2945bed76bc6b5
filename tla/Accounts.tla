------------------------------ MODULE Accounts ------------------------------
(***************************************************************************)
(* One member's account as the store keeps it and the requests of          *)
(* internal/auth and internal/httpapi change it: the password and the      *)
(* flags of the account, the browser sessions made under them, and the     *)
(* paired devices.                                                         *)
(*                                                                         *)
(* A password is verified outside any transaction and takes long; what is  *)
(* written afterwards is conditional on the hash that was read. A password *)
(* hash is a version number, because every hash has a salt of its own.     *)
(***************************************************************************)
EXTENDS Absence, Naturals, FiniteSets

CONSTANTS Tokens,       \* session tokens
          Devices,      \* pairing credentials
          Slots,        \* password operations at a time (capacity of loginSlots)
          MaxSessions,  \* maxSessionsPerUser
          MaxDevices,   \* MaxIOSPairingDevices
          MaxRevision   \* bound: revisions of the account

VARIABLES
  account,    \* [password, on, pairing, revision] of modemdeck_users
  webSession, \* password version each session row was made under, or None
  op,         \* [kind, hash] of each password operation in progress, or None
  form,       \* the account as an administrator's page shows it, or None
  acting,     \* [session, step]: the request that logs the others out
  iosDevice   \* "pending" or "active" row of each credential, or None

accountVars == <<account, webSession, op, form, acting, iosDevice>>

Resting == [session |-> None, step |-> "idle"]

AccountTypeOK ==
  /\ account \in [password : 0..MaxRevision, on : BOOLEAN, pairing : BOOLEAN,
                  revision : 0..MaxRevision]
  /\ webSession \in [Tokens -> 0..MaxRevision \cup {None}]
  /\ op \in [Slots -> [kind : {"login", "change"}, hash : 0..MaxRevision]
                        \cup {None}]
  /\ form \in 0..MaxRevision \cup {None}
  /\ acting \in [session : Tokens \cup {None},
                 step : {"idle", "sessions", "devices"}]
  /\ iosDevice \in [Devices -> {"pending", "active", None}]

AccountInit ==
  /\ account \in [password : {0}, on : {TRUE}, pairing : BOOLEAN, revision : {0}]
  /\ webSession = [t \in Tokens |-> None]
  /\ op = [p \in Slots |-> None]
  /\ form = None /\ acting = Resting
  /\ iosDevice = [d \in Devices |-> None]

Live == {t \in Tokens : webSession[t] # None}
Paired(state) == {d \in Devices : iosDevice[d] = state}

NoSession == [t \in Tokens |-> None]
NoDevice == [d \in Devices |-> None]

-----------------------------------------------------------------------------
(* Password operations.                                                    *)

\* loginUser and changeUserPassword read the hash of an enabled account and
\* find that the password given matches it.
BeginLogin(p) ==
  /\ op[p] = None /\ account.on
  /\ op' = [op EXCEPT ![p] = [kind |-> "login", hash |-> account.password]]
  /\ UNCHANGED <<account, webSession, form, acting, iosDevice>>

BeginChange(p) ==
  /\ op[p] = None /\ account.on /\ Live # {}
  /\ op' = [op EXCEPT ![p] = [kind |-> "change", hash |-> account.password]]
  /\ UNCHANGED <<account, webSession, form, acting, iosDevice>>

\* Mutant: the row is written for any enabled account.
StillHasEnabled(hash) == account.on

\* The condition of both writes.
StillHas(hash) == account.on /\ account.password = hash

\* CreateUserSessionIfPasswordHash: the new row, and no more than MaxSessions:
\* the rows with the oldest timestamps go (a clock set back may choose any).
FinishLogin(p) ==
  /\ op[p] # None /\ op[p].kind = "login"
  /\ \/ /\ StillHas(op[p].hash)
        /\ \E t \in Tokens \ Live, kept \in SUBSET Tokens :
             /\ kept \subseteq Live \cup {t}
             /\ \/ kept = Live \cup {t} /\ Cardinality(kept) <= MaxSessions
                \/ Cardinality(Live) >= MaxSessions
                   /\ Cardinality(kept) = MaxSessions
             /\ webSession' = [x \in Tokens |->
                              CASE x \notin kept        -> None
                                [] x \in kept \cap {t}  -> op[p].hash
                                [] OTHER               -> webSession[x]]
     \/ UNCHANGED webSession
  /\ op' = [op EXCEPT ![p] = None]
  /\ UNCHANGED <<account, form, acting, iosDevice>>

NewPassword(fields) ==
  /\ account.revision < MaxRevision
  /\ account' = [fields EXCEPT !.password = account.revision + 1,
                               !.revision = account.revision + 1]
  /\ webSession' = NoSession /\ iosDevice' = NoDevice

\* ReplaceUserPasswordHashIfCurrentAndRevokeSessions.
FinishChange(p) ==
  /\ op[p] # None /\ op[p].kind = "change"
  /\ \/ StillHas(op[p].hash) /\ NewPassword(account)
     \/ UNCHANGED <<account, webSession, iosDevice>>
  /\ op' = [op EXCEPT ![p] = None]
  /\ UNCHANGED <<form, acting>>

-----------------------------------------------------------------------------
(* The administrator's page.                                               *)

OpenForm ==
  /\ form' = account.revision
  /\ UNCHANGED <<account, webSession, op, acting, iosDevice>>

\* UpdateMember writes the form if the account still has its revision, with a
\* new password or without.
SaveForm(on, pairing) ==
  /\ form # None /\ form' = None
  /\ IF form # account.revision
       THEN UNCHANGED <<account, webSession, iosDevice>>
       ELSE \/ NewPassword([account EXCEPT !.on = on, !.pairing = pairing])
            \/ /\ account.revision < MaxRevision
               /\ account' = [account EXCEPT !.on = on, !.pairing = pairing,
                                             !.revision = @ + 1]
               /\ webSession' = IF on THEN webSession ELSE NoSession
               /\ iosDevice' = IF on /\ pairing THEN iosDevice ELSE NoDevice
  /\ UNCHANGED <<op, acting>>

SetMemberPassword ==
  /\ NewPassword(account)
  /\ UNCHANGED <<op, form, acting>>

-----------------------------------------------------------------------------
(* Sessions and devices.                                                   *)

Logout(t) ==
  /\ webSession' = [webSession EXCEPT ![t] = None]
  /\ UNCHANGED <<account, op, form, acting, iosDevice>>

\* revokeOtherAccountSessions: the request authenticates, deletes the other
\* sessions, then the devices; an error ends it in between.
BeginRevokeOthers(t) ==
  /\ acting = Resting /\ t \in Live
  /\ acting' = [session |-> t, step |-> "sessions"]
  /\ UNCHANGED <<account, webSession, op, form, iosDevice>>

RevokeOthers ==
  /\ \/ /\ acting.step = "sessions"
        /\ webSession' = [t \in Tokens |-> IF t = acting.session THEN webSession[t]
                                        ELSE None]
        /\ acting' = [acting EXCEPT !.step = "devices"]
        /\ UNCHANGED iosDevice
     \/ /\ acting.step = "devices"
        /\ iosDevice' = NoDevice
        /\ acting' = Resting /\ UNCHANGED webSession
     \/ /\ acting # Resting /\ acting' = Resting
        /\ UNCHANGED <<webSession, iosDevice>>
  /\ UNCHANGED <<account, op, form>>

\* CreateIOSPairingCredential replaces the pending credential, if there is
\* room for one more device.
Pair(d) ==
  /\ iosDevice[d] = None /\ account.on /\ account.pairing
  /\ Cardinality(Paired("active")) < MaxDevices
  /\ iosDevice' = [x \in Devices |-> CASE x = d -> "pending"
                                    [] iosDevice[x] = "pending" -> None
                                    [] OTHER -> iosDevice[x]]
  /\ UNCHANGED <<account, webSession, op, form, acting>>

\* ConfirmIOSPairingCredential: the first request the device makes.
ConfirmDevice(d) ==
  /\ iosDevice[d] = "pending" /\ account.on /\ account.pairing
  /\ iosDevice' = [iosDevice EXCEPT ![d] = "active"]
  /\ UNCHANGED <<account, webSession, op, form, acting>>

RevokeDevice(d) ==
  /\ iosDevice' = [iosDevice EXCEPT ![d] = None]
  /\ UNCHANGED <<account, webSession, op, form, acting>>

RevokeDevices ==
  /\ iosDevice' = NoDevice
  /\ UNCHANGED <<account, webSession, op, form, acting>>

\* The process restarts: the rows stay.
RestartAccounts ==
  /\ op' = [p \in Slots |-> None] /\ acting' = Resting
  /\ UNCHANGED <<account, webSession, form, iosDevice>>

AccountNext ==
  \/ \E p \in Slots : \/ BeginLogin(p) \/ FinishLogin(p)
                      \/ BeginChange(p) \/ FinishChange(p)
  \/ OpenForm \/ \E on, pairing \in BOOLEAN : SaveForm(on, pairing)
  \/ SetMemberPassword
  \/ \E t \in Tokens : Logout(t) \/ BeginRevokeOthers(t)
  \/ RevokeOthers
  \/ \E d \in Devices : Pair(d) \/ ConfirmDevice(d) \/ RevokeDevice(d)
  \/ RevokeDevices \/ RestartAccounts

AccountSpec == AccountInit /\ [][AccountNext]_accountVars

-----------------------------------------------------------------------------
\* Every session was made under the password the account has now, whatever
\* password changes and logins overlapped, a disabled account has none, and
\* the sessions are never more than the cap.
SessionsAreCurrent ==
  /\ \A t \in Live : account.on /\ webSession[t] = account.password
  /\ Cardinality(Live) <= MaxSessions

\* Devices are paired only while the account may pair, one is pending at most,
\* and confirming it never exceeds the cap.
DevicesAreAllowed ==
  /\ \A d \in Devices : iosDevice[d] # None => account.on /\ account.pairing
  /\ Cardinality(Paired("pending")) <= 1
  /\ Cardinality(Paired("active") \cup Paired("pending")) <= MaxDevices

AccountsAreCurrent == SessionsAreCurrent /\ DevicesAreAllowed
=============================================================================
