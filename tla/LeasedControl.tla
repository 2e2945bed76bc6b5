--------------------------- MODULE LeasedControl ---------------------------
(***************************************************************************)
(* What the agent's control lease promises, without gate, clock, sweeps or *)
(* restarts: calls are only connected by the application that holds the    *)
(* lease, and nobody gets the lease while a connected call is left.        *)
(***************************************************************************)
CONSTANTS Controllers, Calls, None

VARIABLES
  holder,   \* the application instance that holds the lease, or None
  user      \* who connected each call that is still connected, or None

vars == <<holder, user>>

Init == holder = None /\ user \in [Calls -> Controllers \cup {None}]

\* Nobody takes over while a connected call is left.
Grant(a) ==
  /\ holder = None
  /\ \A c \in Calls : user[c] = None
  /\ holder' = a
  /\ UNCHANGED user

\* Only the holder connects a call.
Connect(c) ==
  /\ holder # None /\ user[c] = None
  /\ user' = [user EXCEPT ![c] = holder]
  /\ UNCHANGED holder

\* Either side ends calls, several at once when a modem is reset.
Disconnect(S) ==
  /\ user' = [c \in Calls |-> IF c \in S THEN None ELSE user[c]]
  /\ UNCHANGED holder

\* Expiry, release, shutdown and crash take the lease; calls may outlive it.
Revoke == holder' = None /\ UNCHANGED user

Next ==
  \/ \E a \in Controllers : Grant(a)
  \/ \E c \in Calls : Connect(c)
  \/ \E S \in SUBSET Calls : Disconnect(S)
  \/ Revoke

Spec == Init /\ [][Next]_vars
=============================================================================
