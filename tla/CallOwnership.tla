---------------------------- MODULE CallOwnership ----------------------------
(***************************************************************************)
(* What the ownership manager promises, without records, reservations,     *)
(* deadlines or snapshots: a call gets at most one owner, keeps it until   *)
(* the committed projection says the call is over, and neither a line nor  *)
(* a session is ever in control of two calls.                              *)
(***************************************************************************)
CONSTANTS Holders, Calls, Lines, None, RestartOrphan

VARIABLES
  owner,    \* who controls each call, None when nobody does
  ending,   \* calls that only accept their hangup
  closed,   \* calls the committed projection reports as over
  line      \* the line of each call the projection knows

vars == <<owner, ending, closed, line>>

Init ==
  /\ owner = [c \in Calls |-> None]
  /\ ending = {}
  /\ closed = {}
  /\ line \in [Calls -> Lines \cup {None}]

\* A session takes control of a call: its only one, and alone on the line.  It
\* may have seen the call open just before it closed.
Take(c, h) ==
  /\ owner[c] = None /\ c \notin ending
  /\ \A d \in Calls \ {c} :
       /\ owner[d] # h
       /\ line[d] = line[c] => owner[d] \notin Holders
  /\ owner' = [owner EXCEPT ![c] = h]
  /\ UNCHANGED <<ending, closed, line>>

\* A call that was there before the manager is kept for nobody.
Inherit(c) ==
  /\ owner[c] = None
  /\ owner' = [owner EXCEPT ![c] = RestartOrphan]
  /\ UNCHANGED <<ending, closed, line>>

\* Expiry, cancellation and revocation end any number of calls at once.
End ==
  /\ ending' \in SUBSET Calls
  /\ ending \subseteq ending'
  /\ UNCHANGED <<owner, closed, line>>

\* One snapshot closes calls for good and makes others known.
Observe ==
  /\ closed' \in SUBSET Calls
  /\ closed \subseteq closed'
  /\ line' \in [Calls -> Lines \cup {None}]
  /\ \A c \in Calls : line[c] # None => line'[c] = line[c]
  /\ UNCHANGED <<owner, ending>>

\* Only a closed call loses its owner.
Forget(c) ==
  /\ c \in closed
  /\ owner' = [owner EXCEPT ![c] = None]
  /\ ending' = ending \ {c}
  /\ UNCHANGED <<closed, line>>

Next ==
  \/ End \/ Observe
  \/ \E c \in Calls : Inherit(c) \/ Forget(c) \/ \E h \in Holders : Take(c, h)

Spec == Init /\ [][Next]_vars
==============================================================================
