---------------------------- MODULE ModemProofs -----------------------------
(***************************************************************************)
(* Theorems about the components around the modems, in the agent and in    *)
(* the application, for any number of calls, requests, messages and cards: *)
(* the initial states have the invariants of ModemInvariants, every action *)
(* keeps them, and what they say.                                          *)
(***************************************************************************)
EXTENDS ModemInvariants, FiniteSetTheorems, SequenceTheorems,
        WellFoundedInduction, TLAPS

-----------------------------------------------------------------------------
(***************************************************************************)
(* The audio devices of the host agent                                     *)
(***************************************************************************)

-----------------------------------------------------------------------------
(* What a step leaves alone                                                *)

\* An open is undisturbed by a step that changes neither its record nor its
\* device nor whether it is pending, the session of its call or about to be
\* closed.
LEMMA OpenUndisturbed ==
  ASSUME OpensInOrder, NEW o \in Opens,
         open'[o] = open[o], openDevice'[o] = openDevice[o],
         Owned(o)' <=> Owned(o),
         mediaSession[open[o].call] = o => mediaSession'[open[o].call] = o,
         o \in closing' <=> o \in closing, closed' = closed
  PROVE  (RunnerInOrder(o) /\ CallerInOrder(o) /\ DeviceInOrder(o))'
<1>1. RunnerInOrder(o) /\ CallerInOrder(o) /\ DeviceInOrder(o)
  BY DEF OpensInOrder
<1>2. RunnerInOrder(o)'
  BY <1>1 DEF RunnerInOrder, Unused
<1>3. CallerInOrder(o)'
  BY <1>1 DEF CallerInOrder
<1>4. DeviceInOrder(o)'
  BY <1>1 DEF DeviceInOrder
<1>5. QED
  BY <1>2, <1>3, <1>4

\* The leases fit when every open that holds one keeps it and no other starts
\* to hold one.
LEMMA HoldersStay ==
  ASSUME EndpointsLeased, leased' = leased, Holders' = Holders,
         \A p \in Holders : open'[p].endpoint = open[p].endpoint
  PROVE  EndpointsLeased'
BY DEF EndpointsLeased

\* They fit when an open stops to hold its lease and gives it back.
LEMMA HolderLeaves ==
  ASSUME AgentMediaAssumption, AgentMediaTypeOK, EndpointsLeased,
         NEW o \in Opens, open[o].endpoint = None \/ o \in Holders,
         leased' = leased \ {open[o].endpoint}, Holders' = Holders \ {o},
         \A p \in Holders' : open'[p].endpoint = open[p].endpoint
  PROVE  EndpointsLeased'
<1>1. leased \subseteq Endpoints
  BY DEF AgentMediaTypeOK
<1>2. \A p \in Holders : open[p].endpoint = open[o].endpoint => p = o
  BY DEF EndpointsLeased, Holders
<1>3. leased' = {open[p].endpoint : p \in Holders \ {o}}
  BY <1>1, <1>2 DEF EndpointsLeased, AgentMediaAssumption
<1>4. QED
  BY <1>3 DEF EndpointsLeased

-----------------------------------------------------------------------------
(* The caller's steps                                                      *)

LEMMA BeginOpenKeeps ==
  ASSUME AgentMediaAssumption, AgentMediaInv, NEW o \in Opens,
         NEW c \in ModemCalls, BeginOpen(o, c)
  PROVE  AgentMediaInv'
<1>1. /\ open'[o] \in OpenRecord
      /\ open'[o].call = c /\ open'[o].caller = "wait"
      /\ open'[o].runner = "resolve" /\ open'[o].endpoint = None
      /\ ~open'[o].opening /\ ~open'[o].completed /\ ~open'[o].abandoned
      /\ \A p \in Opens \ {o} : open'[p] = open[p]
      /\ open' \in [Opens -> OpenRecord]
  BY DEF AgentMediaInv, AgentMediaTypeOK, BeginOpen, OpenRecord, Unused
<1>2. AgentMediaTypeOK'
  BY <1>1 DEF AgentMediaInv, AgentMediaTypeOK, BeginOpen
<1>3. /\ ~Owned(o) /\ openDevice[o] = None /\ open[o].call = None
      /\ o \notin closing /\ pending[c] = None /\ mediaSession[c] = None
  BY DEF AgentMediaInv, AgentMediaAssumption, AgentMediaTypeOK, OpensInOrder,
     DeviceInOrder, CallsActive, BeginOpen, Unused, Owned
<1>4. Owned(o)' /\ \A p \in Opens \ {o} : Owned(p)' <=> Owned(p)
  BY <1>1, <1>3 DEF AgentMediaInv, AgentMediaAssumption, AgentMediaTypeOK,
     BeginOpen, Owned
<1>5. ASSUME NEW p \in Opens \ {o}
      PROVE  (RunnerInOrder(p) /\ CallerInOrder(p) /\ DeviceInOrder(p))'
  BY <1>1, <1>4, OpenUndisturbed DEF AgentMediaInv, BeginOpen
<1>6. (RunnerInOrder(o) /\ CallerInOrder(o) /\ DeviceInOrder(o))'
  BY <1>1, <1>3, <1>4 DEF AgentMediaAssumption, BeginOpen, RunnerInOrder,
     CallerInOrder, DeviceInOrder
<1>7. CallsInOrder'
  BY <1>1, <1>3 DEF AgentMediaInv, AgentMediaTypeOK, AgentMediaAssumption,
     CallsInOrder, BeginOpen
<1>8. Holders' = Holders
  BY <1>1, <1>3, <1>4 DEF Holders, BeginOpen, Unused
<1>9. EndpointsLeased'
  BY <1>1, <1>3, <1>8, HoldersStay DEF AgentMediaInv, BeginOpen, Holders, Unused
<1>10. CallsActive'
  BY DEF AgentMediaInv, AgentMediaAssumption, AgentMediaTypeOK, CallsActive,
     BeginOpen
<1>11. QED
  BY <1>2, <1>5, <1>6, <1>7, <1>9, <1>10 DEF AgentMediaInv, OpensInOrder

LEMMA CancelKeeps ==
  ASSUME AgentMediaInv, NEW o \in Opens, Cancel(o)
  PROVE  AgentMediaInv'
<1>1. /\ open' \in [Opens -> OpenRecord]
      /\ \A p \in Opens \ {o} : open'[p] = open[p]
      /\ open'[o].call = open[o].call /\ open'[o].caller = open[o].caller
      /\ open'[o].runner = open[o].runner
      /\ open'[o].endpoint = open[o].endpoint
      /\ open'[o].opening = open[o].opening
      /\ open'[o].completed = open[o].completed
      /\ open'[o].abandoned = open[o].abandoned
  BY DEF AgentMediaInv, AgentMediaTypeOK, Cancel, OpenRecord
<1>2. AgentMediaTypeOK'
  BY <1>1 DEF AgentMediaInv, AgentMediaTypeOK, Cancel
<1>3. \A p \in Opens : Owned(p)' <=> Owned(p)
  BY <1>1 DEF Cancel, Owned
<1>4. ASSUME NEW p \in Opens \ {o}
      PROVE  (RunnerInOrder(p) /\ CallerInOrder(p) /\ DeviceInOrder(p))'
  BY <1>1, <1>3, OpenUndisturbed DEF AgentMediaInv, Cancel
<1>5. (RunnerInOrder(o) /\ CallerInOrder(o) /\ DeviceInOrder(o))'
  BY <1>1, <1>3 DEF AgentMediaInv, OpensInOrder, Cancel, RunnerInOrder,
     CallerInOrder, DeviceInOrder
<1>6. CallsInOrder'
  BY <1>1 DEF AgentMediaInv, AgentMediaTypeOK, CallsInOrder, Cancel
<1>7. Holders' = Holders /\ \A p \in Opens : open'[p].endpoint = open[p].endpoint
  BY <1>1, <1>3 DEF Holders
<1>8. EndpointsLeased'
  BY <1>7, HoldersStay DEF AgentMediaInv, Cancel, Holders
<1>9. CallsActive'
  BY DEF AgentMediaInv, CallsActive, Cancel
<1>10. QED
  BY <1>2, <1>4, <1>5, <1>6, <1>8, <1>9 DEF AgentMediaInv, OpensInOrder

\* A pending open that is released leaves the tables of its call.
LEMMA PendingReleased ==
  ASSUME AgentMediaAssumption, AgentMediaInv, NEW o \in Opens, Owned(o),
         Released({o}), \A p \in Opens : open'[p].call = open[p].call
  PROVE  /\ open[o].call \in ModemCalls
         /\ active' = active \ {open[o].call}
         /\ leased' = leased \ {open[o].endpoint}
         /\ pending' = [pending EXCEPT ![open[o].call] = None]
         /\ mediaSession[open[o].call] = None
         /\ ~Owned(o)' /\ \A p \in Opens \ {o} : Owned(p)' <=> Owned(p)
<1>1. open[o].call \in ModemCalls /\ pending[open[o].call] = o
  BY DEF AgentMediaInv, AgentMediaTypeOK, OpenRecord, Owned
<1>2. \A c \in ModemCalls : pending[c] = o => c = open[o].call
  BY DEF AgentMediaInv, CallsInOrder, AgentMediaAssumption
<1>3. pending' = [pending EXCEPT ![open[o].call] = None]
  BY <1>1, <1>2 DEF Released, AgentMediaInv, AgentMediaTypeOK
<1>4. mediaSession[open[o].call] = None
  BY <1>1 DEF AgentMediaInv, CallsInOrder, AgentMediaAssumption
<1>5. ~Owned(o)' /\ \A p \in Opens \ {o} : Owned(p)' <=> Owned(p)
  BY <1>1, <1>3 DEF Owned, AgentMediaAssumption, AgentMediaInv,
     AgentMediaTypeOK, OpenRecord
<1>6. active' = active \ {open[o].call} /\ leased' = leased \ {open[o].endpoint}
  BY DEF Released
<1>7. QED
  BY <1>1, <1>3, <1>4, <1>5, <1>6

\* Then the tables fit again, if the open is otherwise left alone.
LEMMA ReleasedTablesFit ==
  ASSUME AgentMediaAssumption, AgentMediaInv, NEW o \in Opens, Owned(o),
         Released({o}), mediaSession' = mediaSession,
         \A p \in Opens : /\ open'[p].call = open[p].call
                          /\ open'[p].endpoint = open[p].endpoint,
         \A p \in Opens \ {o} : open'[p].caller = open[p].caller,
         open'[o].caller \in {"wait", "left"}
  PROVE  CallsInOrder' /\ EndpointsLeased' /\ CallsActive'
<1>1. /\ open[o].call \in ModemCalls
      /\ active' = active \ {open[o].call}
      /\ leased' = leased \ {open[o].endpoint}
      /\ pending' = [pending EXCEPT ![open[o].call] = None]
      /\ mediaSession[open[o].call] = None
      /\ ~Owned(o)' /\ \A p \in Opens \ {o} : Owned(p)' <=> Owned(p)
  BY PendingReleased
<1>2. open[o].caller \notin {"session", "release"}
  BY DEF AgentMediaInv, OpensInOrder, CallerInOrder
<1>3. CallsInOrder'
  BY <1>1, <1>2 DEF AgentMediaInv, AgentMediaTypeOK, AgentMediaAssumption,
     CallsInOrder
<1>4. Holders' = Holders \ {o} /\ (open[o].endpoint = None \/ o \in Holders)
  BY <1>1, <1>2 DEF Holders
<1>5. EndpointsLeased'
  BY <1>1, <1>4, HolderLeaves DEF AgentMediaInv, Holders
<1>6. CallsActive'
  BY <1>1 DEF AgentMediaInv, AgentMediaTypeOK, CallsActive
<1>7. QED
  BY <1>3, <1>5, <1>6

LEMMA AbandonKeeps ==
  ASSUME AgentMediaAssumption, AgentMediaInv, NEW o \in Opens, Abandon(o)
  PROVE  AgentMediaInv'
<1> DEFINE givenUp == open[o].abandoned \/ Owned(o)
<1>a. /\ open[o] \in OpenRecord /\ givenUp \in BOOLEAN
      /\ givenUp <=> (open[o].abandoned \/ Owned(o))
  BY DEF AgentMediaInv, AgentMediaTypeOK
<1> DEFINE given == [open[o] EXCEPT !.caller = "left", !.abandoned = givenUp]
<1>b. open' = [open EXCEPT ![o] = given] /\ open[o].caller = "wait"
  BY DEF Abandon, AgentMediaInv, AgentMediaTypeOK
<1> HIDE DEF givenUp
<1>c. /\ given \in OpenRecord /\ given.caller = "left"
      /\ given.call = open[o].call /\ given.runner = open[o].runner
      /\ given.endpoint = open[o].endpoint /\ given.opening = open[o].opening
      /\ given.completed = open[o].completed /\ given.abandoned = givenUp
  BY <1>a DEF OpenRecord
<1> HIDE DEF given
<1>1. /\ open' \in [Opens -> OpenRecord]
      /\ \A p \in Opens \ {o} : open'[p] = open[p]
      /\ open'[o].call = open[o].call /\ open'[o].caller = "left"
      /\ open'[o].runner = open[o].runner
      /\ open'[o].endpoint = open[o].endpoint
      /\ open'[o].opening = open[o].opening
      /\ open'[o].completed = open[o].completed
      /\ open'[o].abandoned = givenUp
      /\ open[o].caller = "wait"
  BY <1>b, <1>c DEF AgentMediaInv, AgentMediaTypeOK
<1>2. UNCHANGED <<closed, mediaSession, openDevice>>
  BY DEF Abandon
<1>3. RunnerInOrder(o) /\ CallerInOrder(o) /\ DeviceInOrder(o)
  BY DEF AgentMediaInv, OpensInOrder
<1>4. CASE Owned(o) /\ Removable(o)
  <2>1. Released({o}) /\ closing' = closing \cup Closable({o})
    BY <1>4 DEF Abandon
  <2>2. ~Owned(o)' /\ \A p \in Opens \ {o} : Owned(p)' <=> Owned(p)
    BY <1>1, <1>4, <2>1, PendingReleased
  <2>3. AgentMediaTypeOK'
    BY <1>1, <1>2, <2>1, <1>4, PendingReleased
    DEF AgentMediaInv, AgentMediaTypeOK, Closable
  <2>4. ASSUME NEW p \in Opens \ {o}
        PROVE  (RunnerInOrder(p) /\ CallerInOrder(p) /\ DeviceInOrder(p))'
    BY <1>1, <1>2, <2>1, <2>2, OpenUndisturbed DEF AgentMediaInv, Closable
  <2>5. (RunnerInOrder(o) /\ CallerInOrder(o) /\ DeviceInOrder(o))'
    BY <1>a, <1>1, <1>2, <1>3, <1>4, <2>1, <2>2
    DEF RunnerInOrder, CallerInOrder,
       DeviceInOrder, Closable, Removable
  <2>6. CallsInOrder' /\ EndpointsLeased' /\ CallsActive'
    BY <1>1, <1>2, <1>4, <2>1, ReleasedTablesFit
  <2>7. QED
    BY <2>3, <2>4, <2>5, <2>6 DEF AgentMediaInv, OpensInOrder
<1>5. CASE ~(Owned(o) /\ Removable(o))
  <2>1. UNCHANGED <<active, leased, pending, closing>>
    BY <1>5 DEF Abandon
  <2>2. \A p \in Opens : Owned(p)' <=> Owned(p)
    BY <1>1, <2>1 DEF Owned
  <2>3. AgentMediaTypeOK'
    BY <1>1, <1>2, <2>1 DEF AgentMediaInv, AgentMediaTypeOK
  <2>4. ASSUME NEW p \in Opens \ {o}
        PROVE  (RunnerInOrder(p) /\ CallerInOrder(p) /\ DeviceInOrder(p))'
    BY <1>1, <1>2, <2>1, <2>2, OpenUndisturbed DEF AgentMediaInv
  <2>5. (RunnerInOrder(o) /\ CallerInOrder(o) /\ DeviceInOrder(o))'
    BY <1>a, <1>1, <1>2, <1>3, <1>5, <2>1, <2>2
    DEF RunnerInOrder, CallerInOrder,
       DeviceInOrder, Removable
  <2>6. CallsInOrder'
    BY <1>1, <1>2, <2>1 DEF AgentMediaInv, AgentMediaTypeOK, CallsInOrder
  <2>7. Holders' = Holders
    BY <1>1, <2>2 DEF Holders
  <2>8. EndpointsLeased' /\ CallsActive'
    BY <1>1, <1>2, <2>1, <2>7, HoldersStay
    DEF AgentMediaInv, CallsActive, Holders
  <2>9. QED
    BY <2>3, <2>4, <2>5, <2>6, <2>8 DEF AgentMediaInv, OpensInOrder
<1>6. QED
  BY <1>4, <1>5

LEMMA ClaimKeeps ==
  ASSUME AgentMediaAssumption, AgentMediaInv, NEW o \in Opens, Claim(o)
  PROVE  AgentMediaInv'
<1> DEFINE lost == ~Owned(o) \/ open[o].abandoned \/ closed
           kept == ~lost /\ ~open[o].cancelled /\ openDevice[o] # None
<1>1. /\ open' \in [Opens -> OpenRecord]
      /\ \A p \in Opens \ {o} : open'[p] = open[p]
      /\ open'[o].call = open[o].call
      /\ open'[o].caller = IF kept THEN "session" ELSE "left"
      /\ open'[o].runner = "done" /\ open[o].runner = "done"
      /\ open'[o].endpoint = open[o].endpoint
      /\ open'[o].opening = open[o].opening
      /\ open'[o].completed = open[o].completed
      /\ open'[o].abandoned = open[o].abandoned
      /\ open[o].caller = "wait"
  BY DEF AgentMediaInv, AgentMediaTypeOK, Claim, OpenRecord
<1>2. UNCHANGED <<closed, openDevice>>
  BY DEF Claim
<1>3. RunnerInOrder(o) /\ CallerInOrder(o) /\ DeviceInOrder(o)
  BY DEF AgentMediaInv, OpensInOrder
<1>4. CASE lost
  <2>1. UNCHANGED <<active, leased, pending, mediaSession, closing>>
    BY <1>4 DEF Claim
  <2>2. ~Owned(o) /\ \A p \in Opens : Owned(p)' <=> Owned(p)
    BY <1>1, <1>3, <1>4, <2>1 DEF Owned, CallerInOrder, RunnerInOrder
  <2>3. AgentMediaTypeOK'
    BY <1>1, <1>2, <2>1 DEF AgentMediaInv, AgentMediaTypeOK
  <2>4. ASSUME NEW p \in Opens \ {o}
        PROVE  (RunnerInOrder(p) /\ CallerInOrder(p) /\ DeviceInOrder(p))'
    BY <1>1, <1>2, <2>1, <2>2, OpenUndisturbed DEF AgentMediaInv
  <2>5. (RunnerInOrder(o) /\ CallerInOrder(o) /\ DeviceInOrder(o))'
    BY <1>1, <1>2, <1>3, <1>4, <2>1, <2>2 DEF RunnerInOrder, CallerInOrder,
       DeviceInOrder
  <2>6. CallsInOrder'
    BY <1>1, <1>2, <1>4, <2>1 DEF AgentMediaInv, AgentMediaTypeOK, CallsInOrder
  <2>7. Holders' = Holders
    BY <1>1, <1>4, <2>2 DEF Holders
  <2>8. EndpointsLeased' /\ CallsActive'
    BY <1>1, <1>2, <2>1, <2>7, HoldersStay
    DEF AgentMediaInv, CallsActive, Holders
  <2>9. QED
    BY <2>3, <2>4, <2>5, <2>6, <2>8 DEF AgentMediaInv, OpensInOrder
<1>5. CASE kept
  <2>1. /\ mediaSession' = [mediaSession EXCEPT ![open[o].call] = o]
        /\ pending' = [pending EXCEPT ![open[o].call] = None]
        /\ UNCHANGED <<active, leased, closing>>
    BY <1>5 DEF Claim
  <2>2. open[o].call \in ModemCalls /\ pending[open[o].call] = o
    BY <1>5 DEF Owned, AgentMediaInv, AgentMediaTypeOK, OpenRecord
  <2>3. mediaSession[open[o].call] = None
    BY <2>2 DEF AgentMediaInv, CallsInOrder, AgentMediaAssumption
  <2>4. ~Owned(o)' /\ \A p \in Opens \ {o} : Owned(p)' <=> Owned(p)
    BY <1>1, <2>1, <2>2 DEF Owned, AgentMediaAssumption, AgentMediaInv,
       AgentMediaTypeOK, OpenRecord
  <2>5. AgentMediaTypeOK'
    BY <1>1, <1>2, <2>1, <2>2 DEF AgentMediaInv, AgentMediaTypeOK
  <2>6. ASSUME NEW p \in Opens \ {o}
        PROVE  (RunnerInOrder(p) /\ CallerInOrder(p) /\ DeviceInOrder(p))'
    <3>1. mediaSession[open[p].call] = p => mediaSession'[open[p].call] = p
      BY <2>1, <2>2, <2>3 DEF AgentMediaInv, AgentMediaTypeOK,
         AgentMediaAssumption
    <3>2. QED
      BY <1>1, <1>2, <2>1, <2>4, <3>1, OpenUndisturbed DEF AgentMediaInv
  <2>7. (RunnerInOrder(o) /\ CallerInOrder(o) /\ DeviceInOrder(o))'
    BY <1>1, <1>2, <1>3, <1>5, <2>1, <2>2, <2>4 DEF RunnerInOrder,
       CallerInOrder, DeviceInOrder, AgentMediaInv, AgentMediaTypeOK
  <2>8. CallsInOrder'
    BY <1>1, <1>2, <1>5, <2>1, <2>2, <2>3 DEF AgentMediaInv, AgentMediaTypeOK,
       CallsInOrder, AgentMediaAssumption
  <2>9. Holders' = Holders
    BY <1>1, <1>5, <2>4 DEF Holders
  <2>10. EndpointsLeased'
    BY <1>1, <1>2, <2>1, <2>9, HoldersStay DEF AgentMediaInv, Holders
  <2>11. CallsActive'
    BY <2>1, <2>2, <2>3 DEF AgentMediaInv, AgentMediaTypeOK, CallsActive,
       AgentMediaAssumption
  <2>12. QED
    BY <2>5, <2>6, <2>7, <2>8, <2>10, <2>11 DEF AgentMediaInv, OpensInOrder
<1>6. CASE ~lost /\ ~kept
  <2>1. /\ Released({o}) /\ closing' = closing \cup Closable({o})
        /\ mediaSession' = mediaSession
    BY <1>6 DEF Claim
  <2>2. ~Owned(o)' /\ \A p \in Opens \ {o} : Owned(p)' <=> Owned(p)
    BY <1>1, <1>6, <2>1, PendingReleased
  <2>3. AgentMediaTypeOK'
    BY <1>1, <1>2, <2>1, <1>6, PendingReleased
    DEF AgentMediaInv, AgentMediaTypeOK, Closable
  <2>4. ASSUME NEW p \in Opens \ {o}
        PROVE  (RunnerInOrder(p) /\ CallerInOrder(p) /\ DeviceInOrder(p))'
    BY <1>1, <1>2, <2>1, <2>2, OpenUndisturbed DEF AgentMediaInv, Closable
  <2>5. (RunnerInOrder(o) /\ CallerInOrder(o) /\ DeviceInOrder(o))'
    BY <1>1, <1>2, <1>3, <1>6, <2>1, <2>2 DEF RunnerInOrder, CallerInOrder,
       DeviceInOrder, Closable
  <2>6. CallsInOrder' /\ EndpointsLeased' /\ CallsActive'
    BY <1>1, <1>2, <1>6, <2>1, ReleasedTablesFit
  <2>7. QED
    BY <2>3, <2>4, <2>5, <2>6 DEF AgentMediaInv, OpensInOrder
<1>7. QED
  BY <1>4, <1>5, <1>6

LEMMA CloseSessionKeeps ==
  ASSUME AgentMediaAssumption, AgentMediaInv, NEW o \in Opens, CloseSession(o)
  PROVE  AgentMediaInv'
<1>1. /\ open' \in [Opens -> OpenRecord]
      /\ \A p \in Opens \ {o} : open'[p] = open[p]
      /\ open'[o].call = open[o].call /\ open'[o].caller = "release"
      /\ open'[o].runner = open[o].runner
      /\ open'[o].endpoint = open[o].endpoint
      /\ open'[o].opening = open[o].opening
      /\ open'[o].completed = open[o].completed
      /\ open'[o].abandoned = open[o].abandoned
      /\ open[o].caller = "session"
  BY DEF AgentMediaInv, AgentMediaTypeOK, CloseSession, OpenRecord
<1>2. AgentMediaTypeOK'
  BY <1>1 DEF AgentMediaInv, AgentMediaTypeOK, CloseSession
<1>3. \A p \in Opens : Owned(p)' <=> Owned(p)
  BY <1>1 DEF CloseSession, Owned
<1>4. openDevice'[o] = None /\ \A p \in Opens \ {o} : openDevice'[p] = openDevice[p]
  BY DEF CloseSession, AgentMediaInv, AgentMediaTypeOK
<1>5. ASSUME NEW p \in Opens \ {o}
      PROVE  (RunnerInOrder(p) /\ CallerInOrder(p) /\ DeviceInOrder(p))'
  BY <1>1, <1>3, <1>4, OpenUndisturbed DEF AgentMediaInv, CloseSession
<1>6. (RunnerInOrder(o) /\ CallerInOrder(o) /\ DeviceInOrder(o))'
  BY <1>1, <1>3, <1>4 DEF AgentMediaInv, OpensInOrder, CloseSession,
     RunnerInOrder, CallerInOrder, DeviceInOrder
<1>7. CallsInOrder'
  BY <1>1 DEF AgentMediaInv, AgentMediaTypeOK, CallsInOrder, CloseSession
<1>8. Holders' = Holders /\ \A p \in Opens : open'[p].endpoint = open[p].endpoint
  BY <1>1, <1>3 DEF Holders
<1>9. EndpointsLeased'
  BY <1>8, HoldersStay DEF AgentMediaInv, CloseSession, Holders
<1>10. CallsActive'
  BY DEF AgentMediaInv, CallsActive, CloseSession
<1>11. QED
  BY <1>2, <1>5, <1>6, <1>7, <1>9, <1>10 DEF AgentMediaInv, OpensInOrder

LEMMA ReleaseSessionKeeps ==
  ASSUME AgentMediaAssumption, AgentMediaInv, NEW o \in Opens, ReleaseSession(o)
  PROVE  AgentMediaInv'
<1> DEFINE c == open[o].call
<1>1. /\ open' \in [Opens -> OpenRecord]
      /\ \A p \in Opens \ {o} : open'[p] = open[p]
      /\ open'[o].call = c /\ open'[o].caller = "left"
      /\ open'[o].runner = open[o].runner
      /\ open'[o].endpoint = open[o].endpoint
      /\ open'[o].opening = open[o].opening
      /\ open'[o].completed = open[o].completed
      /\ open'[o].abandoned = open[o].abandoned
      /\ open[o].caller = "release"
  BY DEF AgentMediaInv, AgentMediaTypeOK, ReleaseSession, OpenRecord
<1>2. RunnerInOrder(o) /\ CallerInOrder(o) /\ DeviceInOrder(o)
  BY DEF AgentMediaInv, OpensInOrder
<1>3. c \in ModemCalls /\ mediaSession[c] = o /\ open[o].endpoint # None
  BY <1>1, <1>2 DEF RunnerInOrder, CallerInOrder, AgentMediaInv,
     AgentMediaTypeOK, OpenRecord
<1>4. pending[c] = None
  BY <1>3 DEF AgentMediaInv, CallsInOrder, AgentMediaAssumption
<1>5. mediaSession' = [mediaSession EXCEPT ![c] = None]
  BY <1>3 DEF ReleaseSession
<1>6. AgentMediaTypeOK'
  BY <1>1, <1>5 DEF AgentMediaInv, AgentMediaTypeOK, ReleaseSession
<1>7. ~Owned(o) /\ \A p \in Opens : Owned(p)' <=> Owned(p)
  BY <1>1, <1>4 DEF ReleaseSession, Owned, AgentMediaAssumption
<1>8. ASSUME NEW p \in Opens \ {o}
      PROVE  (RunnerInOrder(p) /\ CallerInOrder(p) /\ DeviceInOrder(p))'
  <2>1. mediaSession[open[p].call] = p => mediaSession'[open[p].call] = p
    BY <1>3, <1>5 DEF AgentMediaInv, AgentMediaTypeOK
  <2>2. QED
    BY <1>1, <1>7, <2>1, OpenUndisturbed DEF AgentMediaInv, ReleaseSession
<1>9. (RunnerInOrder(o) /\ CallerInOrder(o) /\ DeviceInOrder(o))'
  BY <1>1, <1>2, <1>7 DEF ReleaseSession, RunnerInOrder, CallerInOrder,
     DeviceInOrder
<1>10. CallsInOrder'
  BY <1>1, <1>3, <1>4, <1>5 DEF AgentMediaInv, AgentMediaTypeOK, CallsInOrder,
     ReleaseSession
<1>11. Holders' = Holders \ {o} /\ o \in Holders
  BY <1>1, <1>3, <1>7 DEF Holders
<1>12. EndpointsLeased'
  BY <1>1, <1>11, HolderLeaves DEF AgentMediaInv, ReleaseSession, Holders
<1>13. CallsActive'
  BY <1>3, <1>4, <1>5 DEF AgentMediaInv, AgentMediaTypeOK, CallsActive,
     ReleaseSession
<1>14. QED
  BY <1>6, <1>8, <1>9, <1>10, <1>12, <1>13 DEF AgentMediaInv, OpensInOrder

-----------------------------------------------------------------------------
(* The runner's steps                                                      *)

LEMMA ResolveKeeps ==
  ASSUME AgentMediaAssumption, AgentMediaInv, NEW o \in Opens, Resolve(o)
  PROVE  AgentMediaInv'
<1>1. UNCHANGED <<closed, active, pending, mediaSession, openDevice, closing>>
  BY DEF Resolve
<1>2. RunnerInOrder(o) /\ CallerInOrder(o) /\ DeviceInOrder(o)
  BY DEF AgentMediaInv, OpensInOrder
<1>3. open[o].runner = "resolve" /\ open[o].endpoint = None
  BY <1>2 DEF Resolve, RunnerInOrder
<1>4. ASSUME NEW e \in Endpoints \ leased,
             Owned(o), ~open[o].abandoned, ~closed,
             leased' = leased \cup {e},
             open' = [open EXCEPT ![o].endpoint = e, ![o].opening = TRUE,
                                  ![o].runner = "open"]
      PROVE  AgentMediaInv'
  <2> DEFINE given == [open[o] EXCEPT !.endpoint = e, !.opening = TRUE,
                                      !.runner = "open"]
  <2>a. open' = [open EXCEPT ![o] = given] /\ open[o] \in OpenRecord
    BY <1>4 DEF AgentMediaInv, AgentMediaTypeOK
  <2>b. /\ given \in OpenRecord /\ given.call = open[o].call
        /\ given.caller = open[o].caller /\ given.runner = "open"
        /\ given.endpoint = e /\ given.opening = TRUE
        /\ given.completed = open[o].completed
        /\ given.abandoned = open[o].abandoned
    BY <2>a DEF OpenRecord
  <2> HIDE DEF given
  <2>1. /\ open' \in [Opens -> OpenRecord]
        /\ \A p \in Opens \ {o} : open'[p] = open[p]
        /\ open'[o].call = open[o].call /\ open'[o].caller = open[o].caller
        /\ open'[o].runner = "open" /\ open'[o].endpoint = e /\ open'[o].opening
        /\ open'[o].completed = open[o].completed
        /\ open'[o].abandoned = open[o].abandoned
    BY <2>a, <2>b DEF AgentMediaInv, AgentMediaTypeOK
  <2>2. AgentMediaTypeOK'
    BY <1>1, <1>4, <2>1 DEF AgentMediaInv, AgentMediaTypeOK
  <2>3. \A p \in Opens : Owned(p)' <=> Owned(p)
    BY <1>1, <2>1 DEF Owned
  <2>4. ASSUME NEW p \in Opens \ {o}
        PROVE  (RunnerInOrder(p) /\ CallerInOrder(p) /\ DeviceInOrder(p))'
    BY <1>1, <2>1, <2>3, OpenUndisturbed DEF AgentMediaInv
  <2>5. (RunnerInOrder(o) /\ CallerInOrder(o) /\ DeviceInOrder(o))'
    BY <1>1, <1>2, <1>3, <1>4, <2>1, <2>3 DEF RunnerInOrder, CallerInOrder,
       DeviceInOrder, AgentMediaAssumption
  <2>6. CallsInOrder' /\ CallsActive'
    BY <1>1, <2>1 DEF AgentMediaInv, AgentMediaTypeOK, CallsInOrder, CallsActive
  <2>7. Holders' = Holders \cup {o} /\ o \notin Holders
    BY <1>3, <1>4, <2>1, <2>3 DEF Holders, AgentMediaAssumption
  <2>8. EndpointsLeased'
    BY <1>4, <2>1, <2>7 DEF AgentMediaInv, EndpointsLeased, Holders
  <2>9. QED
    BY <2>2, <2>4, <2>5, <2>6, <2>8 DEF AgentMediaInv, OpensInOrder
<1>5. ASSUME open' = [open EXCEPT ![o].runner = "finish"], UNCHANGED leased
      PROVE  AgentMediaInv'
  <2>1. /\ open' \in [Opens -> OpenRecord]
        /\ \A p \in Opens \ {o} : open'[p] = open[p]
        /\ open'[o].call = open[o].call /\ open'[o].caller = open[o].caller
        /\ open'[o].runner = "finish" /\ open'[o].endpoint = None
        /\ open'[o].opening = open[o].opening
        /\ open'[o].completed = open[o].completed
        /\ open'[o].abandoned = open[o].abandoned
    BY <1>3, <1>5 DEF AgentMediaInv, AgentMediaTypeOK, OpenRecord
  <2>2. AgentMediaTypeOK'
    BY <1>1, <1>5, <2>1 DEF AgentMediaInv, AgentMediaTypeOK
  <2>3. \A p \in Opens : Owned(p)' <=> Owned(p)
    BY <1>1, <2>1 DEF Owned
  <2>4. ASSUME NEW p \in Opens \ {o}
        PROVE  (RunnerInOrder(p) /\ CallerInOrder(p) /\ DeviceInOrder(p))'
    BY <1>1, <2>1, <2>3, OpenUndisturbed DEF AgentMediaInv
  <2>5. (RunnerInOrder(o) /\ CallerInOrder(o) /\ DeviceInOrder(o))'
    BY <1>1, <1>2, <1>3, <2>1, <2>3 DEF RunnerInOrder, CallerInOrder,
       DeviceInOrder
  <2>6. CallsInOrder' /\ CallsActive'
    BY <1>1, <2>1 DEF AgentMediaInv, AgentMediaTypeOK, CallsInOrder, CallsActive
  <2>7. Holders' = Holders /\ \A p \in Opens : open'[p].endpoint = open[p].endpoint
    BY <1>3, <2>1, <2>3 DEF Holders
  <2>8. EndpointsLeased'
    BY <1>5, <2>7, HoldersStay DEF AgentMediaInv, Holders
  <2>9. QED
    BY <2>2, <2>4, <2>5, <2>6, <2>8 DEF AgentMediaInv, OpensInOrder
<1>6. QED
  BY <1>4, <1>5 DEF Resolve

LEMMA OpenDeviceKeeps ==
  ASSUME AgentMediaAssumption, AgentMediaInv, NEW o \in Opens, OpenDevice(o)
  PROVE  AgentMediaInv'
<1>1. UNCHANGED <<closed, active, leased, pending, mediaSession, closing>>
  BY DEF OpenDevice
<1>2. /\ open' \in [Opens -> OpenRecord]
      /\ \A p \in Opens \ {o} : open'[p] = open[p]
      /\ open'[o].call = open[o].call /\ open'[o].caller = open[o].caller
      /\ open'[o].runner = "finish"
      /\ open'[o].endpoint = open[o].endpoint
      /\ open'[o].opening = open[o].opening
      /\ open'[o].completed = open[o].completed
      /\ open'[o].abandoned = open[o].abandoned
      /\ open[o].endpoint \in Endpoints \cup {None}
  BY DEF AgentMediaInv, AgentMediaTypeOK, OpenRecord, OpenDevice
<1>3. RunnerInOrder(o) /\ CallerInOrder(o) /\ DeviceInOrder(o)
  BY DEF AgentMediaInv, OpensInOrder
<1>4. /\ openDevice'[o] # None => openDevice'[o] = open[o].endpoint
      /\ \A p \in Opens \ {o} : openDevice'[p] = openDevice[p]
      /\ openDevice' \in [Opens -> Endpoints \cup {None}]
  BY <1>2, <1>3 DEF OpenDevice, DeviceInOrder, AgentMediaInv, AgentMediaTypeOK
<1>5. AgentMediaTypeOK'
  BY <1>1, <1>2, <1>4 DEF AgentMediaInv, AgentMediaTypeOK
<1>6. \A p \in Opens : Owned(p)' <=> Owned(p)
  BY <1>1, <1>2 DEF Owned
<1>7. ASSUME NEW p \in Opens \ {o}
      PROVE  (RunnerInOrder(p) /\ CallerInOrder(p) /\ DeviceInOrder(p))'
  BY <1>1, <1>2, <1>4, <1>6, OpenUndisturbed DEF AgentMediaInv
<1>8. (RunnerInOrder(o) /\ CallerInOrder(o) /\ DeviceInOrder(o))'
  BY <1>1, <1>2, <1>3, <1>4, <1>6 DEF OpenDevice, RunnerInOrder,
     CallerInOrder, DeviceInOrder
<1>9. CallsInOrder' /\ CallsActive'
  BY <1>1, <1>2 DEF AgentMediaInv, AgentMediaTypeOK, CallsInOrder, CallsActive
<1>10. Holders' = Holders /\ \A p \in Opens : open'[p].endpoint = open[p].endpoint
  BY <1>2, <1>6 DEF Holders
<1>11. EndpointsLeased'
  BY <1>1, <1>10, HoldersStay DEF AgentMediaInv, Holders
<1>12. QED
  BY <1>5, <1>7, <1>8, <1>9, <1>11 DEF AgentMediaInv, OpensInOrder

LEMMA FinishOpenKeeps ==
  ASSUME AgentMediaAssumption, AgentMediaInv, NEW o \in Opens, FinishOpen(o)
  PROVE  AgentMediaInv'
<1> DEFINE unwanted == Owned(o) /\ (open[o].abandoned \/ closed)
           completed == Owned(o)
           given == [open[o] EXCEPT !.runner = "done", !.opening = FALSE,
                                    !.completed = completed]
<1>1. /\ open' = [open EXCEPT ![o] = given] /\ open[o].runner = "finish"
      /\ UNCHANGED <<closed, mediaSession, openDevice>>
  BY DEF FinishOpen, AgentMediaInv, AgentMediaTypeOK
<1>2. /\ completed \in BOOLEAN /\ (completed <=> Owned(o))
      /\ open[o] \in OpenRecord
  BY DEF Owned, AgentMediaInv, AgentMediaTypeOK
<1>3. /\ unwanted => Released({o})
      /\ ~unwanted => UNCHANGED <<active, leased, pending>>
      /\ closing' = IF openDevice[o] # None /\ (unwanted \/ ~Owned(o))
                      THEN closing \cup {o} ELSE closing
  BY DEF FinishOpen
<1> HIDE DEF completed
<1>4. /\ given \in OpenRecord /\ given.runner = "done" /\ ~given.opening
      /\ given.completed = completed /\ given.call = open[o].call
      /\ given.caller = open[o].caller /\ given.endpoint = open[o].endpoint
      /\ given.abandoned = open[o].abandoned
  BY <1>2 DEF OpenRecord
<1> HIDE DEF given
<1>5. /\ open' \in [Opens -> OpenRecord]
      /\ \A p \in Opens \ {o} : open'[p] = open[p]
      /\ open'[o].call = open[o].call /\ open'[o].caller = open[o].caller
      /\ open'[o].runner = "done" /\ ~open'[o].opening
      /\ open'[o].endpoint = open[o].endpoint
      /\ open'[o].completed <=> Owned(o)
      /\ open'[o].abandoned = open[o].abandoned
  BY <1>1, <1>2, <1>4 DEF AgentMediaInv, AgentMediaTypeOK
<1>6. RunnerInOrder(o) /\ CallerInOrder(o) /\ DeviceInOrder(o)
  BY DEF AgentMediaInv, OpensInOrder
<1>7. open[o].caller \in {"wait", "left"}
  BY <1>1, <1>6 DEF RunnerInOrder, CallerInOrder, AgentMediaInv,
     AgentMediaTypeOK, OpenRecord
<1>8. closing' \subseteq Opens /\ \A p \in Opens \ {o} : p \in closing' <=> p \in closing
  BY <1>3 DEF AgentMediaInv, AgentMediaTypeOK
<1>9. CASE unwanted
  <2>1. ~Owned(o)' /\ \A p \in Opens \ {o} : Owned(p)' <=> Owned(p)
    BY <1>3, <1>5, <1>9, PendingReleased
  <2>2. AgentMediaTypeOK'
    BY <1>1, <1>3, <1>5, <1>8, <1>9, PendingReleased
    DEF AgentMediaInv, AgentMediaTypeOK
  <2>3. ASSUME NEW p \in Opens \ {o}
        PROVE  (RunnerInOrder(p) /\ CallerInOrder(p) /\ DeviceInOrder(p))'
    BY <1>1, <1>5, <1>8, <2>1, OpenUndisturbed DEF AgentMediaInv
  <2>4. (RunnerInOrder(o) /\ CallerInOrder(o) /\ DeviceInOrder(o))'
    BY <1>1, <1>3, <1>5, <1>6, <1>7, <1>9, <2>1 DEF RunnerInOrder,
       CallerInOrder, DeviceInOrder
  <2>5. CallsInOrder' /\ EndpointsLeased' /\ CallsActive'
    BY <1>1, <1>3, <1>5, <1>7, <1>9, ReleasedTablesFit
  <2>6. QED
    BY <2>2, <2>3, <2>4, <2>5 DEF AgentMediaInv, OpensInOrder
<1>10. CASE ~unwanted
  <2>1. UNCHANGED <<active, leased, pending>>
    BY <1>3, <1>10
  <2>2. \A p \in Opens : Owned(p)' <=> Owned(p)
    BY <1>5, <2>1 DEF Owned
  <2>3. AgentMediaTypeOK'
    BY <1>1, <1>5, <1>8, <2>1 DEF AgentMediaInv, AgentMediaTypeOK
  <2>4. ASSUME NEW p \in Opens \ {o}
        PROVE  (RunnerInOrder(p) /\ CallerInOrder(p) /\ DeviceInOrder(p))'
    BY <1>1, <1>5, <1>8, <2>2, OpenUndisturbed DEF AgentMediaInv
  <2>5. (RunnerInOrder(o) /\ CallerInOrder(o) /\ DeviceInOrder(o))'
    BY <1>1, <1>3, <1>5, <1>6, <1>7, <1>10, <2>2 DEF RunnerInOrder,
       CallerInOrder, DeviceInOrder
  <2>6. CallsInOrder' /\ CallsActive'
    BY <1>1, <1>5, <2>1 DEF AgentMediaInv, AgentMediaTypeOK, CallsInOrder,
       CallsActive
  <2>7. Holders' = Holders /\ \A p \in Opens : open'[p].endpoint = open[p].endpoint
    BY <1>5, <2>2 DEF Holders
  <2>8. EndpointsLeased'
    BY <2>1, <2>7, HoldersStay DEF AgentMediaInv, Holders
  <2>9. QED
    BY <2>3, <2>4, <2>5, <2>6, <2>8 DEF AgentMediaInv, OpensInOrder
<1>11. QED
  BY <1>9, <1>10

LEMMA CloseDeviceKeeps ==
  ASSUME AgentMediaInv, NEW o \in Opens, CloseDevice(o)
  PROVE  AgentMediaInv'
<1>1. UNCHANGED <<closed, active, leased, pending, mediaSession, open>>
  BY DEF CloseDevice
<1>2. /\ openDevice'[o] = None /\ o \notin closing'
      /\ \A p \in Opens \ {o} : /\ openDevice'[p] = openDevice[p]
                                /\ p \in closing' <=> p \in closing
  BY DEF CloseDevice, AgentMediaInv, AgentMediaTypeOK
<1>3. AgentMediaTypeOK'
  BY <1>1 DEF AgentMediaInv, AgentMediaTypeOK, CloseDevice
<1>4. \A p \in Opens : Owned(p)' <=> Owned(p)
  BY <1>1 DEF Owned
<1>5. ASSUME NEW p \in Opens \ {o}
      PROVE  (RunnerInOrder(p) /\ CallerInOrder(p) /\ DeviceInOrder(p))'
  BY <1>1, <1>2, <1>4, OpenUndisturbed DEF AgentMediaInv
<1>6. (RunnerInOrder(o) /\ CallerInOrder(o) /\ DeviceInOrder(o))'
  BY <1>1, <1>2, <1>4 DEF AgentMediaInv, OpensInOrder, RunnerInOrder,
     CallerInOrder, DeviceInOrder, CloseDevice
<1>7. CallsInOrder' /\ CallsActive' /\ Holders' = Holders
  BY <1>1, <1>4 DEF AgentMediaInv, CallsInOrder, CallsActive, Holders
<1>8. EndpointsLeased'
  BY <1>1, <1>7, HoldersStay DEF AgentMediaInv
<1>9. QED
  BY <1>3, <1>5, <1>6, <1>7, <1>8 DEF AgentMediaInv, OpensInOrder

LEMMA ForgetKeeps ==
  ASSUME AgentMediaAssumption, AgentMediaInv, NEW o \in Opens, Forget(o)
  PROVE  AgentMediaInv'
<1>1. UNCHANGED <<closed, active, leased, pending, mediaSession, openDevice,
                  closing>>
  BY DEF Forget
<1>2. RunnerInOrder(o) /\ CallerInOrder(o) /\ DeviceInOrder(o)
  BY DEF AgentMediaInv, OpensInOrder
<1>3. ~Owned(o) /\ openDevice[o] = None /\ o \notin closing
  BY <1>2 DEF Forget, RunnerInOrder, CallerInOrder, DeviceInOrder
<1>4. /\ open' \in [Opens -> OpenRecord]
      /\ \A p \in Opens \ {o} : open'[p] = open[p]
      /\ open'[o] = Unused
  BY DEF AgentMediaInv, AgentMediaTypeOK, OpenRecord, Unused, Forget
<1>5. AgentMediaTypeOK'
  BY <1>1, <1>4 DEF AgentMediaInv, AgentMediaTypeOK
<1>6. \A p \in Opens : Owned(p)' <=> Owned(p)
  BY <1>1, <1>3, <1>4 DEF Owned, Unused
<1>7. ASSUME NEW p \in Opens \ {o}
      PROVE  (RunnerInOrder(p) /\ CallerInOrder(p) /\ DeviceInOrder(p))'
  BY <1>1, <1>4, <1>6, OpenUndisturbed DEF AgentMediaInv
<1>8. (RunnerInOrder(o) /\ CallerInOrder(o) /\ DeviceInOrder(o))'
  BY <1>1, <1>3, <1>4, <1>6 DEF Unused, RunnerInOrder, CallerInOrder,
     DeviceInOrder
<1>9. CallsInOrder'
  <2>1. ASSUME NEW c \in ModemCalls, pending[c] = o PROVE FALSE
    BY <1>3, <2>1 DEF AgentMediaInv, CallsInOrder, AgentMediaAssumption, Owned
  <2>2. ASSUME NEW c \in ModemCalls, mediaSession[c] = o PROVE FALSE
    BY <2>2 DEF AgentMediaInv, CallsInOrder, AgentMediaAssumption, Forget
  <2>3. QED
    BY <1>1, <1>4, <2>1, <2>2 DEF AgentMediaInv, AgentMediaTypeOK, CallsInOrder
<1>10. Holders' = Holders /\ o \notin Holders
  BY <1>3, <1>4, <1>6 DEF Holders, Unused, Forget
<1>11. EndpointsLeased'
  BY <1>1, <1>4, <1>10, HoldersStay DEF AgentMediaInv, Holders
<1>12. CallsActive'
  BY <1>1 DEF AgentMediaInv, CallsActive
<1>13. QED
  BY <1>5, <1>7, <1>8, <1>9, <1>11, <1>12 DEF AgentMediaInv, OpensInOrder

-----------------------------------------------------------------------------
(* Close                                                                   *)

LEMMA CloseManagerKeeps ==
  ASSUME AgentMediaAssumption, AgentMediaInv, CloseManager
  PROVE  AgentMediaInv'
<1> DEFINE waiting == {o \in Opens : Owned(o)}
           gone == {o \in waiting : Removable(o)}
<1>1. /\ ~closed /\ closed' = TRUE
      /\ open' = [o \in Opens |->
                    IF o \in waiting
                      THEN [open[o] EXCEPT !.abandoned = TRUE, !.cancelled = TRUE]
                      ELSE open[o]]
      /\ Released(gone) /\ closing' = closing \cup Closable(gone)
      /\ UNCHANGED <<mediaSession, openDevice>>
  BY DEF CloseManager
<1>2. \A o \in Opens :
        /\ open'[o] \in OpenRecord
        /\ open'[o].call = open[o].call /\ open'[o].caller = open[o].caller
        /\ open'[o].runner = open[o].runner
        /\ open'[o].endpoint = open[o].endpoint
        /\ open'[o].opening = open[o].opening
        /\ open'[o].completed = open[o].completed
        /\ open'[o].abandoned <=> (open[o].abandoned \/ Owned(o))
        /\ ~Owned(o) => open'[o] = open[o]
  BY <1>1 DEF AgentMediaInv, AgentMediaTypeOK, OpenRecord
<1>3. open' \in [Opens -> OpenRecord]
  BY <1>1, <1>2
<1>4. \A o \in gone : open[o].call \in ModemCalls /\ pending[open[o].call] = o
  BY DEF Owned, AgentMediaInv, AgentMediaTypeOK, OpenRecord
<1>5. \A c \in ModemCalls :
        pending'[c] = IF pending[c] \in gone THEN None ELSE pending[c]
  BY <1>1 DEF Released
<1>6. \A o \in Opens : Owned(o)' <=> (Owned(o) /\ o \notin gone)
  BY <1>2, <1>5 DEF Owned, AgentMediaInv, AgentMediaTypeOK, OpenRecord,
     AgentMediaAssumption
<1>a. gone \in SUBSET Opens /\ Closable(gone) \in SUBSET Opens
  BY DEF Closable
<1>b. \A c \in ModemCalls : pending[c] # None => pending[c] \in Opens
  BY DEF AgentMediaInv, AgentMediaTypeOK
<1>c. \A c \in ModemCalls : mediaSession[c] # None => mediaSession[c] \in Opens
  BY DEF AgentMediaInv, AgentMediaTypeOK
<1>7. AgentMediaTypeOK'
  BY <1>1, <1>3 DEF AgentMediaInv, AgentMediaTypeOK, Released, Closable
<1>8. ASSUME NEW o \in Opens
      PROVE  (RunnerInOrder(o) /\ CallerInOrder(o) /\ DeviceInOrder(o))'
  <2>1. RunnerInOrder(o) /\ CallerInOrder(o) /\ DeviceInOrder(o)
    BY DEF AgentMediaInv, OpensInOrder
  <2>2. RunnerInOrder(o)'
    BY <1>2, <1>6, <2>1 DEF RunnerInOrder, CallerInOrder, Removable, Unused
  <2>3. CallerInOrder(o)'
    BY <1>1, <1>2, <1>6, <2>1 DEF CallerInOrder, RunnerInOrder, Removable
  <2>4. DeviceInOrder(o)'
    BY <1>1, <1>2, <1>6, <2>1 DEF DeviceInOrder, RunnerInOrder, CallerInOrder,
       Closable
  <2>5. QED
    BY <2>2, <2>3, <2>4
<1>d. None \notin gone
  BY DEF AgentMediaAssumption
<1>e. \A o \in gone : o \in Opens /\ Owned(o)
  OBVIOUS
<1>f. mediaSession' = mediaSession
  BY <1>1
<1> HIDE DEF gone
<1>9. CallsInOrder'
  BY <1>2, <1>5, <1>b, <1>c, <1>f DEF AgentMediaInv, CallsInOrder
<1>10. \A o \in gone : open[o].caller \notin {"session", "release"}
  BY <1>e DEF AgentMediaInv, OpensInOrder, CallerInOrder
<1>11. Holders' = Holders \ gone
  BY <1>2, <1>6, <1>10 DEF Holders
<1>12. \A o \in gone : open[o].endpoint # None => o \in Holders
  BY <1>e DEF Holders
<1>13. \A o, p \in Holders : open[o].endpoint = open[p].endpoint => o = p
  BY DEF AgentMediaInv, EndpointsLeased
<1>14. leased' = {open[o].endpoint : o \in Holders \ gone}
  <2>1. leased' = leased \ {open[o].endpoint : o \in gone}
    BY <1>1 DEF Released
  <2>2. leased = {open[o].endpoint : o \in Holders} /\ None \notin leased
    BY DEF AgentMediaInv, EndpointsLeased, Holders
  <2>3. QED
    BY <1>12, <1>13, <2>1, <2>2
<1>15. EndpointsLeased'
  BY <1>2, <1>11, <1>13, <1>14 DEF EndpointsLeased, Holders
<1>16. \A o \in gone : mediaSession[open[o].call] = None
  BY <1>4, <1>d DEF AgentMediaInv, CallsInOrder
<1>17. \A c \in ModemCalls : pending[c] \in gone => open[pending[c]].call = c
  BY <1>d DEF AgentMediaInv, CallsInOrder
<1>18. CallsActive'
  <2>1. active' = active \ {open[o].call : o \in gone}
    BY <1>1 DEF Released
  <2>2. active = {c \in ModemCalls : pending[c] # None \/ mediaSession[c] # None}
    BY DEF AgentMediaInv, CallsActive
  <2>3. mediaSession' = mediaSession
    BY <1>1
  <2>4. ASSUME NEW c \in ModemCalls
        PROVE  c \in active' <=> (pending'[c] # None \/ mediaSession[c] # None)
    BY <1>4, <1>5, <1>16, <1>17, <1>d, <2>1, <2>2
  <2>5. QED
    BY <2>1, <2>2, <2>3, <2>4 DEF CallsActive
<1>19. QED
  BY <1>7, <1>8, <1>9, <1>15, <1>18 DEF AgentMediaInv, OpensInOrder

-----------------------------------------------------------------------------
(* The theorems                                                            *)

LEMMA AgentMediaInvInit ==
  ASSUME AgentMediaAssumption, AgentMediaInit
  PROVE  AgentMediaInv
<1>1. AgentMediaTypeOK
  BY DEF AgentMediaInit, AgentMediaTypeOK, OpenRecord, Unused
<1>2. OpensInOrder
  BY DEF AgentMediaInit, OpensInOrder, RunnerInOrder, CallerInOrder,
     DeviceInOrder, Unused, Owned
<1>3. CallsInOrder /\ CallsActive
  BY DEF AgentMediaInit, CallsInOrder, CallsActive
<1>4. Holders = {}
  BY DEF Holders, AgentMediaInit, Unused
<1>5. EndpointsLeased
  BY <1>4 DEF EndpointsLeased, AgentMediaInit
<1>6. QED
  BY <1>1, <1>2, <1>3, <1>5 DEF AgentMediaInv

LEMMA AgentMediaInvNext ==
  ASSUME AgentMediaAssumption, AgentMediaInv,
         [AgentMediaNext]_agentMediaVars
  PROVE  AgentMediaInv'
<1>1. CASE UNCHANGED agentMediaVars
  <2>1. \A o \in Opens : Owned(o)' <=> Owned(o)
    BY <1>1 DEF agentMediaVars, Owned
  <2>2. Holders' = Holders
    BY <1>1, <2>1 DEF agentMediaVars, Holders
  <2>3. OpensInOrder'
    BY <1>1, <2>1, OpenUndisturbed DEF AgentMediaInv, OpensInOrder,
       agentMediaVars
  <2>4. EndpointsLeased'
    BY <1>1, <2>2, HoldersStay DEF AgentMediaInv, agentMediaVars
  <2>5. QED
    BY <1>1, <2>3, <2>4 DEF AgentMediaInv, AgentMediaTypeOK, CallsInOrder,
       CallsActive, agentMediaVars
<1>2. ASSUME NEW o \in Opens, NEW c \in ModemCalls, BeginOpen(o, c)
      PROVE  AgentMediaInv'
  BY <1>2, BeginOpenKeeps
<1>3. ASSUME NEW o \in Opens,
             \/ Cancel(o) \/ Abandon(o) \/ Claim(o) \/ CloseSession(o)
             \/ ReleaseSession(o)
      PROVE  AgentMediaInv'
  BY <1>3, CancelKeeps, AbandonKeeps, ClaimKeeps, CloseSessionKeeps,
     ReleaseSessionKeeps
<1>4. ASSUME NEW o \in Opens,
             \/ Resolve(o) \/ OpenDevice(o) \/ FinishOpen(o)
             \/ CloseDevice(o) \/ Forget(o)
      PROVE  AgentMediaInv'
  BY <1>4, ResolveKeeps, OpenDeviceKeeps, FinishOpenKeeps, CloseDeviceKeeps,
     ForgetKeeps
<1>5. CASE CloseManager
  BY <1>5, CloseManagerKeeps
<1>6. QED
  BY <1>1, <1>2, <1>3, <1>4, <1>5 DEF AgentMediaNext

\* What the invariant says of the devices: an open device belongs to somebody,
\* and only one that is about to be closed shares its endpoint with another.
LEMMA AgentMediaInvImplies ==
  ASSUME AgentMediaAssumption, AgentMediaInv
  PROVE  OneDevicePerEndpoint
<1>1. LeasesAreHeld
  BY DEF AgentMediaInv, EndpointsLeased, CallsActive, LeasesAreHeld
<1>2. ASSUME NEW o \in Opens, openDevice[o] # None, o \notin closing
      PROVE  o \in Holders /\ openDevice[o] = open[o].endpoint
  BY <1>2 DEF AgentMediaInv, OpensInOrder, RunnerInOrder, DeviceInOrder, Holders
<1>3. ASSUME NEW o \in Opens, openDevice[o] # None
      PROVE  \/ open[o].runner = "finish" \/ open[o].caller = "session"
             \/ (Owned(o) /\ open[o].runner = "done") \/ o \in closing
  BY <1>3 DEF AgentMediaInv, OpensInOrder, DeviceInOrder
<1>4. ASSUME NEW o \in Opens, NEW p \in Opens \ {o},
             openDevice[o] # None, openDevice[p] = openDevice[o]
      PROVE  closing \cap {o, p} # {}
  BY <1>2, <1>4 DEF AgentMediaInv, EndpointsLeased
<1>5. DevicesAreOwned
  BY <1>3, <1>4 DEF DevicesAreOwned
<1>6. QED
  BY <1>1, <1>5 DEF OneDevicePerEndpoint

\* Whatever opens, cancellations, answers of the backend and Close do to each
\* other, the tables of the manager and the open devices keep their types ...
THEOREM AgentMediaTypes ==
  ASSUME AgentMediaAssumption
  PROVE  AgentMediaSpec => []AgentMediaTypeOK
<1>1. AgentMediaInit => AgentMediaInv
  BY AgentMediaInvInit
<1>2. AgentMediaInv /\ [AgentMediaNext]_agentMediaVars => AgentMediaInv'
  BY AgentMediaInvNext
<1>3. AgentMediaInv => AgentMediaTypeOK
  BY DEF AgentMediaInv
<1>4. QED
  BY <1>1, <1>2, <1>3, PTL DEF AgentMediaSpec

\* ... a lease belongs to exactly one pending open or session and a call to at
\* most one of either, so that nothing is leaked; and no endpoint has two open
\* devices unless one of them is about to be closed (agent media Manager.Open,
\* abandonPendingOpen, claimPendingOpen, finishPendingOpen, Close).
THEOREM AgentMediaSafety ==
  ASSUME AgentMediaAssumption
  PROVE  AgentMediaSpec => []OneDevicePerEndpoint
<1>1. AgentMediaInit => AgentMediaInv
  BY AgentMediaInvInit
<1>2. AgentMediaInv /\ [AgentMediaNext]_agentMediaVars => AgentMediaInv'
  BY AgentMediaInvNext
<1>3. AgentMediaInv => OneDevicePerEndpoint
  BY AgentMediaInvImplies
<1>4. QED
  BY <1>1, <1>2, <1>3, PTL DEF AgentMediaSpec

-----------------------------------------------------------------------------
(***************************************************************************)
(* The refresh loop, the watcher and what pages were told                  *)
(***************************************************************************)

-----------------------------------------------------------------------------
\* The synchronizer starts with empty pages and no lease.
LEMMA SyncInvInit ==
  ASSUME SyncInit
  PROVE  SyncInv
BY DEF SyncInit, SyncInv, SyncTypeOK, DigestsAreTold, LeaseIsWatched,
       RefreshIsAwaited, ObservedIsReal

\* No step of the loop, the watcher, a refresh or the agent breaks the invariant.
LEMMA SyncInvNext ==
  ASSUME SyncInv, [SyncNext]_syncVars
  PROVE  SyncInv'
<1> USE DEF SyncInv
<1>1. CASE Change
  <2>1. SyncTypeOK'
    BY <1>1
    DEF Change, SyncTypeOK, RecordFailure, EndRefresh, Refreshes,
        ObservedIsReal, LinesView, viewVars, loopVars, appVars
  <2>2. DigestsAreTold'
    BY <1>1
    DEF Change, SyncTypeOK, DigestsAreTold, RefreshIsAwaited, RecordFailure,
        EndRefresh, LinesView, viewVars, loopVars, appVars
  <2>3. LeaseIsWatched'
    BY <1>1
    DEF Change, SyncTypeOK, LeaseIsWatched, RefreshIsAwaited, RecordFailure,
        EndRefresh, Refreshes, viewVars, loopVars, appVars
  <2>4. RefreshIsAwaited'
    BY <1>1
    DEF Change, SyncTypeOK, RefreshIsAwaited, RecordFailure, EndRefresh,
        Refreshes, viewVars, loopVars, appVars
  <2>5. ObservedIsReal'
    BY <1>1
    DEF Change, SyncTypeOK, ObservedIsReal, RecordFailure, EndRefresh,
        Refreshes, viewVars, loopVars, appVars
  <2> QED
    BY <2>1, <2>2, <2>3, <2>4, <2>5
<1>2. CASE Fade
  <2>1. SyncTypeOK'
    BY <1>2
    DEF Fade, SyncTypeOK, RecordFailure, EndRefresh, Refreshes, ObservedIsReal,
        LinesView, viewVars, loopVars, appVars
  <2>2. DigestsAreTold'
    BY <1>2
    DEF Fade, SyncTypeOK, DigestsAreTold, RefreshIsAwaited, RecordFailure,
        EndRefresh, LinesView, viewVars, loopVars, appVars
  <2>3. LeaseIsWatched'
    BY <1>2
    DEF Fade, SyncTypeOK, LeaseIsWatched, RefreshIsAwaited, RecordFailure,
        EndRefresh, Refreshes, viewVars, loopVars, appVars
  <2>4. RefreshIsAwaited'
    BY <1>2
    DEF Fade, SyncTypeOK, RefreshIsAwaited, RecordFailure, EndRefresh,
        Refreshes, viewVars, loopVars, appVars
  <2>5. ObservedIsReal'
    BY <1>2
    DEF Fade, SyncTypeOK, ObservedIsReal, RecordFailure, EndRefresh, Refreshes,
        viewVars, loopVars, appVars
  <2> QED
    BY <2>1, <2>2, <2>3, <2>4, <2>5
<1>3. CASE AgentStops
  <2> DEFINE no == FALSE
  <2>a. no \in BOOLEAN
    OBVIOUS
  <2>b. agent' = [agent EXCEPT !.up = no] /\ UNCHANGED <<calls, radio, appVars>>
    BY <1>3 DEF AgentStops
  <2> HIDE DEF no
  <2>1. SyncTypeOK'
    BY <2>a, <2>b DEF SyncTypeOK, appVars
  <2>2. DigestsAreTold'
    BY <1>3
    DEF AgentStops, SyncTypeOK, DigestsAreTold, RefreshIsAwaited,
        RecordFailure, EndRefresh, LinesView, viewVars, loopVars, appVars
  <2>3. LeaseIsWatched'
    BY <1>3
    DEF AgentStops, SyncTypeOK, LeaseIsWatched, RefreshIsAwaited,
        RecordFailure, EndRefresh, Refreshes, viewVars, loopVars, appVars
  <2>4. RefreshIsAwaited'
    BY <1>3
    DEF AgentStops, SyncTypeOK, RefreshIsAwaited, RecordFailure, EndRefresh,
        Refreshes, viewVars, loopVars, appVars
  <2>5. ObservedIsReal'
    BY <1>3
    DEF AgentStops, SyncTypeOK, ObservedIsReal, RecordFailure, EndRefresh,
        Refreshes, viewVars, loopVars, appVars
  <2> QED
    BY <2>1, <2>2, <2>3, <2>4, <2>5
<1>4. CASE AgentStarts
  <2>1. SyncTypeOK'
    BY <1>4
    DEF AgentStarts, SyncTypeOK, RecordFailure, EndRefresh, Refreshes,
        ObservedIsReal, LinesView, viewVars, loopVars, appVars
  <2>2. DigestsAreTold'
    BY <1>4
    DEF AgentStarts, SyncTypeOK, DigestsAreTold, RefreshIsAwaited,
        RecordFailure, EndRefresh, LinesView, viewVars, loopVars, appVars
  <2>3. LeaseIsWatched'
    BY <1>4
    DEF AgentStarts, SyncTypeOK, LeaseIsWatched, RefreshIsAwaited,
        RecordFailure, EndRefresh, Refreshes, viewVars, loopVars, appVars
  <2>4. RefreshIsAwaited'
    BY <1>4
    DEF AgentStarts, SyncTypeOK, RefreshIsAwaited, RecordFailure, EndRefresh,
        Refreshes, viewVars, loopVars, appVars
  <2>5. ObservedIsReal'
    BY <1>4
    DEF AgentStarts, SyncTypeOK, ObservedIsReal, RecordFailure, EndRefresh,
        Refreshes, viewVars, loopVars, appVars
  <2> QED
    BY <2>1, <2>2, <2>3, <2>4, <2>5
<1>5. CASE Subscribe
  <2>1. SyncTypeOK'
    BY <1>5
    DEF Subscribe, SyncTypeOK, RecordFailure, EndRefresh, Refreshes,
        ObservedIsReal, LinesView, viewVars, loopVars, appVars
  <2>2. DigestsAreTold'
    BY <1>5
    DEF Subscribe, SyncTypeOK, DigestsAreTold, RefreshIsAwaited, RecordFailure,
        EndRefresh, LinesView, viewVars, loopVars, appVars
  <2>3. LeaseIsWatched'
    BY <1>5
    DEF Subscribe, SyncTypeOK, LeaseIsWatched, RefreshIsAwaited, RecordFailure,
        EndRefresh, Refreshes, viewVars, loopVars, appVars
  <2>4. RefreshIsAwaited'
    BY <1>5
    DEF Subscribe, SyncTypeOK, RefreshIsAwaited, RecordFailure, EndRefresh,
        Refreshes, viewVars, loopVars, appVars
  <2>5. ObservedIsReal'
    BY <1>5
    DEF Subscribe, SyncTypeOK, ObservedIsReal, RecordFailure, EndRefresh,
        Refreshes, viewVars, loopVars, appVars
  <2> QED
    BY <2>1, <2>2, <2>3, <2>4, <2>5
<1>6. CASE Notify
  <2>1. SyncTypeOK'
    BY <1>6
    DEF Notify, SyncTypeOK, RecordFailure, EndRefresh, Refreshes,
        ObservedIsReal, LinesView, viewVars, loopVars, appVars
  <2>2. DigestsAreTold'
    BY <1>6
    DEF Notify, SyncTypeOK, DigestsAreTold, RefreshIsAwaited, RecordFailure,
        EndRefresh, LinesView, viewVars, loopVars, appVars
  <2>3. LeaseIsWatched'
    BY <1>6
    DEF Notify, SyncTypeOK, LeaseIsWatched, RefreshIsAwaited, RecordFailure,
        EndRefresh, Refreshes, viewVars, loopVars, appVars
  <2>4. RefreshIsAwaited'
    BY <1>6
    DEF Notify, SyncTypeOK, RefreshIsAwaited, RecordFailure, EndRefresh,
        Refreshes, viewVars, loopVars, appVars
  <2>5. ObservedIsReal'
    BY <1>6
    DEF Notify, SyncTypeOK, ObservedIsReal, RecordFailure, EndRefresh,
        Refreshes, viewVars, loopVars, appVars
  <2> QED
    BY <2>1, <2>2, <2>3, <2>4, <2>5
<1>7. CASE StreamEnds
  <2>1. SyncTypeOK'
    BY <1>7
    DEF StreamEnds, SyncTypeOK, RecordFailure, EndRefresh, Refreshes,
        ObservedIsReal, LinesView, viewVars, loopVars, appVars
  <2>2. DigestsAreTold'
    BY <1>7
    DEF StreamEnds, SyncTypeOK, DigestsAreTold, RefreshIsAwaited,
        RecordFailure, EndRefresh, LinesView, viewVars, loopVars, appVars
  <2>3. LeaseIsWatched'
    BY <1>7
    DEF StreamEnds, SyncTypeOK, LeaseIsWatched, RefreshIsAwaited,
        RecordFailure, EndRefresh, Refreshes, viewVars, loopVars, appVars
  <2>4. RefreshIsAwaited'
    BY <1>7
    DEF StreamEnds, SyncTypeOK, RefreshIsAwaited, RecordFailure, EndRefresh,
        Refreshes, viewVars, loopVars, appVars
  <2>5. ObservedIsReal'
    BY <1>7
    DEF StreamEnds, SyncTypeOK, ObservedIsReal, RecordFailure, EndRefresh,
        Refreshes, viewVars, loopVars, appVars
  <2> QED
    BY <2>1, <2>2, <2>3, <2>4, <2>5
<1>8. CASE Redial
  <2>1. SyncTypeOK'
    BY <1>8
    DEF Redial, SyncTypeOK, RecordFailure, EndRefresh, Refreshes,
        ObservedIsReal, LinesView, viewVars, loopVars, appVars
  <2>2. DigestsAreTold'
    BY <1>8
    DEF Redial, SyncTypeOK, DigestsAreTold, RefreshIsAwaited, RecordFailure,
        EndRefresh, LinesView, viewVars, loopVars, appVars
  <2>3. LeaseIsWatched'
    BY <1>8
    DEF Redial, SyncTypeOK, LeaseIsWatched, RefreshIsAwaited, RecordFailure,
        EndRefresh, Refreshes, viewVars, loopVars, appVars
  <2>4. RefreshIsAwaited'
    BY <1>8
    DEF Redial, SyncTypeOK, RefreshIsAwaited, RecordFailure, EndRefresh,
        Refreshes, viewVars, loopVars, appVars
  <2>5. ObservedIsReal'
    BY <1>8
    DEF Redial, SyncTypeOK, ObservedIsReal, RecordFailure, EndRefresh,
        Refreshes, viewVars, loopVars, appVars
  <2> QED
    BY <2>1, <2>2, <2>3, <2>4, <2>5
<1>9. CASE \E by \in {"run", "caller"} : BeginRefresh(by)
  <2>1. SyncTypeOK'
    BY <1>9
    DEF BeginRefresh, SyncTypeOK, RecordFailure, EndRefresh, Refreshes,
        ObservedIsReal, LinesView, viewVars, loopVars, appVars
  <2>2. DigestsAreTold'
    BY <1>9
    DEF BeginRefresh, SyncTypeOK, DigestsAreTold, RefreshIsAwaited,
        RecordFailure, EndRefresh, LinesView, viewVars, loopVars, appVars
  <2>3. LeaseIsWatched'
    BY <1>9
    DEF BeginRefresh, SyncTypeOK, LeaseIsWatched, RefreshIsAwaited,
        RecordFailure, EndRefresh, Refreshes, viewVars, loopVars, appVars
  <2>4. RefreshIsAwaited'
    BY <1>9
    DEF BeginRefresh, SyncTypeOK, RefreshIsAwaited, RecordFailure, EndRefresh,
        Refreshes, viewVars, loopVars, appVars
  <2>5. ObservedIsReal'
    BY <1>9
    DEF BeginRefresh, SyncTypeOK, ObservedIsReal, RecordFailure, EndRefresh,
        Refreshes, viewVars, loopVars, appVars
  <2> QED
    BY <2>1, <2>2, <2>3, <2>4, <2>5
<1>10. CASE Observe
  <2> DEFINE seen == [epoch |-> agent.epoch, calls |-> calls, radio |-> radio]
  <2>a. seen \in [epoch : Nat, calls : Nat, radio : Nat]
    BY DEF SyncTypeOK
  <2>b. /\ refresh # None /\ refresh' = [refresh EXCEPT !.step = "apply", !.seen = seen]
        /\ UNCHANGED <<calls, radio, agent, buffer, loopVars, sample, viewVars, control>>
    BY <1>10 DEF Observe
  <2> HIDE DEF seen
  <2>c. refresh' \in Refreshes
    BY <2>a, <2>b DEF SyncTypeOK, Refreshes
  <2>1. SyncTypeOK'
    BY <2>b, <2>c DEF SyncTypeOK, loopVars, viewVars
  <2>2. DigestsAreTold'
    BY <1>10
    DEF Observe, SyncTypeOK, DigestsAreTold, RefreshIsAwaited, RecordFailure,
        EndRefresh, LinesView, viewVars, loopVars, appVars
  <2>3. LeaseIsWatched'
    BY <1>10
    DEF Observe, SyncTypeOK, LeaseIsWatched, RefreshIsAwaited, RecordFailure,
        EndRefresh, Refreshes, viewVars, loopVars, appVars
  <2>4. RefreshIsAwaited'
    BY <1>10
    DEF Observe, SyncTypeOK, RefreshIsAwaited, RecordFailure, EndRefresh,
        Refreshes, viewVars, loopVars, appVars
  <2>5. ObservedIsReal'
    <3>1. /\ refresh' # None => refresh'.seen = [epoch |-> agent.epoch, calls |-> calls, radio |-> radio]
          /\ UNCHANGED <<calls, radio, db, status, sample>>
      BY <1>10 DEF Observe, SyncTypeOK, Refreshes, viewVars
    <3>2. refresh' # None => refresh'.seen \in [epoch : Nat, calls : Nat, radio : Nat]
      BY <3>1 DEF SyncTypeOK
    <3> QED
      BY <3>1, <3>2 DEF ObservedIsReal, SyncTypeOK
  <2> QED
    BY <2>1, <2>2, <2>3, <2>4, <2>5
<1>11. CASE ApplySnapshot
  <2>1. SyncTypeOK'
    BY <1>11
    DEF ApplySnapshot, SyncTypeOK, RecordFailure, EndRefresh, Refreshes,
        ObservedIsReal, LinesView, viewVars, loopVars, appVars
  <2>2. DigestsAreTold'
    BY <1>11
    DEF ApplySnapshot, SyncTypeOK, DigestsAreTold, RefreshIsAwaited,
        RecordFailure, EndRefresh, LinesView, viewVars, loopVars, appVars
  <2>3. LeaseIsWatched'
    BY <1>11
    DEF ApplySnapshot, SyncTypeOK, LeaseIsWatched, RefreshIsAwaited,
        RecordFailure, EndRefresh, Refreshes, viewVars, loopVars, appVars
  <2>4. RefreshIsAwaited'
    BY <1>11
    DEF ApplySnapshot, SyncTypeOK, RefreshIsAwaited, RecordFailure, EndRefresh,
        Refreshes, viewVars, loopVars, appVars
  <2>5. ObservedIsReal'
    BY <1>11
    DEF ApplySnapshot, SyncTypeOK, ObservedIsReal, RecordFailure, EndRefresh,
        Refreshes, viewVars, loopVars, appVars
  <2> QED
    BY <2>1, <2>2, <2>3, <2>4, <2>5
<1>12. CASE RefreshFails
  <2> DEFINE no == FALSE
             why == IF refresh.step = "observe" THEN "agent" ELSE "store"
  <2>a. no \in BOOLEAN /\ why \in {None, "agent", "store"}
    OBVIOUS
  <2>b. status' = [status EXCEPT !.connected = no, !.error = why]
    BY <1>12 DEF RefreshFails, RecordFailure
  <2> HIDE DEF no, why
  <2>c. status' \in [connected : BOOLEAN, error : {None, "agent", "store"},
                     events : BOOLEAN, epoch : Nat, radio : Nat]
    BY <2>a, <2>b DEF SyncTypeOK
  <2>d. /\ digest' = [lines |-> digest'.lines, calls |-> digest'.calls]
        /\ shown' = [lines |-> shown'.lines, calls |-> shown'.calls]
    BY <1>12 DEF RefreshFails, RecordFailure, SyncTypeOK
  <2>e. /\ refresh' = None
        /\ run' \in {"refresh", "wait", "select", "sample", "renew", "release",
                     "leaving", "stopped"}
        /\ watcher' \in {"off", "dialing", "waiting", "opened", "told", "open",
                         "lost", "ended"}
        /\ UNCHANGED <<calls, radio, agent, sample, db, control>>
    BY <1>12 DEF RefreshFails, EndRefresh, SyncTypeOK
  <2>1. SyncTypeOK'
    BY <2>c, <2>d, <2>e DEF SyncTypeOK
  <2>2. DigestsAreTold'
    BY <1>12
    DEF RefreshFails, SyncTypeOK, DigestsAreTold, RefreshIsAwaited,
        RecordFailure, EndRefresh, LinesView, viewVars, loopVars, appVars
  <2>3. LeaseIsWatched'
    BY <1>12
    DEF RefreshFails, SyncTypeOK, LeaseIsWatched, RefreshIsAwaited,
        RecordFailure, EndRefresh, Refreshes, viewVars, loopVars, appVars
  <2>4. RefreshIsAwaited'
    BY <1>12
    DEF RefreshFails, SyncTypeOK, RefreshIsAwaited, RecordFailure, EndRefresh,
        Refreshes, viewVars, loopVars, appVars
  <2>5. ObservedIsReal'
    BY <1>12
    DEF RefreshFails, SyncTypeOK, ObservedIsReal, RecordFailure, EndRefresh,
        Refreshes, viewVars, loopVars, appVars
  <2> QED
    BY <2>1, <2>2, <2>3, <2>4, <2>5
<1>13. CASE Show
  <2>1. SyncTypeOK'
    BY <1>13
    DEF Show, SyncTypeOK, RecordFailure, EndRefresh, Refreshes, ObservedIsReal,
        LinesView, viewVars, loopVars, appVars
  <2>2. DigestsAreTold'
    BY <1>13
    DEF Show, SyncTypeOK, DigestsAreTold, RefreshIsAwaited, RecordFailure,
        EndRefresh, LinesView, viewVars, loopVars, appVars
  <2>3. LeaseIsWatched'
    BY <1>13
    DEF Show, SyncTypeOK, LeaseIsWatched, RefreshIsAwaited, RecordFailure,
        EndRefresh, Refreshes, viewVars, loopVars, appVars
  <2>4. RefreshIsAwaited'
    BY <1>13
    DEF Show, SyncTypeOK, RefreshIsAwaited, RecordFailure, EndRefresh,
        Refreshes, viewVars, loopVars, appVars
  <2>5. ObservedIsReal'
    BY <1>13
    DEF Show, SyncTypeOK, ObservedIsReal, RecordFailure, EndRefresh, Refreshes,
        viewVars, loopVars, appVars
  <2> QED
    BY <2>1, <2>2, <2>3, <2>4, <2>5
<1>14. CASE Reconcile
  <2>1. SyncTypeOK'
    BY <1>14
    DEF Reconcile, SyncTypeOK, RecordFailure, EndRefresh, Refreshes,
        ObservedIsReal, LinesView, viewVars, loopVars, appVars
  <2>2. DigestsAreTold'
    BY <1>14
    DEF Reconcile, SyncTypeOK, DigestsAreTold, RefreshIsAwaited, RecordFailure,
        EndRefresh, LinesView, viewVars, loopVars, appVars
  <2>3. LeaseIsWatched'
    BY <1>14
    DEF Reconcile, SyncTypeOK, LeaseIsWatched, RefreshIsAwaited, RecordFailure,
        EndRefresh, Refreshes, viewVars, loopVars, appVars
  <2>4. RefreshIsAwaited'
    BY <1>14
    DEF Reconcile, SyncTypeOK, RefreshIsAwaited, RecordFailure, EndRefresh,
        Refreshes, viewVars, loopVars, appVars
  <2>5. ObservedIsReal'
    BY <1>14
    DEF Reconcile, SyncTypeOK, ObservedIsReal, RecordFailure, EndRefresh,
        Refreshes, viewVars, loopVars, appVars
  <2> QED
    BY <2>1, <2>2, <2>3, <2>4, <2>5
<1>15. CASE Publish
  <2>1. SyncTypeOK'
    BY <1>15
    DEF Publish, SyncTypeOK, RecordFailure, EndRefresh, Refreshes,
        ObservedIsReal, LinesView, viewVars, loopVars, appVars
  <2>2. DigestsAreTold'
    BY <1>15
    DEF Publish, SyncTypeOK, DigestsAreTold, RefreshIsAwaited, RecordFailure,
        EndRefresh, LinesView, viewVars, loopVars, appVars
  <2>3. LeaseIsWatched'
    BY <1>15
    DEF Publish, SyncTypeOK, LeaseIsWatched, RefreshIsAwaited, RecordFailure,
        EndRefresh, Refreshes, viewVars, loopVars, appVars
  <2>4. RefreshIsAwaited'
    BY <1>15
    DEF Publish, SyncTypeOK, RefreshIsAwaited, RecordFailure, EndRefresh,
        Refreshes, viewVars, loopVars, appVars
  <2>5. ObservedIsReal'
    BY <1>15
    DEF Publish, SyncTypeOK, ObservedIsReal, RecordFailure, EndRefresh,
        Refreshes, viewVars, loopVars, appVars
  <2> QED
    BY <2>1, <2>2, <2>3, <2>4, <2>5
<1>16. CASE TakeCase
  <2> DEFINE no == FALSE
             yes == TRUE
             next == {control, [control EXCEPT !.healthy = no], [control EXCEPT !.healthy = yes]}
  <2>a. no \in BOOLEAN /\ yes \in BOOLEAN
    OBVIOUS
  <2>b. control' \in next
    BY <1>16 DEF TakeCase
  <2>c. control' \in [supported : BOOLEAN, healthy : BOOLEAN, wanted : BOOLEAN]
    <3> HIDE DEF no, yes
    <3> QED
      BY <2>a, <2>b DEF SyncTypeOK
  <2> HIDE DEF no, yes, next
  <2>d. /\ run' \in {"refresh", "wait", "select", "sample", "renew", "release",
                     "leaving", "stopped"}
        /\ watcher' \in {"off", "dialing", "waiting", "opened", "told", "open",
                         "lost", "ended"}
        /\ UNCHANGED <<calls, radio, agent, sample, refresh, viewVars>>
    BY <1>16 DEF TakeCase, SyncTypeOK
  <2>1. SyncTypeOK'
    BY <2>c, <2>d DEF SyncTypeOK, viewVars
  <2>2. DigestsAreTold'
    BY <1>16
    DEF TakeCase, SyncTypeOK, DigestsAreTold, RefreshIsAwaited, RecordFailure,
        EndRefresh, LinesView, viewVars, loopVars, appVars
  <2>3. LeaseIsWatched'
    BY <1>16
    DEF TakeCase, SyncTypeOK, LeaseIsWatched, RefreshIsAwaited, RecordFailure,
        EndRefresh, Refreshes, viewVars, loopVars, appVars
  <2>4. RefreshIsAwaited'
    BY <1>16
    DEF TakeCase, SyncTypeOK, RefreshIsAwaited, RecordFailure, EndRefresh,
        Refreshes, viewVars, loopVars, appVars
  <2>5. ObservedIsReal'
    BY <1>16
    DEF TakeCase, SyncTypeOK, ObservedIsReal, RecordFailure, EndRefresh,
        Refreshes, viewVars, loopVars, appVars
  <2> QED
    BY <2>1, <2>2, <2>3, <2>4, <2>5
<1>17. CASE Maintain
  <2>1. SyncTypeOK'
    BY <1>17
    DEF Maintain, SyncTypeOK, RecordFailure, EndRefresh, Refreshes,
        ObservedIsReal, LinesView, viewVars, loopVars, appVars
  <2>2. DigestsAreTold'
    BY <1>17
    DEF Maintain, SyncTypeOK, DigestsAreTold, RefreshIsAwaited, RecordFailure,
        EndRefresh, LinesView, viewVars, loopVars, appVars
  <2>3. LeaseIsWatched'
    BY <1>17
    DEF Maintain, SyncTypeOK, LeaseIsWatched, RefreshIsAwaited, RecordFailure,
        EndRefresh, Refreshes, viewVars, loopVars, appVars
  <2>4. RefreshIsAwaited'
    BY <1>17
    DEF Maintain, SyncTypeOK, RefreshIsAwaited, RecordFailure, EndRefresh,
        Refreshes, viewVars, loopVars, appVars
  <2>5. ObservedIsReal'
    BY <1>17
    DEF Maintain, SyncTypeOK, ObservedIsReal, RecordFailure, EndRefresh,
        Refreshes, viewVars, loopVars, appVars
  <2> QED
    BY <2>1, <2>2, <2>3, <2>4, <2>5
<1>18. CASE TakeSample
  <2>1. SyncTypeOK'
    BY <1>18
    DEF TakeSample, SyncTypeOK, RecordFailure, EndRefresh, Refreshes,
        ObservedIsReal, LinesView, viewVars, loopVars, appVars
  <2>2. DigestsAreTold'
    BY <1>18
    DEF TakeSample, SyncTypeOK, DigestsAreTold, RefreshIsAwaited,
        RecordFailure, EndRefresh, LinesView, viewVars, loopVars, appVars
  <2>3. LeaseIsWatched'
    BY <1>18
    DEF TakeSample, SyncTypeOK, LeaseIsWatched, RefreshIsAwaited,
        RecordFailure, EndRefresh, Refreshes, viewVars, loopVars, appVars
  <2>4. RefreshIsAwaited'
    BY <1>18
    DEF TakeSample, SyncTypeOK, RefreshIsAwaited, RecordFailure, EndRefresh,
        Refreshes, viewVars, loopVars, appVars
  <2>5. ObservedIsReal'
    BY <1>18
    DEF TakeSample, SyncTypeOK, ObservedIsReal, RecordFailure, EndRefresh,
        Refreshes, viewVars, loopVars, appVars
  <2> QED
    BY <2>1, <2>2, <2>3, <2>4, <2>5
<1>19. CASE ApplySample
  <2>1. SyncTypeOK'
    BY <1>19
    DEF ApplySample, SyncTypeOK, RecordFailure, EndRefresh, Refreshes,
        ObservedIsReal, LinesView, viewVars, loopVars, appVars
  <2>2. DigestsAreTold'
    BY <1>19
    DEF ApplySample, SyncTypeOK, DigestsAreTold, RefreshIsAwaited,
        RecordFailure, EndRefresh, LinesView, viewVars, loopVars, appVars
  <2>3. LeaseIsWatched'
    BY <1>19
    DEF ApplySample, SyncTypeOK, LeaseIsWatched, RefreshIsAwaited,
        RecordFailure, EndRefresh, Refreshes, viewVars, loopVars, appVars
  <2>4. RefreshIsAwaited'
    BY <1>19
    DEF ApplySample, SyncTypeOK, RefreshIsAwaited, RecordFailure, EndRefresh,
        Refreshes, viewVars, loopVars, appVars
  <2>5. ObservedIsReal'
    BY <1>19
    DEF ApplySample, SyncTypeOK, ObservedIsReal, RecordFailure, EndRefresh,
        Refreshes, viewVars, loopVars, appVars
  <2> QED
    BY <2>1, <2>2, <2>3, <2>4, <2>5
<1>20. CASE Renew
  <2>1. SyncTypeOK'
    BY <1>20
    DEF Renew, SyncTypeOK, RecordFailure, EndRefresh, Refreshes,
        ObservedIsReal, LinesView, viewVars, loopVars, appVars
  <2>2. DigestsAreTold'
    BY <1>20
    DEF Renew, SyncTypeOK, DigestsAreTold, RefreshIsAwaited, RecordFailure,
        EndRefresh, LinesView, viewVars, loopVars, appVars
  <2>3. LeaseIsWatched'
    BY <1>20
    DEF Renew, SyncTypeOK, LeaseIsWatched, RefreshIsAwaited, RecordFailure,
        EndRefresh, Refreshes, viewVars, loopVars, appVars
  <2>4. RefreshIsAwaited'
    BY <1>20
    DEF Renew, SyncTypeOK, RefreshIsAwaited, RecordFailure, EndRefresh,
        Refreshes, viewVars, loopVars, appVars
  <2>5. ObservedIsReal'
    BY <1>20
    DEF Renew, SyncTypeOK, ObservedIsReal, RecordFailure, EndRefresh,
        Refreshes, viewVars, loopVars, appVars
  <2> QED
    BY <2>1, <2>2, <2>3, <2>4, <2>5
<1>21. CASE Release
  <2> DEFINE no == FALSE
  <2>a. no \in BOOLEAN
    OBVIOUS
  <2>b. control' = [control EXCEPT !.wanted = no]
    BY <1>21 DEF Release
  <2> HIDE DEF no
  <2>c. control' \in [supported : BOOLEAN, healthy : BOOLEAN, wanted : BOOLEAN]
    BY <2>a, <2>b DEF SyncTypeOK
  <2>d. run' \in {"select", "stopped"}
        /\ UNCHANGED <<calls, radio, agent, watcher, sample, refresh, viewVars>>
    BY <1>21 DEF Release, loopVars
  <2>1. SyncTypeOK'
    BY <2>c, <2>d DEF SyncTypeOK, viewVars
  <2>2. DigestsAreTold'
    BY <1>21
    DEF Release, SyncTypeOK, DigestsAreTold, RefreshIsAwaited, RecordFailure,
        EndRefresh, LinesView, viewVars, loopVars, appVars
  <2>3. LeaseIsWatched'
    BY <1>21
    DEF Release, SyncTypeOK, LeaseIsWatched, RefreshIsAwaited, RecordFailure,
        EndRefresh, Refreshes, viewVars, loopVars, appVars
  <2>4. RefreshIsAwaited'
    BY <1>21
    DEF Release, SyncTypeOK, RefreshIsAwaited, RecordFailure, EndRefresh,
        Refreshes, viewVars, loopVars, appVars
  <2>5. ObservedIsReal'
    BY <1>21
    DEF Release, SyncTypeOK, ObservedIsReal, RecordFailure, EndRefresh,
        Refreshes, viewVars, loopVars, appVars
  <2> QED
    BY <2>1, <2>2, <2>3, <2>4, <2>5
<1>22. CASE Stop
  <2>1. SyncTypeOK'
    BY <1>22
    DEF Stop, SyncTypeOK, RecordFailure, EndRefresh, Refreshes, ObservedIsReal,
        LinesView, viewVars, loopVars, appVars
  <2>2. DigestsAreTold'
    BY <1>22
    DEF Stop, SyncTypeOK, DigestsAreTold, RefreshIsAwaited, RecordFailure,
        EndRefresh, LinesView, viewVars, loopVars, appVars
  <2>3. LeaseIsWatched'
    BY <1>22
    DEF Stop, SyncTypeOK, LeaseIsWatched, RefreshIsAwaited, RecordFailure,
        EndRefresh, Refreshes, viewVars, loopVars, appVars
  <2>4. RefreshIsAwaited'
    BY <1>22
    DEF Stop, SyncTypeOK, RefreshIsAwaited, RecordFailure, EndRefresh,
        Refreshes, viewVars, loopVars, appVars
  <2>5. ObservedIsReal'
    BY <1>22
    DEF Stop, SyncTypeOK, ObservedIsReal, RecordFailure, EndRefresh, Refreshes,
        viewVars, loopVars, appVars
  <2> QED
    BY <2>1, <2>2, <2>3, <2>4, <2>5
<1>23. CASE Ensure
  <2>1. SyncTypeOK'
    BY <1>23
    DEF Ensure, SyncTypeOK, RecordFailure, EndRefresh, Refreshes,
        ObservedIsReal, LinesView, viewVars, loopVars, appVars
  <2>2. DigestsAreTold'
    BY <1>23
    DEF Ensure, SyncTypeOK, DigestsAreTold, RefreshIsAwaited, RecordFailure,
        EndRefresh, LinesView, viewVars, loopVars, appVars
  <2>3. LeaseIsWatched'
    BY <1>23
    DEF Ensure, SyncTypeOK, LeaseIsWatched, RefreshIsAwaited, RecordFailure,
        EndRefresh, Refreshes, viewVars, loopVars, appVars
  <2>4. RefreshIsAwaited'
    BY <1>23
    DEF Ensure, SyncTypeOK, RefreshIsAwaited, RecordFailure, EndRefresh,
        Refreshes, viewVars, loopVars, appVars
  <2>5. ObservedIsReal'
    BY <1>23
    DEF Ensure, SyncTypeOK, ObservedIsReal, RecordFailure, EndRefresh,
        Refreshes, viewVars, loopVars, appVars
  <2> QED
    BY <2>1, <2>2, <2>3, <2>4, <2>5
<1>24. CASE UNCHANGED syncVars
  BY <1>24 DEF syncVars, SyncTypeOK, DigestsAreTold, LeaseIsWatched,
     RefreshIsAwaited, ObservedIsReal
<1> QED
  BY <1>1, <1>2, <1>3, <1>4, <1>5, <1>6, <1>7, <1>8, <1>9, <1>10, <1>11, <1>12,
     <1>13, <1>14, <1>15, <1>16, <1>17, <1>18, <1>19, <1>20, <1>21, <1>22,
     <1>23, <1>24 DEF SyncNext

\* The invariant says that pages, digests and the lease agree.
LEMMA SyncInvImplies ==
  ASSUME SyncInv
  PROVE  SyncIsOrdered
BY DEF SyncInv, DigestsAreTold, SyncIsOrdered, PagesAreTold

\* What was committed and shown is only replaced by a later observation.
LEMMA SyncAdvances ==
  ASSUME SyncInv, [SyncNext]_syncVars
  PROVE  ObservationsAdvance
<1> USE DEF SyncInv, SyncTypeOK, ObservationsAdvance
<1>1. CASE ApplySnapshot
  BY <1>1 DEF ApplySnapshot, ObservedIsReal, Refreshes
<1>2. CASE Show
  BY <1>2 DEF Show, ObservedIsReal, Refreshes
<1>3. CASE ApplySample
  BY <1>3 DEF ApplySample
<1>4. CASE RefreshFails
  BY <1>4 DEF RefreshFails, RecordFailure
<1>5. CASE ~(ApplySnapshot \/ Show \/ ApplySample \/ RefreshFails)
  <2>1. UNCHANGED <<db, status>>
    BY <1>5
    DEF SyncNext, syncVars, Change, Fade, AgentStops, AgentStarts, Subscribe,
        Notify, StreamEnds, Redial,
      BeginRefresh, Observe, Reconcile, Publish, TakeCase, Maintain, TakeSample, Renew, Release, Stop, Ensure,
      viewVars, appVars
  <2> QED
    BY <2>1
<1> QED
  BY <1>1, <1>2, <1>3, <1>4, <1>5

-----------------------------------------------------------------------------
(***************************************************************************)
(* The policy for incoming calls                                           *)
(***************************************************************************)

-----------------------------------------------------------------------------
\* At first no call has rung.
LEMMA IncomingInvInit ==
  ASSUME IncomingInit
  PROVE  IncomingInv
BY DEF IncomingInit, IncomingInv, IncomingTypeOK, Locks, UnseenIsUntouched,
       ClaimedOnce, ClosedIsReported, AnsweredIsSeen, Phases, NoSnapshot, Absent

\* A listing shows every call as it is, or does not show it.
LEMMA FetchSees ==
  ASSUME IncomingTypeOK, Fetch
  PROVE  Fetched
<1>1. PICK s \in Seen : \E n \in {0, 1} :
        lock' = [lock EXCEPT !.pc = "fetched", !.snap = s, !.hidden = @ + n]
  BY DEF Fetch
<1>2. s \in [RingingCalls -> Phases] /\ \A c \in RingingCalls : s[c] \in {phases[c], "none"}
  BY DEF Seen, Phases
<1>3. lock \in Locks /\ s \in [RingingCalls -> Phases]
  BY <1>2 DEF IncomingTypeOK
<1>4. PICK n \in {0, 1} : lock' = [lock EXCEPT !.pc = "fetched", !.snap = s, !.hidden = @ + n]
  BY <1>1
<1>5. lock.hidden + n \in Nat
  BY <1>3 DEF Locks
<1>6. /\ lock' \in Locks /\ lock'.pc = "fetched" /\ lock'.claimed = lock.claimed
      /\ lock'.snap = s
  BY <1>3, <1>4, <1>5 DEF Locks
<1> QED
  BY <1>2, <1>6 DEF Fetched

\* What the calls of the modem and the rows are does not touch the lock.
LEMMA IncomingInvNext ==
  ASSUME IncomingInv, [IncomingNext]_icVars
  PROVE  IncomingInv'
<1> USE DEF IncomingInv
<1>1. CASE \E c \in RingingCalls : Ring(c)
  <2>1. UNCHANGED <<answered, rejects, history, decided, action, events, lock>>
    BY <1>1 DEF Ring
  <2>2. /\ phases' \in [RingingCalls -> Phases]
        /\ \A c \in RingingCalls : phases'[c] = phases[c] \/ phases[c] = "none"
    BY <1>1 DEF Ring, IncomingTypeOK, Phases
  <2>3. IncomingTypeOK'
    BY <2>1, <2>2 DEF IncomingTypeOK
  <2>4. UnseenIsUntouched'
    BY <2>1, <2>2 DEF IncomingTypeOK, UnseenIsUntouched
  <2>5. ClaimedOnce'
    BY <2>1, <2>2 DEF IncomingTypeOK, ClaimedOnce
  <2>6. ClosedIsReported'
    BY <2>1, <2>2 DEF IncomingTypeOK, ClosedIsReported
  <2>7. AnsweredIsSeen'
    BY <2>1, <2>2 DEF IncomingTypeOK, AnsweredIsSeen
  <2> QED
    BY <2>3, <2>4, <2>5, <2>6, <2>7
<1>2. CASE \E c \in RingingCalls : Leave(c)
  <2>1. UNCHANGED <<answered, rejects, history, decided, action, events, lock>>
    BY <1>2 DEF Leave
  <2>2. /\ phases' \in [RingingCalls -> Phases]
        /\ \A c \in RingingCalls : phases'[c] \in {phases[c], "gone"}
    BY <1>2 DEF Leave, IncomingTypeOK, Phases
  <2>3. IncomingTypeOK'
    BY <2>1, <2>2 DEF IncomingTypeOK
  <2>4. UnseenIsUntouched'
    BY <2>1, <2>2 DEF IncomingTypeOK, UnseenIsUntouched
  <2>5. ClaimedOnce'
    BY <2>1, <2>2 DEF IncomingTypeOK, ClaimedOnce
  <2>6. ClosedIsReported'
    BY <2>1, <2>2 DEF IncomingTypeOK, ClosedIsReported
  <2>7. AnsweredIsSeen'
    BY <2>1, <2>2 DEF IncomingTypeOK, AnsweredIsSeen
  <2> QED
    BY <2>3, <2>4, <2>5, <2>6, <2>7
<1>3. CASE \E c \in RingingCalls : Answer(c)
  <2>1. UNCHANGED <<rejects, history, decided, action, events>>
    BY <1>3 DEF Answer
  <2>a. /\ lock' \in Locks /\ lock.pc = "idle" /\ lock'.pc \in {"idle", "refresh"}
        /\ lock'.claimed = lock.claimed
    BY <1>3 DEF Answer, Coordinator, IncomingTypeOK, Locks
  <2>2. /\ phases' \in [RingingCalls -> Phases]
        /\ \A c \in RingingCalls : phases'[c] \in {phases[c], "active"}
        /\ answered' \subseteq RingingCalls
        /\ \A c \in answered' : c \in answered \/ phases'[c] = "active"
    BY <1>3 DEF Answer, IncomingTypeOK, Phases
  <2>3. IncomingTypeOK'
    BY <2>1, <2>2, <2>a DEF IncomingTypeOK
  <2>4. UnseenIsUntouched'
    BY <2>1, <2>2, <2>a DEF IncomingTypeOK, UnseenIsUntouched
  <2>5. ClaimedOnce'
    BY <2>1, <2>2, <2>a DEF IncomingTypeOK, ClaimedOnce
  <2>6. ClosedIsReported'
    BY <2>1, <2>2, <2>a DEF IncomingTypeOK, ClosedIsReported
  <2>7. AnsweredIsSeen'
    BY <2>1, <2>2, <2>a DEF IncomingTypeOK, AnsweredIsSeen
  <2> QED
    BY <2>3, <2>4, <2>5, <2>6, <2>7
<1>4. CASE \E c \in RingingCalls : Execute(c)
  <2> PICK d \in RingingCalls : Execute(d)
    BY <1>4
  <2>1. UNCHANGED <<answered, history, decided, action, events>>
    BY DEF Execute
  <2>a. /\ lock' \in Locks /\ lock.pc = "acting" /\ lock'.pc = "finishing"
        /\ lock'.snap = lock.snap /\ lock'.claimed = lock.claimed
        /\ d \in lock.claimed /\ lock'.now = d
    BY DEF Execute, IncomingTypeOK, Locks
  <2>2. /\ phases' \in [RingingCalls -> Phases]
        /\ \A c \in RingingCalls : phases'[c] \in {phases[c], "gone"}
    BY DEF Execute, IncomingTypeOK, Phases
  <2>b. /\ rejects' \in [RingingCalls -> Nat]
        /\ \A c \in RingingCalls \ {d} : rejects'[c] = rejects[c]
        /\ rejects'[d] \in {rejects[d], rejects[d] + 1}
    BY DEF Execute, IncomingTypeOK
  <2>3. IncomingTypeOK'
    BY <2>1, <2>2, <2>a, <2>b DEF IncomingTypeOK
  <2>4. UnseenIsUntouched'
    BY <2>1, <2>2, <2>a, <2>b DEF IncomingTypeOK, UnseenIsUntouched
  <2>5. ClaimedOnce'
    <3>1. action[d] = "sending" /\ rejects[d] = 0
      BY <2>a DEF ClaimedOnce
    <3>2. \A c \in lock.claimed : c \in RingingCalls
      BY DEF IncomingTypeOK, Locks
    <3>3. \A c \in lock.claimed \ {d} : action[c] = "sending" /\ rejects[c] = 0
      BY <2>a DEF ClaimedOnce
    <3>4. \A c \in RingingCalls : rejects[c] \in Nat
      BY DEF IncomingTypeOK
    <3> QED
      BY <2>1, <2>a, <2>b, <3>1, <3>2, <3>3, <3>4 DEF ClaimedOnce
  <2>6. ClosedIsReported'
    BY <2>1, <2>2, <2>a, <2>b DEF IncomingTypeOK, ClosedIsReported
  <2>7. AnsweredIsSeen'
    BY <2>1, <2>2, <2>a, <2>b DEF IncomingTypeOK, AnsweredIsSeen
  <2> QED
    BY <2>3, <2>4, <2>5, <2>6, <2>7
<1>5. CASE \E c \in RingingCalls : FinishAction(c)
  <2> PICK d \in RingingCalls : FinishAction(d)
    BY <1>5
  <2>1. UNCHANGED <<phases, answered, rejects, history, decided, events>>
    BY DEF FinishAction
  <2>a. lock' \in Locks
    <3>1. lock \in Locks /\ {} \in SUBSET RingingCalls
      BY DEF IncomingTypeOK
    <3>2. lock.claimed \ {d} \in SUBSET RingingCalls
      BY <3>1 DEF Locks
    <3>3. CASE lock' = [lock EXCEPT !.pc = "acting", !.claimed = @ \ {d}, !.now = "none"]
      <4> DEFINE less == lock.claimed \ {d}
      <4>1. lock' = [lock EXCEPT !.pc = "acting", !.claimed = less, !.now = "none"]
        BY <3>3
      <4> HIDE DEF less
      <4>2. less \in SUBSET RingingCalls
        BY <3>2 DEF less
      <4> QED
        BY <3>1, <4>1, <4>2 DEF Locks
    <3>4. CASE lock' = Unlocked
      BY <3>1, <3>4 DEF Unlocked, Locks
    <3> QED
      BY <3>3, <3>4 DEF FinishAction
  <2>b. /\ lock.pc = "finishing" /\ lock.now = d
        /\ \/ /\ lock'.pc = "acting" /\ lock'.claimed = lock.claimed \ {d}
              /\ lock'.snap = lock.snap
              /\ action' = [action EXCEPT ![d] = "finished"]
           \/ lock'.pc = "idle" /\ lock'.claimed = {} /\ action' = action
    BY DEF FinishAction, Unlocked, IncomingTypeOK, Locks
  <2>c. /\ action' \in [RingingCalls -> {"none", "pending", "sending", "finished"}]
        /\ \A c \in RingingCalls \ {d} : action'[c] = action[c]
        /\ action'[d] \in {action[d], "finished"}
    BY <2>b DEF IncomingTypeOK
  <2>3. IncomingTypeOK'
    BY <2>1, <2>a, <2>c DEF IncomingTypeOK
  <2>d. d \in lock.claimed /\ action[d] = "sending"
    BY <2>b DEF ClaimedOnce
  <2>e. \A c \in lock.claimed \ {d} : action[c] = "sending" /\ rejects[c] = 0
    BY <2>b DEF ClaimedOnce
  <2>4. UnseenIsUntouched'
    BY <2>1, <2>c, <2>d DEF UnseenIsUntouched
  <2>5. ClaimedOnce'
    <3>1. \A c \in RingingCalls :
            /\ rejects[c] <= 1
            /\ rejects[c] > 0 => action'[c] \in {"sending", "finished"}
      BY <2>c, <2>d DEF ClaimedOnce
    <3>2. \A c \in lock.claimed \ {d} : action'[c] = "sending"
      <4>1. lock.claimed \subseteq RingingCalls
        BY DEF IncomingTypeOK, Locks
      <4> QED
        BY <4>1, <2>c, <2>e
    <3> QED
      BY <2>1, <2>b, <2>e, <3>1, <3>2 DEF ClaimedOnce
  <2>6. ClosedIsReported'
    BY <2>1, <2>a, <2>b, <2>c DEF IncomingTypeOK, ClosedIsReported
  <2>7. AnsweredIsSeen'
    BY <2>1, <2>a, <2>b, <2>c DEF IncomingTypeOK, AnsweredIsSeen
  <2> QED
    BY <2>3, <2>4, <2>5, <2>6, <2>7
<1>6. CASE \E on \in BOOLEAN : UpdateSettings(on)
  <2>1. UNCHANGED <<phases, answered, rejects, history, decided, action, events, lock>>
    BY <1>6 DEF UpdateSettings
  <2>3. IncomingTypeOK'
    BY <2>1 DEF IncomingTypeOK
  <2>4. UnseenIsUntouched'
    BY <2>1 DEF IncomingTypeOK, UnseenIsUntouched
  <2>5. ClaimedOnce'
    BY <2>1 DEF IncomingTypeOK, ClaimedOnce
  <2>6. ClosedIsReported'
    BY <2>1 DEF IncomingTypeOK, ClosedIsReported
  <2>7. AnsweredIsSeen'
    BY <2>1 DEF IncomingTypeOK, AnsweredIsSeen
  <2> QED
    BY <2>3, <2>4, <2>5, <2>6, <2>7
<1>7. CASE \E p \in {"follow", "receive", "dnd"} : UpdateLinePolicy(p)
  <2>1. UNCHANGED <<phases, answered, rejects, history, decided, action, events, lock>>
    BY <1>7 DEF UpdateLinePolicy
  <2>3. IncomingTypeOK'
    BY <2>1 DEF IncomingTypeOK
  <2>4. UnseenIsUntouched'
    BY <2>1 DEF IncomingTypeOK, UnseenIsUntouched
  <2>5. ClaimedOnce'
    BY <2>1 DEF IncomingTypeOK, ClaimedOnce
  <2>6. ClosedIsReported'
    BY <2>1 DEF IncomingTypeOK, ClosedIsReported
  <2>7. AnsweredIsSeen'
    BY <2>1 DEF IncomingTypeOK, AnsweredIsSeen
  <2> QED
    BY <2>3, <2>4, <2>5, <2>6, <2>7
<1>8. CASE RefreshCalls
  <2>1. UNCHANGED <<phases, answered, rejects, history, decided, action, events>>
    BY <1>8 DEF RefreshCalls
  <2>a. lock.pc = "idle" /\ Fetched
    BY <1>8, FetchSees DEF RefreshCalls
  <2>3. IncomingTypeOK'
    BY <2>1, <2>a DEF IncomingTypeOK, Fetched
  <2>4. UnseenIsUntouched'
    BY <2>1, <2>a DEF Fetched, IncomingTypeOK, UnseenIsUntouched
  <2>5. ClaimedOnce'
    BY <2>1, <2>a DEF Fetched, IncomingTypeOK, ClaimedOnce
  <2>6. ClosedIsReported'
    BY <2>1, <2>a DEF Fetched, IncomingTypeOK, ClosedIsReported
  <2>7. AnsweredIsSeen'
    BY <2>1, <2>a DEF Fetched, IncomingTypeOK, AnsweredIsSeen
  <2> QED
    BY <2>3, <2>4, <2>5, <2>6, <2>7
<1>9. CASE RefreshAfterAnswer
  <2>1. UNCHANGED <<phases, answered, rejects, history, decided, action, events>>
    BY <1>9 DEF RefreshAfterAnswer
  <2>a. CASE Fetch
    <3>1. lock.pc = "refresh" /\ Fetched
      BY <1>9, <2>a, FetchSees DEF RefreshAfterAnswer
    <3>2. IncomingTypeOK'
      BY <2>1, <3>1 DEF IncomingTypeOK, Fetched
    <3> QED
      BY <2>1, <3>1, <3>2
      DEF Fetched, IncomingTypeOK, UnseenIsUntouched, ClaimedOnce,
          ClosedIsReported, AnsweredIsSeen
  <2>b. CASE Coordinator("idle")
    <3>1. lock.pc = "refresh" /\ lock' \in Locks /\ lock'.pc = "idle" /\ lock'.claimed = lock.claimed
      BY <1>9, <2>b DEF RefreshAfterAnswer, Coordinator, IncomingTypeOK, Locks
    <3>2. IncomingTypeOK'
      BY <2>1, <3>1 DEF IncomingTypeOK
    <3> QED
      BY <2>1, <3>1, <3>2
      DEF IncomingTypeOK, UnseenIsUntouched, ClaimedOnce, ClosedIsReported,
          AnsweredIsSeen
  <2> QED
    BY <1>9, <2>a, <2>b DEF RefreshAfterAnswer
<1>10. CASE CommitCalls
  <2>1. UNCHANGED <<phases, answered, rejects>>
    BY <1>10 DEF CommitCalls
  <2>a. /\ lock' \in Locks /\ lock.pc = "fetched" /\ lock'.pc \in {"idle", "committed"}
        /\ lock'.snap = lock.snap /\ lock'.claimed = lock.claimed
    BY <1>10 DEF CommitCalls, Coordinator, IncomingTypeOK, Locks
  <2>b. CASE UNCHANGED <<history, decided, action, events>>
    <3>1. IncomingTypeOK'
      BY <2>1, <2>a, <2>b DEF IncomingTypeOK
    <3> QED
      BY <2>1, <2>a, <2>b, <3>1
      DEF IncomingTypeOK, UnseenIsUntouched, ClaimedOnce, ClosedIsReported,
          AnsweredIsSeen
  <2>c. CASE ~UNCHANGED <<history, decided, action, events>>
    <3> DEFINE fresh == {c \in RingingCalls : /\ Discovered(c, lock.snap[c])
                                             /\ lock.snap[c] = "ringing"}
               missed == {c \in RingingCalls : Missed(c, RowAfter(history[c], lock.snap[c]))}
               new == [c \in RingingCalls |-> RowAfter(history[c], lock.snap[c])]
    <3>1. /\ history' = new
          /\ decided' = [c \in RingingCalls |->
               IF c \in fresh THEN IF EffectiveDND THEN "dnd" ELSE "receive" ELSE decided[c]]
          /\ action' = Enqueued(fresh)
          /\ events' = events \cup {<<"missed", c>> : c \in missed}
               \cup (IF EffectiveDND THEN {} ELSE {<<"incoming", c>> : c \in fresh})
      BY <1>10, <2>c DEF CommitCalls
    <3>2. \A c \in RingingCalls :
            /\ history'[c] = RowAfter(history[c], lock.snap[c])
            /\ decided'[c] = IF c \in fresh THEN IF EffectiveDND THEN "dnd" ELSE "receive"
                             ELSE decided[c]
            /\ action'[c] = IF c \in fresh /\ EffectiveDND THEN "pending" ELSE action[c]
            /\ <<"missed", c>> \in events' <=> <<"missed", c>> \in events \/ c \in missed
            /\ <<"incoming", c>> \in events' <=>
                 <<"incoming", c>> \in events \/ (~EffectiveDND /\ c \in fresh)
      BY <3>1 DEF Enqueued
    <3>3. \A c \in fresh : history[c].phase = "none" /\ lock.snap[c] = "ringing" /\ c \in RingingCalls
      BY DEF Discovered
    <3>4. \A c \in RingingCalls : c \in missed <=>
            LET r == RowAfter(history[c], lock.snap[c])
            IN r.ended /\ ~history[c].ended /\ ~r.connected
      BY DEF Missed
    <3> HIDE DEF fresh, missed, new
    <3>5. \A c \in RingingCalls : lock.snap[c] \in Phases /\ history[c] \in
            [phase : {"none", "ringing", "active", "ended"}, connected : BOOLEAN, ended : BOOLEAN]
      BY DEF IncomingTypeOK, Locks
    <3>6. \A c \in RingingCalls : RowAfter(history[c], lock.snap[c]) \in
            [phase : {"none", "ringing", "active", "ended"}, connected : BOOLEAN, ended : BOOLEAN]
      BY <3>5 DEF RowAfter, Phases
    <3>7. IncomingTypeOK'
      <4>1. history' \in [RingingCalls ->
              [phase : {"none", "ringing", "active", "ended"}, connected : BOOLEAN, ended : BOOLEAN]]
        BY <3>1, <3>6 DEF new
      <4>2. /\ decided' \in [RingingCalls -> {"none", "dnd", "receive"}]
            /\ action' \in [RingingCalls -> {"none", "pending", "sending", "finished"}]
        BY <3>1 DEF Enqueued, IncomingTypeOK
      <4> QED
        BY <2>1, <2>a, <4>1, <4>2 DEF IncomingTypeOK
    <3>8. \A c \in RingingCalls :
            LET r == history[c] s == lock.snap[c] n == RowAfter(history[c], lock.snap[c])
            IN /\ n.phase = "none" <=> r.phase = "none" /\ s = "none"
               /\ n.ended <=> r.ended \/ s = "gone" \/ (s = "none" /\ r.phase \in Open)
               /\ n.connected <=> r.connected \/ s = "active"
               /\ n.phase = "ended" => n.ended \/ (r.phase = "ended" /\ s = "none")
      BY <3>5 DEF RowAfter, Phases, Open
    <3>9. UnseenIsUntouched'
      <4> SUFFICES ASSUME NEW c \in RingingCalls
                   PROVE  /\ history'[c].phase = "none" =>
                               decided'[c] = "none" /\ action'[c] = "none" /\ ~history'[c].ended
                          /\ <<"incoming", c>> \in events' => decided'[c] = "receive"
                          /\ action'[c] # "none" => decided'[c] = "dnd"
        BY DEF UnseenIsUntouched
      <4>1. /\ history[c].phase = "none" =>
                 decided[c] = "none" /\ action[c] = "none" /\ ~history[c].ended
            /\ <<"incoming", c>> \in events => decided[c] = "receive"
            /\ action[c] # "none" => decided[c] = "dnd"
        BY DEF UnseenIsUntouched
      <4>2. CASE c \in fresh
        <5>a. lock.snap[c] = "ringing"
          BY <3>3, <4>2
        <5>b. RowAfter(history[c], lock.snap[c]).phase # "none"
          BY <3>8, <5>a
        <5>1. history'[c].phase # "none"
          BY <3>2, <5>b
        <5>2. <<"incoming", c>> \notin events /\ action[c] = "none"
          BY <3>3, <4>1, <4>2
        <5> QED
          BY <3>2, <4>2, <5>1, <5>2
      <4>3. CASE c \notin fresh
        <5>1. history'[c].phase = "none" =>
                history[c].phase = "none" /\ (history'[c].ended <=> history[c].ended)
          BY <3>2, <3>8 DEF Open
        <5> QED
          BY <3>2, <4>1, <4>3, <5>1
      <4> QED
        BY <4>2, <4>3
    <3>10. ClaimedOnce'
      <4>1. \A c \in RingingCalls : action'[c] # action[c] => action[c] = "none"
        BY <3>2, <3>3 DEF UnseenIsUntouched
      <4>2. lock.claimed = {}
        BY <2>a DEF ClaimedOnce
      <4> QED
        BY <2>1, <2>a, <4>1, <4>2 DEF ClaimedOnce
    <3>11. ClosedIsReported'
      <4> SUFFICES ASSUME NEW c \in RingingCalls
                   PROVE  /\ history'[c].phase = "ended" => history'[c].ended
                          /\ history'[c].ended /\ ~history'[c].connected => <<"missed", c>> \in events'
                          /\ <<"missed", c>> \in events' => history'[c].ended
        BY DEF ClosedIsReported
      <4>1. /\ history[c].phase = "ended" => history[c].ended
            /\ history[c].ended /\ ~history[c].connected => <<"missed", c>> \in events
            /\ <<"missed", c>> \in events => history[c].ended
        BY DEF ClosedIsReported
      <4>2. /\ history'[c].ended <=> RowAfter(history[c], lock.snap[c]).ended
            /\ history'[c].connected <=> RowAfter(history[c], lock.snap[c]).connected
            /\ <<"missed", c>> \in events' <=> <<"missed", c>> \in events \/ c \in missed
        BY <3>2
      <4>3. /\ history[c].ended => history'[c].ended
            /\ history[c].connected => history'[c].connected
            /\ history'[c].phase = "ended" => history'[c].ended \/ history[c].phase = "ended"
        BY <3>2, <3>8
      <4>4. c \in missed <=> history'[c].ended /\ ~history[c].ended /\ ~history'[c].connected
        BY <3>4, <4>2
      <4> QED
        BY <4>1, <4>2, <4>3, <4>4
    <3>12. AnsweredIsSeen'
      BY <2>1, <2>a DEF AnsweredIsSeen
    <3> QED
      BY <3>7, <3>9, <3>10, <3>11, <3>12
  <2> QED
    BY <2>b, <2>c
<1>11. CASE ClaimActions
  <2>1. UNCHANGED <<phases, answered, rejects, history, decided, events>>
    BY <1>11 DEF ClaimActions
  <2>a. CASE Coordinator("idle") /\ UNCHANGED action
    <3>1. lock.pc = "committed" /\ lock' \in Locks /\ lock'.pc = "idle" /\ lock'.claimed = lock.claimed
      BY <1>11, <2>a DEF ClaimActions, Coordinator, IncomingTypeOK, Locks
    <3>2. IncomingTypeOK'
      BY <2>1, <2>a, <3>1 DEF IncomingTypeOK
    <3> QED
      BY <2>1, <2>a, <3>1, <3>2
      DEF IncomingTypeOK, UnseenIsUntouched, ClaimedOnce, ClosedIsReported,
          AnsweredIsSeen
  <2>b. CASE ~(Coordinator("idle") /\ UNCHANGED action)
    <3>1. PICK S \in SUBSET {c \in RingingCalls : action[c] = "pending"} :
            /\ action' = [c \in RingingCalls |-> IF c \in S THEN "sending" ELSE action[c]]
            /\ lock' = [lock EXCEPT !.pc = "acting", !.claimed = S]
      BY <1>11, <2>b DEF ClaimActions
    <3>2. /\ lock.pc = "committed"
          /\ lock' \in Locks /\ lock'.pc = "acting" /\ lock'.claimed = S /\ lock'.snap = lock.snap
      BY <1>11, <3>1 DEF ClaimActions, IncomingTypeOK, Locks
    <3>3. /\ action' \in [RingingCalls -> {"none", "pending", "sending", "finished"}]
          /\ \A c \in RingingCalls : action'[c] = IF c \in S THEN "sending" ELSE action[c]
          /\ \A c \in S : c \in RingingCalls /\ action[c] = "pending"
      BY <3>1 DEF IncomingTypeOK
    <3>4. IncomingTypeOK'
      BY <2>1, <3>2, <3>3 DEF IncomingTypeOK
    <3>5. UnseenIsUntouched'
      BY <2>1, <3>3 DEF UnseenIsUntouched
    <3>6. ClaimedOnce'
      BY <2>1, <3>2, <3>3 DEF ClaimedOnce, IncomingTypeOK
    <3> QED
      BY <2>1, <3>2, <3>4, <3>5, <3>6 DEF ClosedIsReported, AnsweredIsSeen
  <2> QED
    BY <2>a, <2>b
<1>12. CASE Done
  <2>1. UNCHANGED <<phases, answered, rejects, history, decided, action, events>>
    BY <1>12 DEF Done
  <2>2. lock.claimed = {} /\ lock' \in Locks /\ lock'.pc = "idle" /\ lock'.claimed = {}
    BY <1>12 DEF Done, Coordinator, IncomingTypeOK, Locks
  <2>3. IncomingTypeOK'
    BY <2>1, <2>2 DEF IncomingTypeOK
  <2>4. UnseenIsUntouched'
    BY <2>1, <2>2 DEF IncomingTypeOK, UnseenIsUntouched
  <2>5. ClaimedOnce'
    BY <2>1, <2>2 DEF IncomingTypeOK, ClaimedOnce
  <2>6. ClosedIsReported'
    BY <2>1, <2>2 DEF IncomingTypeOK, ClosedIsReported
  <2>7. AnsweredIsSeen'
    BY <2>1, <2>2 DEF IncomingTypeOK, AnsweredIsSeen
  <2> QED
    BY <2>3, <2>4, <2>5, <2>6, <2>7
<1>13. CASE ProcessDies
  <2>1. UNCHANGED <<phases, answered, rejects, history, decided, events>>
    BY <1>13 DEF ProcessDies
  <2>2. lock' \in Locks /\ lock'.pc = "idle" /\ lock'.claimed = {}
    <3>1. NoSnapshot \in [RingingCalls -> Phases]
      BY DEF NoSnapshot, Phases
    <3> QED
      BY <1>13, <3>1 DEF ProcessDies, Unlocked, IncomingTypeOK, Locks
  <2>a. /\ action' \in [RingingCalls -> {"none", "pending", "sending", "finished"}]
        /\ \A c \in RingingCalls :
             action'[c] = IF action[c] = "sending" THEN "finished" ELSE action[c]
    BY <1>13 DEF ProcessDies, IncomingTypeOK
  <2>3. IncomingTypeOK'
    BY <2>1, <2>2, <2>a DEF IncomingTypeOK
  <2>4. UnseenIsUntouched'
    BY <2>1, <2>2, <2>a DEF IncomingTypeOK, UnseenIsUntouched
  <2>5. ClaimedOnce'
    BY <2>1, <2>2, <2>a DEF IncomingTypeOK, ClaimedOnce
  <2>6. ClosedIsReported'
    BY <2>1, <2>2, <2>a DEF IncomingTypeOK, ClosedIsReported
  <2>7. AnsweredIsSeen'
    BY <2>1, <2>2, <2>a DEF IncomingTypeOK, AnsweredIsSeen
  <2> QED
    BY <2>3, <2>4, <2>5, <2>6, <2>7
<1>14. CASE UNCHANGED icVars
  BY <1>14 DEF icVars, policies, IncomingTypeOK, UnseenIsUntouched,
     ClaimedOnce, ClosedIsReported, AnsweredIsSeen
<1> QED
  BY <1>1, <1>2, <1>3, <1>4, <1>5, <1>6, <1>7, <1>8, <1>9, <1>10, <1>11, <1>12,
     <1>13, <1>14 DEF IncomingNext

\* The invariant says that calls are announced or rejected as the policy says.
LEMMA IncomingInvImplies ==
  ASSUME IncomingInv
  PROVE  IncomingIsTrue
BY DEF IncomingInv, UnseenIsUntouched, ClaimedOnce, ClosedIsReported,
       IncomingIsTrue, PolicyIsObeyed, MissedCallsAreReported, IncomingTypeOK

\* A call that was answered is not rejected by the policy afterwards.
LEMMA AnsweredStays ==
  ASSUME IncomingInv, [IncomingNext]_icVars
  PROVE  AnsweredIsKept
<1> SUFFICES ASSUME NEW c \in RingingCalls, rejects'[c] > rejects[c]
             PROVE  c \notin answered
  BY DEF AnsweredIsKept
<1>1. rejects[c] \in Nat
  BY DEF IncomingInv, IncomingTypeOK
<1>2. rejects' # rejects
  BY <1>1
<1>3. PICK d \in RingingCalls : Execute(d)
  BY <1>2 DEF IncomingNext, icVars, policies, Ring, Leave, Answer,
     FinishAction, UpdateSettings, UpdateLinePolicy,
    RefreshCalls, RefreshAfterAnswer, CommitCalls, ClaimActions, Done, ProcessDies
<1>4. c = d /\ lock.snap[c] = "ringing" /\ lock.pc = "acting"
  BY <1>1, <1>3 DEF Execute, RingingInSnapshot, IncomingInv, IncomingTypeOK
<1> QED
  BY <1>4 DEF IncomingInv, AnsweredIsSeen

-----------------------------------------------------------------------------
(***************************************************************************)
(* Messages from the modem to the rows                                     *)
(***************************************************************************)

-----------------------------------------------------------------------------
\* At first no message was sent or received.
LEMMA MessagesInvInit ==
  ASSUME MessagesAssumption, MessagesInit
  PROVE  MessagesInv
<1> USE DEF MessagesInit, AgentIdle, AppIdle, MessagesAssumption
<1>1. MessagesTypeOK
  BY DEF MessagesTypeOK, Handlers, Requests, Statuses
<1>2. ObjectsAreKnown /\ ObjectsAreUnique
  BY DEF ObjectsAreKnown, ObjectsAreUnique, Exists
<1>3. HandledOnce
  BY DEF HandledOnce
<1>4. RowsFollowRequests /\ DeletedIsStored /\ NoMessageLost /\ RowsAreTrue
  <2>1. rows = {} /\ arrived = {} /\ cleanup.pending = {} /\ cleanup.deleting = None
    OBVIOUS
  <2>2. \A s \in Sends : app[s].pc = "idle" /\ journal[s] # "completed"
    OBVIOUS
  <2>3. RowsFollowRequests
    BY <2>1, <2>2 DEF RowsFollowRequests
  <2>4. DeletedIsStored /\ NoMessageLost /\ RowsAreTrue
    BY <2>1 DEF DeletedIsStored, NoMessageLost, RowsAreTrue
  <2> QED
    BY <2>3, <2>4
<1> QED
  BY <1>1, <1>2, <1>3, <1>4 DEF MessagesInv

\* A message the network delivers is a new object.
LEMMA ArriveKeeps ==
  ASSUME MessagesInv, NEW i \in Incoming, Arrive(i)
  PROVE  MessagesInv'
<1> USE DEF MessagesInv
<1>1. PICK n : /\ n \in Objects /\ n.id.kind = "in" /\ n.id.of = i /\ n.id.try = 1
               /\ n.id.epoch = epoch /\ n.state \in {"receiving", "received"}
               /\ modem' = modem \cup {n}
  <2>1. PICK state \in {"receiving", "received"} :
          modem' = modem \cup {[id |-> Id("in", i, 1), state |-> state, report |-> FALSE]}
    BY DEF Arrive
  <2>2. Id("in", i, 1) \in MessageIds /\ Id("in", i, 1) = [kind |-> "in", of |-> i, try |-> 1, epoch |-> epoch]
    BY DEF Id, MessageIds, MessagesTypeOK
  <2> DEFINE no == FALSE
             n == [id |-> Id("in", i, 1), state |-> state, report |-> no]
  <2>3. no \in BOOLEAN /\ modem' = modem \cup {n}
    BY <2>1
  <2> HIDE DEF no
  <2>4. n \in Objects /\ n.id = Id("in", i, 1) /\ n.state = state
    BY <2>2, <2>3 DEF Objects
  <2> HIDE DEF n
  <2> QED
    BY <2>2, <2>3, <2>4
<1>2. /\ i \notin arrived /\ arrived' = arrived \cup {i}
      /\ UNCHANGED <<epoch, handler, sent, journal, app, policy, rows, snap, cleanup>>
  BY DEF Arrive, records, refreshing
<1>3. MessagesTypeOK'
  BY <1>1, <1>2 DEF MessagesTypeOK
<1>4. ObjectsAreKnown'
  BY <1>1, <1>2 DEF ObjectsAreKnown, Exists
<1>5. ObjectsAreUnique'
  BY <1>1, <1>2 DEF ObjectsAreUnique
<1>6. HandledOnce' /\ RowsFollowRequests' /\ DeletedIsStored' /\ RowsAreTrue'
  BY <1>2 DEF HandledOnce, RowsFollowRequests, DeletedIsStored, RowsAreTrue
<1>7. NoMessageLost'
  BY <1>1, <1>2 DEF NoMessageLost
<1> QED
  BY <1>3, <1>4, <1>5, <1>6, <1>7

\* The last part of a message completes its object.
LEMMA AssembledKeeps ==
  ASSUME MessagesInv, NEW o \in modem, Assembled(o)
  PROVE  MessagesInv'
<1> USE DEF MessagesInv
<1>1. PICK n : /\ n \in Objects /\ n.id = o.id /\ n.report = o.report /\ n.state = "received"
               /\ modem' = (modem \ {o}) \cup {n}
  <2>1. [o EXCEPT !.state = "received"] \in Objects
    BY DEF Objects, MessagesTypeOK
  <2> QED
    BY <2>1 DEF Assembled, Objects, MessagesTypeOK
<1>2. UNCHANGED <<arrived, epoch, handler, sent, journal, app, policy, rows, snap, cleanup>>
  BY DEF Assembled, records, refreshing
<1>3. o.id.kind = "in"
  BY DEF Assembled, ObjectsAreKnown, Exists, MessagesTypeOK, Objects, MessageIds
<1>4. MessagesTypeOK'
  BY <1>1, <1>2 DEF MessagesTypeOK
<1>5. ObjectsAreKnown'
  BY <1>1, <1>2, <1>3 DEF ObjectsAreKnown, Exists
<1>6. ObjectsAreUnique'
  BY <1>1, <1>2, <1>3 DEF ObjectsAreUnique
<1>7. HandledOnce' /\ RowsFollowRequests' /\ DeletedIsStored' /\ RowsAreTrue'
  BY <1>2 DEF HandledOnce, RowsFollowRequests, DeletedIsStored, RowsAreTrue
<1>8. NoMessageLost'
  BY <1>1, <1>2 DEF NoMessageLost
<1> QED
  BY <1>4, <1>5, <1>6, <1>7, <1>8

\* A report is a new object, and its message waits for no other.
LEMMA ReportKeeps ==
  ASSUME MessagesInv, NEW o \in modem, NEW outcome \in {"delivered", "failed"}, Report(o, outcome)
  PROVE  MessagesInv'
<1> USE DEF MessagesInv
<1>1. o \in Objects /\ o.id \in MessageIds
  BY DEF MessagesTypeOK, Objects
<1>2. PICK n, p :
        /\ n \in Objects /\ n.id = o.id /\ n.report = FALSE /\ n.state = o.state
        /\ p \in Objects /\ p.id.kind = "report" /\ p.id.of = o.id.of /\ p.id.try = o.id.try
        /\ p.id.epoch = epoch /\ p.state = outcome
        /\ modem' = (modem \ {o}) \cup {n, p}
  <2> DEFINE no == FALSE
  <2>1. no \in BOOLEAN
    OBVIOUS
  <2>2. [o EXCEPT !.report = no] = [o EXCEPT !.report = FALSE]
    OBVIOUS
  <2> HIDE DEF no
  <2>3. /\ [o EXCEPT !.report = no] \in Objects /\ [o EXCEPT !.report = no].id = o.id
        /\ [o EXCEPT !.report = no].report = no /\ [o EXCEPT !.report = no].state = o.state
    BY <1>1, <2>1 DEF Objects
  <2> DEFINE id == [o.id EXCEPT !.kind = "report", !.epoch = epoch]
  <2>4. /\ id \in MessageIds /\ id.kind = "report" /\ id.of = o.id.of
        /\ id.try = o.id.try /\ id.epoch = epoch
    BY <1>1 DEF MessageIds, MessagesTypeOK
  <2> HIDE DEF id
  <2> DEFINE p == [id |-> id, state |-> outcome, report |-> no]
  <2>5. p \in Objects /\ p.id = id /\ p.state = outcome
    BY <2>1, <2>4 DEF Objects
  <2>6. modem' = (modem \ {o}) \cup {[o EXCEPT !.report = FALSE], p}
    BY DEF Report, id, no
  <2>7. [o EXCEPT !.report = no].report = FALSE
    BY <2>3 DEF no
  <2> HIDE DEF p
  <2> QED
    BY <2>2, <2>3, <2>4, <2>5, <2>6, <2>7
<1>3. /\ o.id.kind = "out" /\ o.state = "sent" /\ o.report
      /\ UNCHANGED <<arrived, epoch, handler, sent, journal, app, policy, rows, snap, cleanup>>
  BY DEF Report, records, refreshing
<1>4. MessagesTypeOK'
  BY <1>2, <1>3 DEF MessagesTypeOK
<1>5. ObjectsAreKnown'
  BY <1>2, <1>3 DEF ObjectsAreKnown, Exists
<1>6. ObjectsAreUnique'
  <2>1. \A x \in modem' : x \in modem \/ x = n \/ x = p
    BY <1>2
  <2>2. o \notin modem' \/ o = n
    BY <1>2, <1>3
  <2>3. \A x \in modem : x.id.kind = "out" /\ x.id.of = o.id.of /\ x.id.try = o.id.try => x = o
    BY <1>3 DEF ObjectsAreUnique
  <2>4. \A x \in modem : x.id.kind = "report" => x.id.of # o.id.of \/ x.id.try # o.id.try
    BY <1>3 DEF ObjectsAreUnique
  <2>5. \A x \in modem' : x.id.epoch = epoch'
    BY <1>2, <1>3, <2>1 DEF ObjectsAreUnique
  <2>6. \A x \in modem' : x.id.kind = "in" => x.id.of \in arrived' /\ x.id.try = 1
    BY <1>2, <1>3, <2>1 DEF ObjectsAreUnique
  <2>7. \A x \in modem' : x.id.kind # "in" =>
          x.id.try < handler'[x.id.of].try + (IF handler'[x.id.of].pc = "create" THEN 0 ELSE 1)
    BY <1>2, <1>3, <2>1 DEF ObjectsAreUnique
  <2>8. \A x, y \in modem' :
          x.id.kind = y.id.kind /\ x.id.of = y.id.of /\ x.id.try = y.id.try => x = y
    BY <1>2, <1>3, <2>1, <2>2, <2>3, <2>4 DEF ObjectsAreUnique
  <2>9. \A x, y \in modem' :
          x.id.kind = "out" /\ x.report /\ y.id.kind = "report" =>
            x.id.of # y.id.of \/ x.id.try # y.id.try
    BY <1>2, <1>3, <2>1, <2>2, <2>3, <2>4 DEF ObjectsAreUnique
  <2> QED
    BY <1>3, <2>5, <2>6, <2>7, <2>8, <2>9 DEF ObjectsAreUnique
<1>7. HandledOnce' /\ RowsFollowRequests' /\ DeletedIsStored' /\ RowsAreTrue'
  BY <1>3 DEF HandledOnce, RowsFollowRequests, DeletedIsStored, RowsAreTrue
<1>8. NoMessageLost'
  BY <1>2, <1>3 DEF NoMessageLost
<1> QED
  BY <1>4, <1>5, <1>6, <1>7, <1>8

\* A restart of ModemManager renames the objects it keeps.
LEMMA ProviderRestartsKeeps ==
  ASSUME MessagesInv, ProviderRestarts
  PROVE  MessagesInv'
<1> USE DEF MessagesInv
<1> DEFINE F(o) == [o EXCEPT !.id.epoch = epoch + 1]
<1>1. \A o \in Objects :
        /\ F(o) \in Objects /\ F(o).state = o.state /\ F(o).report = o.report
        /\ F(o).id.kind = o.id.kind /\ F(o).id.of = o.id.of /\ F(o).id.try = o.id.try
        /\ F(o).id.epoch = epoch + 1
  <2> SUFFICES ASSUME NEW o \in Objects
               PROVE  /\ F(o) \in Objects /\ F(o).state = o.state /\ F(o).report = o.report
                      /\ F(o).id.kind = o.id.kind /\ F(o).id.of = o.id.of /\ F(o).id.try = o.id.try
                      /\ F(o).id.epoch = epoch + 1
    OBVIOUS
  <2> DEFINE id == [o.id EXCEPT !.epoch = epoch + 1]
  <2>1. F(o) = [o EXCEPT !.id = id]
    BY DEF Objects
  <2>2. /\ id \in MessageIds /\ id.kind = o.id.kind /\ id.of = o.id.of /\ id.try = o.id.try
        /\ id.epoch = epoch + 1
    BY DEF Objects, MessageIds, MessagesTypeOK
  <2> HIDE DEF id
  <2> QED
    BY <2>1, <2>2 DEF Objects
<1>2. /\ modem' = {F(o) : o \in {x \in modem : x.id.kind # "out"}}
      /\ epoch' = epoch + 1
      /\ UNCHANGED <<arrived, handler, sent, journal, app, policy, rows, snap, cleanup>>
  BY DEF ProviderRestarts, records, refreshing
<1> HIDE DEF F
<1>3. \A n \in modem' : \E o \in modem : n = F(o) /\ o.id.kind # "out"
  BY <1>2
<1>4. \A o \in modem : o.id.kind # "out" => F(o) \in modem'
  BY <1>2
<1>5. \A o \in modem : o \in Objects
  BY DEF MessagesTypeOK
<1>6. MessagesTypeOK'
  <2>1. modem' \subseteq Objects
    BY <1>1, <1>3, <1>5
  <2> QED
    BY <1>2, <2>1 DEF MessagesTypeOK
<1>7. ObjectsAreKnown'
  <2>1. \A n \in modem' : n.id.kind # "out"
    BY <1>1, <1>3, <1>5
  <2>2. \A n \in modem' :
          /\ n.id.kind = "in" => n.id.of \in Incoming /\ n.state \in {"receiving", "received"}
          /\ n.id.kind # "in" => n.id.of \in Sends
          /\ n.id.kind = "report" => n.state \in {"delivered", "failed"}
          /\ n.id.kind = "report" => sent[n.id.of] = 1
    BY <1>1, <1>3, <1>5 DEF ObjectsAreKnown, Exists
  <2> QED
    BY <1>2, <2>1, <2>2 DEF ObjectsAreKnown, Exists
<1>8. ObjectsAreUnique'
  <2>1. \A x \in modem' : x.id.epoch = epoch' /\ x.id.kind # "out"
    BY <1>1, <1>2, <1>3, <1>5
  <2>2. \A x \in modem' :
          /\ x.id.kind = "in" => x.id.of \in arrived' /\ x.id.try = 1
          /\ x.id.kind # "in" =>
               x.id.try < handler'[x.id.of].try + (IF handler'[x.id.of].pc = "create" THEN 0 ELSE 1)
    BY <1>1, <1>2, <1>3, <1>5 DEF ObjectsAreUnique
  <2>3. \A x, y \in modem' :
          x.id.kind = y.id.kind /\ x.id.of = y.id.of /\ x.id.try = y.id.try => x = y
    BY <1>1, <1>3, <1>5 DEF ObjectsAreUnique
  <2> QED
    BY <1>2, <2>1, <2>2, <2>3 DEF ObjectsAreUnique
<1>9. HandledOnce' /\ RowsFollowRequests' /\ DeletedIsStored' /\ RowsAreTrue'
  BY <1>2 DEF HandledOnce, RowsFollowRequests, DeletedIsStored, RowsAreTrue
<1>10. NoMessageLost'
  BY <1>1, <1>2, <1>4, <1>5 DEF NoMessageLost
<1> QED
  BY <1>6, <1>7, <1>8, <1>9, <1>10

\* An object is created under a number of tries that was not used before.
LEMMA CreateSMSKeeps ==
  ASSUME MessagesInv, NEW s \in Sends, CreateSMS(s)
  PROVE  MessagesInv'
<1> USE DEF MessagesInv
<1>1. /\ handler[s].pc = "create"
      /\ UNCHANGED <<epoch, arrived, sent, journal, app, policy, rows, snap, cleanup>>
  BY DEF CreateSMS, records, refreshing
<1>2. handler[s] \in Handlers
  BY DEF MessagesTypeOK
<1> DEFINE IsMade(h) ==
             /\ handler' = [handler EXCEPT ![s] = h]
             /\ h.pc \in {"send", "error"} /\ h.try = handler[s].try
             /\ \/ modem' = modem
                \/ \E n \in Objects :
                     /\ n.id.kind = "out" /\ n.id.of = s /\ n.id.try = h.try
                     /\ n.id.epoch = epoch /\ n.state = "unknown"
                     /\ modem' = modem \cup {n}
<1>3. PICK h \in Handlers : IsMade(h)
  <2>1. CASE Agent(s, [handler[s] EXCEPT !.pc = "error"]) /\ UNCHANGED modem
    BY <2>1, <1>2 DEF Agent, Handlers
  <2>2. ASSUME NEW refuse \in BOOLEAN,
               LET a == [handler[s] EXCEPT !.pc = "send", !.report = @ /\ ~refuse,
                                    !.refused = @ \/ refuse]
               IN /\ Agent(s, a)
                  /\ modem' = modem \cup {[id |-> Id("out", s, a.try),
                                      state |-> "unknown", report |-> a.report]}
        PROVE  \E h \in Handlers : IsMade(h)
    <3> DEFINE asks == handler[s].report /\ ~refuse
               refuses == handler[s].refused \/ refuse
               a == [handler[s] EXCEPT !.pc = "send", !.report = asks, !.refused = refuses]
    <3>1. /\ Agent(s, a)
          /\ modem' = modem \cup {[id |-> Id("out", s, a.try),
                                   state |-> "unknown", report |-> a.report]}
      BY <2>2
    <3>2. asks \in BOOLEAN /\ refuses \in BOOLEAN
      OBVIOUS
    <3> HIDE DEF asks, refuses
    <3>3. /\ a \in Handlers /\ a.pc = "send" /\ a.try = handler[s].try /\ a.report \in BOOLEAN
          /\ a.try \in 0..2
      BY <1>2, <3>2 DEF Handlers
    <3> HIDE DEF a
    <3> DEFINE id == Id("out", s, a.try)
               n == [id |-> id, state |-> "unknown", report |-> a.report]
    <3>4. /\ id \in MessageIds /\ id.kind = "out" /\ id.of = s /\ id.try = a.try
          /\ id.epoch = epoch
      BY <3>3 DEF Id, MessageIds, MessagesTypeOK
    <3> HIDE DEF id
    <3>5. n \in Objects /\ n.id = id /\ n.state = "unknown"
      BY <3>3, <3>4 DEF Objects
    <3>6. modem' = modem \cup {n}
      BY <3>1 DEF id
    <3> HIDE DEF n
    <3> QED
      BY <3>1, <3>3, <3>4, <3>5, <3>6 DEF Agent
  <2> QED
    BY <2>1, <2>2 DEF CreateSMS
<1>4. /\ handler'[s] = h /\ \A t \in Sends : t # s => handler'[t] = handler[t]
      /\ handler' \in [Sends -> Handlers]
  BY <1>3 DEF MessagesTypeOK
<1>5. HandledOnce' /\ RowsFollowRequests' /\ DeletedIsStored' /\ RowsAreTrue'
  BY <1>1, <1>3, <1>4
  DEF HandledOnce, RowsFollowRequests, DeletedIsStored, RowsAreTrue
<1>6. \A o \in modem : o.id.kind # "in" =>
        /\ o.id.of = s => o.id.try < h.try
        /\ o.id.try < handler'[o.id.of].try + (IF handler'[o.id.of].pc = "create" THEN 0 ELSE 1)
  <2> SUFFICES ASSUME NEW o \in modem, o.id.kind # "in"
               PROVE  /\ o.id.of = s => o.id.try < h.try
                      /\ o.id.try < handler'[o.id.of].try + (IF handler'[o.id.of].pc = "create" THEN 0 ELSE 1)
    OBVIOUS
  <2>1. o.id.try < handler[o.id.of].try + (IF handler[o.id.of].pc = "create" THEN 0 ELSE 1)
    BY DEF ObjectsAreUnique
  <2>2. o.id.of \in Sends /\ o.id.try \in 0..2 /\ h.try \in 0..2
    BY DEF ObjectsAreKnown, Exists, MessagesTypeOK, Objects, MessageIds,
           Handlers
  <2> QED
    BY <1>1, <1>3, <1>4, <2>1, <2>2
<1>7. CASE modem' = modem
  <2>1. MessagesTypeOK' /\ ObjectsAreKnown' /\ NoMessageLost'
    BY <1>1, <1>4, <1>7
    DEF MessagesTypeOK, ObjectsAreKnown, Exists, NoMessageLost
  <2>2. ObjectsAreUnique'
    BY <1>1, <1>6, <1>7 DEF ObjectsAreUnique
  <2> QED
    BY <1>5, <2>1, <2>2
<1>8. ASSUME NEW n \in Objects,
             n.id.kind = "out" /\ n.id.of = s /\ n.id.try = h.try /\ n.id.epoch = epoch,
             n.state = "unknown" /\ modem' = modem \cup {n}
      PROVE  MessagesInv'
  <2>1. MessagesTypeOK'
    BY <1>1, <1>4, <1>8 DEF MessagesTypeOK
  <2>2. ObjectsAreKnown' /\ NoMessageLost'
    BY <1>1, <1>8 DEF ObjectsAreKnown, Exists, NoMessageLost
  <2>3. \A x \in modem' : x \in modem \/ x = n
    BY <1>8
  <2>4. h.try \in 0..2
    BY DEF Handlers
  <2>5. n.id.try < handler'[n.id.of].try + (IF handler'[n.id.of].pc = "create" THEN 0 ELSE 1)
    BY <1>3, <1>4, <1>8, <2>4
  <2>6. /\ \A o \in modem' : o.id.epoch = epoch'
        /\ \A o \in modem' : o.id.kind = "in" => o.id.of \in arrived' /\ o.id.try = 1
        /\ \A o \in modem' : o.id.kind # "in" =>
             o.id.try < handler'[o.id.of].try + (IF handler'[o.id.of].pc = "create" THEN 0 ELSE 1)
    BY <1>1, <1>6, <1>8, <2>3, <2>5 DEF ObjectsAreUnique
  <2>7. \A o \in modem : o.id.kind # "in" /\ o.id.of = s => o.id.try # n.id.try
    BY <1>6, <1>8, <2>4 DEF MessagesTypeOK, Objects, MessageIds
  <2>8. \A o, p \in modem' :
          o.id.kind = p.id.kind /\ o.id.of = p.id.of /\ o.id.try = p.id.try => o = p
    BY <1>8, <2>3, <2>7 DEF ObjectsAreUnique
  <2>9. \A o, p \in modem' :
          o.id.kind = "out" /\ o.report /\ p.id.kind = "report" =>
            o.id.of # p.id.of \/ o.id.try # p.id.try
    BY <1>8, <2>3, <2>7 DEF ObjectsAreUnique
  <2>10. ObjectsAreUnique'
    BY <1>1, <2>6, <2>8, <2>9 DEF ObjectsAreUnique
  <2> QED
    BY <1>5, <2>1, <2>2, <2>10
<1> QED
  BY <1>3, <1>7, <1>8

\* A message is sent again only when the network has not taken it.
LEMMA SendSMSKeeps ==
  ASSUME MessagesAssumption, MessagesInv, NEW s \in Sends, SendSMS(s)
  PROVE  MessagesInv'
<1> USE DEF MessagesInv
<1> DEFINE id == Id("out", s, handler[s].try)
           mine == {o \in modem : o.id = id}
           F(o) == [o EXCEPT !.state = "sent"]
<1>1. /\ handler[s].pc = "send" /\ handler[s] \in Handlers /\ handler[s].try \in {1, 2}
      /\ sent[s] = 0
      /\ UNCHANGED <<epoch, arrived, journal, app, policy, rows, snap, cleanup>>
  BY DEF SendSMS, records, refreshing, MessagesTypeOK, HandledOnce
<1>2. id.kind = "out" /\ id.of = s /\ id.try = handler[s].try /\ id.epoch = epoch
  BY DEF Id
<1>3. \A o \in modem : o.id.kind = "out" /\ o.id.of = s /\ o.id.try = handler[s].try => o.id = id
  BY DEF ObjectsAreUnique, MessagesTypeOK, Objects, MessageIds, Id
<1>4. \A o \in modem : /\ o \in Objects /\ o.id \in MessageIds
                       /\ F(o) \in Objects /\ F(o).id = o.id /\ F(o).report = o.report
                       /\ F(o).state = "sent"
  BY DEF MessagesTypeOK, Objects
<1> DEFINE IsDone(h) == /\ h.pc = "done" /\ h.try = handler[s].try
                      /\ modem' = (modem \ mine) \cup {F(o) : o \in mine}
                      /\ sent' = [sent EXCEPT ![s] = 1]
           HasFailed(h) == /\ h.pc = "error" /\ h.try = handler[s].try /\ modem' = modem
                        /\ (sent' = [sent EXCEPT ![s] = 1] \/ sent' = sent)
           TriesAgain(h) == /\ h.pc = "create" /\ h.try = 2 /\ modem' = modem \ mine
                       /\ sent' = sent
<1>5. \E h \in Handlers : /\ handler' = [handler EXCEPT ![s] = h]
                          /\ IsDone(h) \/ HasFailed(h) \/ TriesAgain(h)
  <2> DEFINE yes == TRUE
             no == FALSE
  <2>1. yes \in BOOLEAN /\ no \in BOOLEAN
    OBVIOUS
  <2>2. [sent EXCEPT ![s] = @ + 1] = [sent EXCEPT ![s] = 1] /\ [sent EXCEPT ![s] = @] = sent
    BY <1>1 DEF MessagesTypeOK
  <2>3. CASE /\ Agent(s, [handler[s] EXCEPT !.pc = "done"])
             /\ modem' = (modem \ mine) \cup {[o EXCEPT !.state = "sent"] : o \in mine}
             /\ sent' = [sent EXCEPT ![s] = @ + 1]
    <3>1. [handler[s] EXCEPT !.pc = "done"] \in Handlers
      BY <1>1 DEF Handlers
    <3>2. /\ [handler[s] EXCEPT !.pc = "done"].pc = "done"
          /\ [handler[s] EXCEPT !.pc = "done"].try = handler[s].try
      BY <1>1 DEF Handlers
    <3> QED
      BY <2>2, <2>3, <3>1, <3>2 DEF Agent
  <2>4. ASSUME NEW taken \in BOOLEAN,
               sent' = [sent EXCEPT ![s] = IF taken THEN @ + 1 ELSE @],
               \/ Agent(s, [handler[s] EXCEPT !.pc = "error"]) /\ UNCHANGED modem
               \/ /\ RejectsReport(handler[s], taken)
                  /\ Agent(s, [handler[s] EXCEPT !.pc = "create", !.report = FALSE,
                                         !.refused = TRUE, !.try = 2])
                  /\ modem' = modem \ mine
        PROVE  \E h \in Handlers : /\ handler' = [handler EXCEPT ![s] = h]
                                   /\ IsDone(h) \/ HasFailed(h) \/ TriesAgain(h)
    <3>1. (taken => sent' = [sent EXCEPT ![s] = 1]) /\ (~taken => sent' = sent)
      BY <2>2, <2>4
    <3>2. CASE Agent(s, [handler[s] EXCEPT !.pc = "error"]) /\ UNCHANGED modem
      <4>1. /\ [handler[s] EXCEPT !.pc = "error"] \in Handlers
            /\ [handler[s] EXCEPT !.pc = "error"].pc = "error"
            /\ [handler[s] EXCEPT !.pc = "error"].try = handler[s].try
        BY <1>1 DEF Handlers
      <4> QED
        BY <3>1, <3>2, <4>1 DEF Agent
    <3>3. CASE /\ RejectsReport(handler[s], taken)
               /\ Agent(s, [handler[s] EXCEPT !.pc = "create", !.report = FALSE,
                                              !.refused = TRUE, !.try = 2])
               /\ modem' = modem \ mine
      <4> DEFINE h == [handler[s] EXCEPT !.pc = "create", !.report = no, !.refused = yes, !.try = 2]
      <4>1. Agent(s, h) /\ sent' = sent
        BY <3>1, <3>3 DEF RejectsReport
      <4> HIDE DEF yes, no
      <4> DEFINE g == [handler[s] EXCEPT !.pc = "create", !.report = no, !.refused = yes]
      <4>2. g \in Handlers /\ g.pc = "create" /\ h = [g EXCEPT !.try = 2]
        BY <1>1, <2>1 DEF Handlers
      <4> HIDE DEF g, h
      <4>3. h \in Handlers /\ h.pc = "create" /\ h.try = 2
        BY <4>2 DEF Handlers
      <4> QED
        BY <3>3, <4>1, <4>3 DEF Agent
    <3> QED
      BY <2>4, <3>2, <3>3
  <2> QED
    BY <2>3, <2>4 DEF SendSMS
<1> HIDE DEF id, F
<1>6. PICK h \in Handlers : /\ handler' = [handler EXCEPT ![s] = h]
                            /\ IsDone(h) \/ HasFailed(h) \/ TriesAgain(h)
  BY <1>5
<1>7. /\ handler'[s] = h /\ \A t \in Sends : t # s => handler'[t] = handler[t]
      /\ handler' \in [Sends -> Handlers] /\ h.try \in {1, 2}
  BY <1>1, <1>6 DEF MessagesTypeOK
<1>8. /\ sent' \in [Sends -> Nat] /\ \A t \in Sends : t # s => sent'[t] = sent[t]
      /\ sent'[s] \in {0, 1} /\ (h.pc = "done" => sent'[s] = 1) /\ (h.pc = "create" => sent'[s] = 0)
      /\ \A t \in Sends : sent[t] = 1 => sent'[t] = 1
  BY <1>1, <1>6 DEF MessagesTypeOK
<1>9. HandledOnce'
  BY <1>1, <1>6, <1>7, <1>8 DEF HandledOnce
<1>10. RowsFollowRequests'
  BY <1>1, <1>8 DEF RowsFollowRequests
<1>11. DeletedIsStored'
  BY <1>1 DEF DeletedIsStored
<1>12. RowsAreTrue'
  <2>1. \A r \in rows : r.status = "delivered" => r.id.of \in Sends
    BY DEF RowsFollowRequests, MessagesTypeOK, MessageRows, MessageIds,
           MessagesAssumption
  <2>2. \A r \in rows : r.status = "delivered" => sent'[r.id.of] = 1
    BY <1>8, <2>1 DEF RowsAreTrue
  <2> QED
    BY <1>1, <2>2 DEF RowsAreTrue
<1>13. \A x \in modem' : \E o \in modem :
         /\ x = o \/ (o \in mine /\ x = F(o))
         /\ x \in Objects /\ x.id = o.id /\ x.report = o.report
         /\ x.state = o.state \/ (x.state = "sent" /\ sent'[s] = 1 /\ o \in mine)
  BY <1>4, <1>6, <1>8
<1>14. \A o \in mine : o.id.kind = "out" /\ o.id.of = s
  BY <1>2
<1>15. MessagesTypeOK'
  <2>1. modem' \subseteq Objects
    BY <1>13
  <2> QED
    BY <1>1, <1>7, <1>8, <2>1 DEF MessagesTypeOK
<1>16. ObjectsAreKnown'
  <2>1. \A o : Exists(o) /\ o.id.kind # "in" => o.id.of \in Sends
    BY DEF ObjectsAreKnown
  <2>2. \A o : Exists(o) =>
          (o.id.kind = "report" \/ (o.id.kind = "out" /\ o.state = "sent") => sent'[o.id.of] = 1)
    BY <1>8, <2>1 DEF ObjectsAreKnown
  <2>3. \A x \in modem' :
          /\ x.id.kind = "in" => x.id.of \in Incoming /\ x.state \in {"receiving", "received"}
          /\ x.id.kind # "in" => x.id.of \in Sends
          /\ x.id.kind = "out" => x.state \in {"unknown", "sent"}
          /\ x.id.kind = "report" => x.state \in {"delivered", "failed"}
          /\ x.id.kind = "report" \/ (x.id.kind = "out" /\ x.state = "sent")
               => sent'[x.id.of] = 1
    <3> SUFFICES ASSUME NEW x \in modem'
                 PROVE  /\ x.id.kind = "in" => x.id.of \in Incoming /\ x.state \in {"receiving", "received"}
                        /\ x.id.kind # "in" => x.id.of \in Sends
                        /\ x.id.kind = "out" => x.state \in {"unknown", "sent"}
                        /\ x.id.kind = "report" => x.state \in {"delivered", "failed"}
                        /\ x.id.kind = "report" \/ (x.id.kind = "out" /\ x.state = "sent")
                             => sent'[x.id.of] = 1
      OBVIOUS
    <3>1. PICK o \in modem :
            /\ x.id = o.id
            /\ x.state = o.state \/ (x.state = "sent" /\ sent'[s] = 1 /\ o \in mine)
      BY <1>13
    <3>2. Exists(o)
      BY DEF Exists
    <3> QED
      BY <1>14, <2>2, <3>1, <3>2 DEF ObjectsAreKnown
  <2>4. snap # None => \A o \in snap : Exists(o)
    BY DEF Exists
  <2> QED
    BY <1>1, <2>2, <2>3, <2>4 DEF ObjectsAreKnown, Exists
<1>17. ObjectsAreUnique'
  <2>1. \A x \in modem' :
          /\ x.id.epoch = epoch'
          /\ x.id.kind = "in" => x.id.of \in arrived' /\ x.id.try = 1
    BY <1>1, <1>13 DEF ObjectsAreUnique
  <2>2. \A o \in modem : o.id.kind # "in" /\ o.id.of = s =>
          o.id.kind = "out" /\ o.id.try \in 0..2 /\ o.id.try <= handler[s].try
    BY <1>1, <1>4
    DEF ObjectsAreUnique, ObjectsAreKnown, Exists, MessageIds, Handlers
  <2>3. \A x \in modem' : x.id.kind # "in" =>
          x.id.try < handler'[x.id.of].try + (IF handler'[x.id.of].pc = "create" THEN 0 ELSE 1)
    <3> SUFFICES ASSUME NEW x \in modem', x.id.kind # "in"
                 PROVE  x.id.try < handler'[x.id.of].try
                                     + (IF handler'[x.id.of].pc = "create" THEN 0 ELSE 1)
      OBVIOUS
    <3>1. PICK o \in modem : (x = o \/ (o \in mine /\ x = F(o))) /\ x.id = o.id
      BY <1>13
    <3>2. o.id.of \in Sends
      BY <3>1 DEF ObjectsAreKnown, Exists
    <3>3. CASE o.id.of # s
      BY <1>7, <3>1, <3>2, <3>3 DEF ObjectsAreUnique
    <3>4. CASE o.id.of = s /\ h.pc # "create"
      BY <1>1, <1>6, <1>7, <2>2, <3>1, <3>4
    <3>5. CASE o.id.of = s /\ h.pc = "create"
      <4>1. x \in modem /\ x \notin mine /\ h.try = 2 /\ x = o
        BY <1>4, <1>6, <3>1, <3>5
      <4>2. x.id.try # handler[s].try
        BY <1>3, <2>2, <3>1, <3>5, <4>1
      <4> QED
        BY <1>1, <1>7, <2>2, <3>1, <3>5, <4>1, <4>2
    <3> QED
      BY <3>3, <3>4, <3>5
  <2>4. \A x, y \in modem' :
          x.id.kind = y.id.kind /\ x.id.of = y.id.of /\ x.id.try = y.id.try => x = y
    <3> SUFFICES ASSUME NEW x \in modem', NEW y \in modem',
                        x.id.kind = y.id.kind, x.id.of = y.id.of, x.id.try = y.id.try
                 PROVE  x = y
      OBVIOUS
    <3>1. PICK o \in modem : (x = o \/ (o \in mine /\ x = F(o))) /\ x.id = o.id
      BY <1>13
    <3>2. PICK p \in modem : (y = p \/ (p \in mine /\ y = F(p))) /\ y.id = p.id
      BY <1>13
    <3>3. o = p
      BY <3>1, <3>2 DEF ObjectsAreUnique
    <3>4. \A q \in mine : o \in mine => q = o
      BY DEF ObjectsAreUnique
    <3>5. o \in mine /\ IsDone(h) => x = F(o) /\ y = F(o)
      <4>1. \A z \in modem' : IsDone(h) => (z \in modem /\ z \notin mine) \/ \E q \in mine : z = F(q)
        OBVIOUS
      <4> QED
        BY <3>1, <3>2, <3>3, <3>4, <4>1
    <3>6. ~IsDone(h) => x = o /\ y = o
      <4>1. ~IsDone(h) => x \in modem /\ y \in modem
        BY <1>6
      <4> QED
        BY <3>1, <3>2, <3>3, <4>1 DEF ObjectsAreUnique
    <3> QED
      BY <3>1, <3>2, <3>3, <3>5, <3>6
  <2>5. \A x, y \in modem' :
          x.id.kind = "out" /\ x.report /\ y.id.kind = "report" =>
            x.id.of # y.id.of \/ x.id.try # y.id.try
    BY <1>13 DEF ObjectsAreUnique
  <2> QED
    BY <1>1, <2>1, <2>3, <2>4, <2>5 DEF ObjectsAreUnique
<1>18. NoMessageLost'
  <2>1. \A o \in modem : o.id.kind = "in" => o \in modem'
    BY <1>6, <1>14
  <2> QED
    BY <1>1, <2>1 DEF NoMessageLost
<1> QED
  BY <1>9, <1>10, <1>11, <1>12, <1>15, <1>16, <1>17, <1>18

\* The steps of a request that touch neither the modem nor the rows.
LEMMA RequestStepKeeps ==
  ASSUME MessagesInv, NEW s \in Sends, NEW p \in Requests, NEW j \in Statuses,
         app' = [app EXCEPT ![s] = p], journal' = [journal EXCEPT ![s] = j],
         UNCHANGED <<modem, epoch, arrived, handler, sent, rows, snap, cleanup>>,
         policy'.rev \in Nat, policy'.enabled \in BOOLEAN,
         j = None => p.pc = "idle",
         j = None \/ p.pc = "begun" => handler[s].pc = "idle",
         p.pc \in {"policy", "record", "finish"} => sent[s] = 1 /\ p.of \in {1, 2},
         j = None \/ p.pc \in {"begun", "waiting", "policy", "record"} => \A r \in rows : r.req # s,
         p.pc = "finish" => \E r \in rows : r.req = s,
         j = "completed" => sent[s] = 1 /\ \E r \in rows : r.req = s
  PROVE  MessagesInv'
<1> USE DEF MessagesInv
<1>1. /\ app'[s] = p /\ \A t \in Sends : t # s => app'[t] = app[t]
      /\ app' \in [Sends -> Requests]
  BY DEF MessagesTypeOK
<1>2. /\ journal'[s] = j /\ \A t \in Sends : t # s => journal'[t] = journal[t]
      /\ journal' \in [Sends -> Statuses]
  BY DEF MessagesTypeOK
<1>3. MessagesTypeOK'
  BY <1>1, <1>2 DEF MessagesTypeOK
<1>4. ObjectsAreKnown' /\ ObjectsAreUnique'
  BY DEF ObjectsAreKnown, Exists, ObjectsAreUnique
<1>5. HandledOnce'
  <2> SUFFICES ASSUME NEW t \in Sends
               PROVE  /\ sent[t] <= 1
                      /\ handler[t].pc \in {"idle", "create", "send"} => sent[t] = 0
                      /\ handler[t].pc = "done" => sent[t] = 1
                      /\ handler[t].pc = "idle" => handler[t].try = 0
                      /\ handler[t].pc # "idle" => handler[t].try \in {1, 2}
                      /\ journal'[t] = None => app'[t].pc = "idle"
                      /\ journal'[t] = None \/ app'[t].pc = "begun" => handler[t].pc = "idle"
                      /\ app'[t].pc \in {"policy", "record", "finish"} =>
                           sent[t] = 1 /\ app'[t].of \in {1, 2}
    BY DEF HandledOnce
  <2>1. CASE t = s
    BY <1>1, <1>2, <2>1 DEF HandledOnce
  <2>2. CASE t # s
    BY <1>1, <1>2, <2>2 DEF HandledOnce
  <2> QED
    BY <2>1, <2>2
<1>6. RowsFollowRequests'
  <2>1. \A t \in Sends :
          /\ journal'[t] = None \/ app'[t].pc \in {"begun", "waiting", "policy", "record"} =>
               \A r \in rows : r.req # t
          /\ app'[t].pc = "finish" => \E r \in rows : r.req = t
          /\ \A r, q \in rows : r.req = t /\ q.req = t => r = q
          /\ journal'[t] = "completed" => sent[t] = 1 /\ \E r \in rows : r.req = t
    <3> TAKE t \in Sends
    <3>1. CASE t = s
      BY <1>1, <1>2, <3>1 DEF RowsFollowRequests
    <3>2. CASE t # s
      BY <1>1, <1>2, <3>2 DEF RowsFollowRequests
    <3> QED
      BY <3>1, <3>2
  <2> QED
    BY <2>1 DEF RowsFollowRequests
<1>7. DeletedIsStored' /\ NoMessageLost' /\ RowsAreTrue'
  BY DEF DeletedIsStored, NoMessageLost, RowsAreTrue
<1> QED
  BY <1>3, <1>4, <1>5, <1>6, <1>7

\* A request is begun once.
LEMMA BeginCommandKeeps ==
  ASSUME MessagesAssumption, MessagesInv, NEW s \in Sends, BeginCommand(s)
  PROVE  MessagesInv'
<1>1. /\ journal[s] = None /\ app[s].pc = "idle"
      /\ journal' = [journal EXCEPT ![s] = "executing"]
      /\ UNCHANGED <<modem, epoch, arrived, handler, sent, policy, rows, snap, cleanup>>
  BY DEF BeginCommand, device, records, refreshing
<1>2. PICK p \in Requests : p.pc = "begun" /\ app' = [app EXCEPT ![s] = p]
  <2> DEFINE no == FALSE
             p == [pc |-> "begun", rev |-> 0, asks |-> no, of |-> None]
  <2>1. no \in BOOLEAN /\ AppIdle = [pc |-> "idle", rev |-> 0, asks |-> no, of |-> None]
    BY DEF AppIdle
  <2> HIDE DEF no
  <2>4. p = [AppIdle EXCEPT !.pc = "begun"]
    BY <2>1
  <2>2. app' = [app EXCEPT ![s] = p]
    BY <2>4, Zenon DEF BeginCommand, App
  <2>3. p \in Requests /\ p.pc = "begun"
    BY <2>1 DEF Requests
  <2> QED
    BY <2>2, <2>3
<1>3. policy'.rev \in Nat /\ policy'.enabled \in BOOLEAN
  BY <1>1 DEF MessagesInv, MessagesTypeOK
<1>4. handler[s].pc = "idle" /\ \A r \in rows : r.req # s
  BY <1>1 DEF MessagesInv, HandledOnce, RowsFollowRequests
<1>5. "executing" # None /\ "executing" \in Statuses
  BY DEF MessagesAssumption, Statuses
<1> QED
  BY <1>1, <1>2, <1>3, <1>4, <1>5, RequestStepKeeps

\* The state of a request nobody works on.
LEMMA AppIdleIsRequest == AppIdle \in Requests /\ AppIdle.pc = "idle"
<1> DEFINE no == FALSE
<1>1. no \in BOOLEAN /\ AppIdle = [pc |-> "idle", rev |-> 0, asks |-> no, of |-> None]
  BY DEF AppIdle
<1> HIDE DEF no
<1> QED
  BY <1>1 DEF Requests

\* The state of a handler that has not begun.
LEMMA AgentIdleIsHandler == AgentIdle \in Handlers
<1> DEFINE no == FALSE
<1>1. no \in BOOLEAN /\ AgentIdle = [pc |-> "idle", report |-> no, refused |-> no, try |-> 0]
  BY DEF AgentIdle
<1> HIDE DEF no
<1> QED
  BY <1>1 DEF Handlers

\* The agent is asked once for each request.
LEMMA ReadPolicyKeeps ==
  ASSUME MessagesAssumption, MessagesInv, NEW s \in Sends, ReadPolicy(s)
  PROVE  MessagesInv'
<1>1. /\ app[s].pc = "begun" /\ handler[s].pc = "idle" /\ handler[s].try = 0 /\ sent[s] = 0
      /\ \A r \in rows : r.req # s
      /\ policy.rev \in Nat /\ policy.enabled \in BOOLEAN
      /\ journal[s] \in Statuses /\ journal[s] # None
      /\ journal[s] = "completed" => sent[s] = 1
      /\ UNCHANGED <<modem, epoch, arrived, sent, policy, rows, snap, cleanup>>
  BY DEF ReadPolicy, records, refreshing, MessagesInv, HandledOnce,
         RowsFollowRequests, MessagesTypeOK
<1>2. CASE /\ App(s, AppIdle) /\ journal' = [journal EXCEPT ![s] = "failed"]
           /\ UNCHANGED handler
  <2>1. "failed" # None /\ "failed" \in Statuses
    BY DEF MessagesAssumption, Statuses
  <2> QED
    BY <1>1, <1>2, <2>1, AppIdleIsRequest, RequestStepKeeps DEF App
<1>3. CASE /\ App(s, [AppIdle EXCEPT !.pc = "waiting", !.rev = policy.rev,
                                     !.asks = policy.enabled])
           /\ Agent(s, [AgentIdle EXCEPT !.pc = "create", !.try = 1,
                                         !.report = policy.enabled])
           /\ UNCHANGED journal
  <2> USE DEF MessagesInv
  <2>1. PICK p \in Requests : p.pc = "waiting" /\ app' = [app EXCEPT ![s] = p]
    <3> DEFINE g == [AppIdle EXCEPT !.pc = "waiting", !.rev = policy.rev]
               p == [g EXCEPT !.asks = policy.enabled]
    <3>1. app' = [app EXCEPT ![s] = p]
      BY <1>3 DEF App
    <3>2. g \in Requests /\ g.pc = "waiting"
      BY <1>1, AppIdleIsRequest DEF Requests
    <3> HIDE DEF g
    <3>3. p \in Requests /\ p.pc = "waiting"
      BY <1>1, <3>2 DEF Requests
    <3> QED
      BY <3>1, <3>3
  <2>2. PICK h \in Handlers : h.pc = "create" /\ h.try = 1 /\ handler' = [handler EXCEPT ![s] = h]
    <3> DEFINE f == [AgentIdle EXCEPT !.pc = "create"]
               g == [f EXCEPT !.try = 1]
               h == [g EXCEPT !.report = policy.enabled]
    <3>1. handler' = [handler EXCEPT ![s] = h]
      BY <1>3 DEF Agent
    <3>4. f \in Handlers /\ f.pc = "create"
      BY AgentIdleIsHandler DEF Handlers
    <3> HIDE DEF f
    <3>2. g \in Handlers /\ g.pc = "create" /\ g.try = 1
      BY <3>4 DEF Handlers
    <3> HIDE DEF g
    <3>3. h \in Handlers /\ h.pc = "create" /\ h.try = 1
      BY <1>1, <3>2 DEF Handlers
    <3> QED
      BY <3>1, <3>3
  <2>3. /\ app'[s] = p /\ \A t \in Sends : t # s => app'[t] = app[t]
        /\ app' \in [Sends -> Requests]
    BY <2>1 DEF MessagesTypeOK
  <2>4. /\ handler'[s] = h /\ \A t \in Sends : t # s => handler'[t] = handler[t]
        /\ handler' \in [Sends -> Handlers]
    BY <2>2 DEF MessagesTypeOK
  <2>5. MessagesTypeOK'
    BY <1>1, <1>3, <2>3, <2>4 DEF MessagesTypeOK
  <2>6. ObjectsAreKnown' /\ DeletedIsStored' /\ NoMessageLost' /\ RowsAreTrue'
    BY <1>1
    DEF ObjectsAreKnown, Exists, DeletedIsStored, NoMessageLost, RowsAreTrue
  <2>7. ObjectsAreUnique'
    <3>1. \A o \in modem : o.id.kind # "in" =>
            o.id.try < handler'[o.id.of].try + (IF handler'[o.id.of].pc = "create" THEN 0 ELSE 1)
      <4> SUFFICES ASSUME NEW o \in modem, o.id.kind # "in"
                   PROVE  o.id.try < handler'[o.id.of].try
                                       + (IF handler'[o.id.of].pc = "create" THEN 0 ELSE 1)
        OBVIOUS
      <4>1. o.id.of \in Sends
        BY DEF ObjectsAreKnown, Exists
      <4>2. o.id.try < handler[o.id.of].try + (IF handler[o.id.of].pc = "create" THEN 0 ELSE 1)
        BY DEF ObjectsAreUnique
      <4> QED
        BY <1>1, <2>2, <2>4, <4>1, <4>2
    <3> QED
      BY <1>1, <3>1 DEF ObjectsAreUnique
  <2>8. HandledOnce'
    BY <1>1, <1>3, <2>1, <2>2, <2>3, <2>4 DEF HandledOnce
  <2>9. RowsFollowRequests'
    BY <1>1, <1>3, <2>1, <2>3 DEF RowsFollowRequests
  <2> QED
    BY <2>5, <2>6, <2>7, <2>8, <2>9
<1> QED
  BY <1>2, <1>3 DEF ReadPolicy

\* An answer is about a message that was sent; without one the request is over.
LEMMA AnsweredKeeps ==
  ASSUME MessagesAssumption, MessagesInv, NEW s \in Sends, Answered(s)
  PROVE  MessagesInv'
<1>1. /\ app[s].pc = "waiting" /\ app[s] \in Requests /\ handler[s] \in Handlers
      /\ \A r \in rows : r.req # s
      /\ policy.rev \in Nat /\ policy.enabled \in BOOLEAN
      /\ journal[s] \in Statuses /\ journal[s] # None /\ journal[s] # "completed"
      /\ handler[s].pc = "done" => sent[s] = 1 /\ handler[s].try \in {1, 2}
      /\ UNCHANGED <<modem, epoch, arrived, handler, sent, policy, rows, snap, cleanup>>
  BY DEF Answered, device, records, refreshing, MessagesInv, HandledOnce,
         RowsFollowRequests,
         MessagesTypeOK
<1>2. journal = [journal EXCEPT ![s] = journal[s]]
  BY DEF MessagesInv, MessagesTypeOK
<1>3. CASE /\ handler[s].pc = "done"
           /\ App(s, [app[s] EXCEPT !.pc = "policy", !.of = handler[s].try,
                                    !.asks = @ /\ ~handler[s].refused])
           /\ UNCHANGED journal
  <2> DEFINE asks == app[s].asks /\ ~handler[s].refused
             f == [app[s] EXCEPT !.pc = "policy"]
             g == [f EXCEPT !.of = handler[s].try]
             p == [g EXCEPT !.asks = asks]
  <2>1. app' = [app EXCEPT ![s] = p]
    BY <1>3 DEF App
  <2>2. asks \in BOOLEAN
    OBVIOUS
  <2>6. f \in Requests /\ f.pc = "policy"
    BY <1>1 DEF Requests
  <2> HIDE DEF asks, f
  <2>3. g \in Requests /\ g.pc = "policy" /\ g.of \in {1, 2}
    BY <1>1, <1>3, <2>6 DEF Requests
  <2> HIDE DEF g
  <2>4. p \in Requests /\ p.pc = "policy" /\ p.of \in {1, 2}
    BY <2>2, <2>3 DEF Requests
  <2>5. journal' = [journal EXCEPT ![s] = journal[s]]
    BY <1>2, <1>3
  <2> HIDE DEF p
  <2> QED
    BY <1>1, <1>3, <2>1, <2>4, <2>5, RequestStepKeeps
<1>4. CASE /\ App(s, AppIdle)
           /\ \E outcome \in {"failed", "indeterminate", journal[s]} :
                /\ outcome = "failed" => handler[s].pc = "error"
                /\ journal' = [journal EXCEPT ![s] = outcome]
  <2>1. PICK j \in Statuses : j # None /\ j # "completed" /\ journal' = [journal EXCEPT ![s] = j]
    BY <1>1, <1>4 DEF Statuses, MessagesAssumption
  <2> QED
    BY <1>1, <1>4, <2>1, AppIdleIsRequest, RequestStepKeeps DEF App
<1> QED
  BY <1>3, <1>4 DEF Answered

\* A refused report changes only the policy.
LEMMA MarkUnsupportedKeeps ==
  ASSUME MessagesAssumption, MessagesInv, NEW s \in Sends, MarkUnsupported(s)
  PROVE  MessagesInv'
<1>1. /\ app[s].pc = "policy" /\ app[s] \in Requests
      /\ \A r \in rows : r.req # s
      /\ journal[s] \in Statuses /\ journal[s] # None /\ journal[s] # "completed"
      /\ sent[s] = 1 /\ app[s].of \in {1, 2}
      /\ UNCHANGED <<modem, epoch, arrived, handler, sent, journal, rows, snap, cleanup>>
  BY DEF MarkUnsupported, device, refreshing, MessagesInv, HandledOnce,
         RowsFollowRequests,
         MessagesTypeOK
<1>2. journal' = [journal EXCEPT ![s] = journal[s]]
  BY <1>1 DEF MessagesInv, MessagesTypeOK
<1>3. policy'.rev \in Nat /\ policy'.enabled \in BOOLEAN
  <2>1. policy.rev \in Nat /\ policy.enabled \in BOOLEAN
    BY DEF MessagesInv, MessagesTypeOK
  <2> DEFINE no == FALSE
  <2>2. CASE policy' = [enabled |-> no, support |-> "unsupported", rev |-> policy.rev + 1]
    <3>1. no \in BOOLEAN
      OBVIOUS
    <3> HIDE DEF no
    <3> QED
      BY <2>1, <2>2, <3>1
  <2> QED
    BY <2>1, <2>2 DEF MarkUnsupported
<1> DEFINE p == [app[s] EXCEPT !.pc = "record"]
<1>4. p \in Requests /\ p.pc = "record" /\ p.of = app[s].of /\ app' = [app EXCEPT ![s] = p]
  BY <1>1 DEF Requests, MarkUnsupported, App
<1> HIDE DEF p
<1> QED
  BY <1>1, <1>2, <1>3, <1>4, RequestStepKeeps

\* A request is completed after its row was stored.
LEMMA FinishCommandKeeps ==
  ASSUME MessagesAssumption, MessagesInv, NEW s \in Sends, FinishCommand(s)
  PROVE  MessagesInv'
<1>1. /\ app[s].pc = "finish"
      /\ \E r \in rows : r.req = s
      /\ journal[s] \in Statuses /\ journal[s] # None
      /\ sent[s] = 1 /\ policy.rev \in Nat /\ policy.enabled \in BOOLEAN
      /\ UNCHANGED <<modem, epoch, arrived, handler, sent, policy, rows, snap, cleanup>>
      /\ app' = [app EXCEPT ![s] = AppIdle]
  BY DEF FinishCommand, App, device, records, refreshing, MessagesInv,
         HandledOnce,
         RowsFollowRequests, MessagesTypeOK
<1>2. PICK j \in Statuses : j # None /\ journal' = [journal EXCEPT ![s] = j]
  BY <1>1 DEF FinishCommand, Statuses, MessagesAssumption, MessagesInv,
     MessagesTypeOK
<1> QED
  BY <1>1, <1>2, AppIdleIsRequest, RequestStepKeeps

\* A change of the policy touches no message.
LEMMA UpdatePolicyKeeps ==
  ASSUME MessagesInv, NEW on \in BOOLEAN, UpdatePolicy(on)
  PROVE  MessagesInv'
<1>1. /\ UNCHANGED <<modem, epoch, arrived, handler, sent, journal, app, rows, snap, cleanup>>
      /\ policy'.rev \in Nat /\ policy'.enabled \in BOOLEAN
  BY DEF UpdatePolicy, device, refreshing, MessagesInv, MessagesTypeOK
<1> QED
  BY <1>1 DEF MessagesInv, MessagesTypeOK, ObjectsAreKnown, Exists,
     ObjectsAreUnique, HandledOnce,
              RowsFollowRequests, DeletedIsStored, NoMessageLost, RowsAreTrue

\* The row of a request is a new one or the one a snapshot made of its object.
LEMMA RecordKeeps ==
  ASSUME MessagesAssumption, MessagesInv, NEW s \in Sends, Record(s)
  PROVE  MessagesInv'
<1>1. /\ app[s].pc = "record" /\ app[s] \in Requests
      /\ \A r \in rows : r.req # s
      /\ policy.rev \in Nat /\ policy.enabled \in BOOLEAN
      /\ journal[s] \in Statuses /\ journal[s] # None /\ journal[s] # "completed"
      /\ sent[s] = 1 /\ app[s].of \in {1, 2}
      /\ UNCHANGED <<modem, epoch, arrived, handler, sent, journal, policy, snap, cleanup>>
  <2>1. /\ app[s].pc = "record"
        /\ UNCHANGED <<modem, epoch, arrived, handler, sent, journal, policy, snap, cleanup>>
    BY DEF Record, device, refreshing
  <2> QED
    BY <2>1 DEF MessagesInv, HandledOnce, RowsFollowRequests, MessagesTypeOK
<1>2. journal' = [journal EXCEPT ![s] = journal[s]]
  BY <1>1 DEF MessagesInv, MessagesTypeOK
<1>3. CASE App(s, AppIdle) /\ UNCHANGED rows
  BY <1>1, <1>2, <1>3, AppIdleIsRequest, RequestStepKeeps DEF App
<1> DEFINE id == [kind |-> "out", of |-> s, try |-> app[s].of, epoch |-> epoch]
           mine == RowFor(s, id)
           new == [id |-> id, req |-> s, whole |-> TRUE, ref |-> FALSE,
                   asked |-> app[s].asks, status |-> "submitted"]
           kept == {[r EXCEPT !.req = s, !.asked = @ \/ app[s].asks] : r \in mine}
<1>4. CASE /\ rows' = (rows \ mine) \cup (IF mine = {} THEN {new} ELSE kept)
           /\ App(s, [app[s] EXCEPT !.pc = "finish"])
  <2> USE DEF MessagesInv
  <2>1. id \in MessageIds /\ id.kind = "out" /\ id.of = s
    BY <1>1 DEF MessageIds, MessagesTypeOK
  <2>2. mine = {r \in rows : r.id = id}
    BY <1>1 DEF RowFor
  <2> HIDE DEF id
  <2>3. new \in MessageRows /\ new.id = id /\ new.req = s /\ new.status = "submitted"
    <3> DEFINE yes == TRUE
               no == FALSE
               asks == app[s].asks
    <3>1. yes \in BOOLEAN /\ no \in BOOLEAN /\ asks \in BOOLEAN
      BY <1>1 DEF Requests
    <3>2. new = [id |-> id, req |-> s, whole |-> yes, ref |-> no,
                 asked |-> asks, status |-> "submitted"]
      OBVIOUS
    <3> HIDE DEF yes, no, asks, new
    <3> QED
      BY <2>1, <3>1, <3>2 DEF MessageRows
  <2>4. \A r \in rows :
          LET k == [r EXCEPT !.req = s, !.asked = @ \/ app[s].asks]
          IN /\ k \in MessageRows /\ k.id = r.id /\ k.req = s
             /\ k.status = r.status /\ k.whole = r.whole
    <3> TAKE r \in rows
    <3> DEFINE asks == r.asked \/ app[s].asks
               f == [r EXCEPT !.req = s]
               k == [f EXCEPT !.asked = asks]
    <3>1. r \in MessageRows
      BY DEF MessagesTypeOK
    <3>2. asks \in BOOLEAN
      OBVIOUS
    <3>3. /\ f \in MessageRows /\ f.id = r.id /\ f.req = s
          /\ f.status = r.status /\ f.whole = r.whole
      BY <3>1 DEF MessageRows
    <3>4. k = [r EXCEPT !.req = s, !.asked = @ \/ app[s].asks]
      OBVIOUS
    <3> HIDE DEF asks, f
    <3>5. /\ k \in MessageRows /\ k.id = r.id /\ k.req = s
          /\ k.status = r.status /\ k.whole = r.whole
      BY <3>2, <3>3 DEF MessageRows
    <3> QED
      BY <3>4, <3>5
  <2> HIDE DEF new
  <2>5. PICK p \in Requests : p.pc = "finish" /\ p.of = app[s].of /\ app' = [app EXCEPT ![s] = p]
    <3> DEFINE p == [app[s] EXCEPT !.pc = "finish"]
    <3>1. p \in Requests /\ p.pc = "finish" /\ p.of = app[s].of
      BY <1>1 DEF Requests
    <3> QED
      BY <1>4, <3>1 DEF App
  <2>6. /\ app'[s] = p /\ \A t \in Sends : t # s => app'[t] = app[t]
        /\ app' \in [Sends -> Requests]
    BY <2>5 DEF MessagesTypeOK
  \* The one row of the request: the new row, or the row of the snapshot.
  <2>7. PICK n \in MessageRows :
          /\ n.id = id /\ n.req = s
          /\ rows' = {r \in rows : r.id # id} \cup {n}
          /\ n.status = "delivered" => \E r \in rows : r.id = id /\ r.status = "delivered"
    <3>1. CASE mine = {}
      BY <1>4, <2>2, <2>3, <3>1
    <3>2. CASE mine # {}
      <4>1. PICK r \in rows : r.id = id
        BY <2>2, <3>2
      <4>2. mine = {r}
        BY <2>2, <4>1 DEF RowsAreTrue
      <4> DEFINE k == [r EXCEPT !.req = s, !.asked = @ \/ app[s].asks]
      <4>3. kept = {k}
        BY <4>2
      <4>4. /\ k \in MessageRows /\ k.id = id /\ k.req = s /\ k.status = r.status
        BY <2>4, <4>1
      <4>5. rows' = {q \in rows : q.id # id} \cup {k}
        BY <1>4, <2>2, <3>2, <4>3
      <4> HIDE DEF k, kept
      <4> QED
        BY <4>1, <4>4, <4>5
    <3> QED
      BY <3>1, <3>2
  <2> HIDE DEF mine, kept
  <2>8. MessagesTypeOK'
    BY <1>1, <2>6, <2>7 DEF MessagesTypeOK
  <2>9. ObjectsAreKnown' /\ ObjectsAreUnique'
    BY <1>1 DEF ObjectsAreKnown, Exists, ObjectsAreUnique
  <2>10. HandledOnce'
    BY <1>1, <2>5, <2>6 DEF HandledOnce
  <2>11. RowsFollowRequests'
    <3>1. \A r \in rows' :
            /\ r.id.kind = "in" => r.whole /\ r.status = None
            /\ r.id.kind # "report"
            /\ r.id.kind = "out" => r.id.of \in Sends
            /\ r.req # None => r.id.kind = "out" /\ r.id.of = r.req
      BY <2>1, <2>7 DEF RowsFollowRequests
    <3>2. \A t \in Sends : t # s =>
            /\ \A r \in rows' : r.req = t => r \in rows
            /\ \A r \in rows : r.req = t => r \in rows'
      BY <2>1, <2>7, <1>1 DEF RowsFollowRequests, MessagesAssumption
    <3>3. (\E r \in rows' : r.req = s) /\ \A r, q \in rows' : r.req = s /\ q.req = s => r = q
      BY <1>1, <2>7
    <3>4. \A t \in Sends : t # s =>
            /\ journal[t] = None \/ app'[t].pc \in {"begun", "waiting", "policy", "record"} =>
                 \A r \in rows' : r.req # t
            /\ app'[t].pc = "finish" => \E r \in rows' : r.req = t
            /\ \A r, q \in rows' : r.req = t /\ q.req = t => r = q
            /\ journal[t] = "completed" => sent[t] = 1 /\ \E r \in rows' : r.req = t
      BY <2>6, <3>2 DEF RowsFollowRequests
    <3> QED
      BY <1>1, <2>5, <2>6, <3>1, <3>3, <3>4 DEF RowsFollowRequests
  <2>12. \A r \in rows : \E q \in rows' : q.id = r.id
    BY <2>7
  <2>13. DeletedIsStored'
    BY <1>1, <2>12 DEF DeletedIsStored
  <2>14. NoMessageLost'
    BY <1>1, <2>1, <2>7 DEF NoMessageLost
  <2>15. RowsAreTrue'
    BY <1>1, <2>7 DEF RowsAreTrue
  <2> QED
    BY <2>8, <2>9, <2>10, <2>11, <2>13, <2>14, <2>15
<1> QED
  BY <1>3, <1>4 DEF Record

\* A snapshot names every object once.
LEMMA TakeObjectsKeeps ==
  ASSUME MessagesInv, TakeObjects
  PROVE  MessagesInv'
<1> USE DEF MessagesInv
<1>1. /\ snap' = modem
      /\ UNCHANGED <<modem, epoch, arrived, handler, sent, journal, app, policy, rows, cleanup>>
  BY DEF TakeObjects, device, records
<1>2. MessagesTypeOK' /\ ObjectsAreKnown'
  BY <1>1 DEF MessagesTypeOK, ObjectsAreKnown, Exists
<1>3. ObjectsAreUnique'
  BY <1>1 DEF ObjectsAreUnique
<1>4. HandledOnce' /\ RowsFollowRequests' /\ DeletedIsStored' /\ NoMessageLost' /\ RowsAreTrue'
  BY <1>1 DEF HandledOnce, RowsFollowRequests, DeletedIsStored, NoMessageLost,
     RowsAreTrue
<1> QED
  BY <1>2, <1>3, <1>4

\* The cleanup takes what is pending.
LEMMA BeginDeleteKeeps ==
  ASSUME MessagesInv, NEW id \in cleanup.pending, BeginDelete(id)
  PROVE  MessagesInv'
<1> USE DEF MessagesInv
<1>1. /\ cleanup' = [cleanup EXCEPT !.deleting = id]
      /\ UNCHANGED <<modem, epoch, arrived, handler, sent, journal, app, policy, rows, snap>>
  BY DEF BeginDelete, device, records
<1>2. MessagesTypeOK' /\ ObjectsAreKnown' /\ ObjectsAreUnique' /\ HandledOnce'
  BY <1>1 DEF MessagesTypeOK, ObjectsAreKnown, Exists, ObjectsAreUnique,
     HandledOnce
<1>3. cleanup'.pending = cleanup.pending /\ cleanup'.deleting = id
  BY <1>1 DEF MessagesTypeOK
<1>4. RowsFollowRequests' /\ DeletedIsStored' /\ NoMessageLost' /\ RowsAreTrue'
  BY <1>1, <1>3
  DEF RowsFollowRequests, DeletedIsStored, NoMessageLost, RowsAreTrue
<1> QED
  BY <1>2, <1>4

\* An incoming message is deleted from the modem only when it is stored.
LEMMA DeleteMessageKeeps ==
  ASSUME MessagesInv, DeleteMessage
  PROVE  MessagesInv'
<1> USE DEF MessagesInv
<1>1. /\ cleanup.deleting # None
      /\ modem' = modem \/ modem' = {o \in modem : o.id # cleanup.deleting}
      /\ UNCHANGED <<epoch, arrived, handler, sent, journal, app, policy, rows, snap>>
  BY DEF DeleteMessage, records
<1>6. /\ cleanup' \in [pending : SUBSET MessageIds, deleting : MessageIds \cup {None}]
      /\ cleanup'.pending \subseteq cleanup.pending /\ cleanup'.deleting = None
  <2>1. CASE cleanup' = [cleanup EXCEPT !.pending = @ \ {cleanup.deleting}, !.deleting = None]
    BY <2>1 DEF MessagesTypeOK
  <2>2. CASE cleanup' = [pending |-> {}, deleting |-> None]
    BY <2>2
  <2> QED
    BY <2>1, <2>2 DEF DeleteMessage
<1>2. MessagesTypeOK' /\ ObjectsAreKnown'
  BY <1>1, <1>6 DEF MessagesTypeOK, ObjectsAreKnown, Exists
<1>3. ObjectsAreUnique'
  BY <1>1 DEF ObjectsAreUnique
<1>4. HandledOnce' /\ RowsFollowRequests' /\ DeletedIsStored' /\ RowsAreTrue'
  BY <1>1, <1>6
  DEF HandledOnce, RowsFollowRequests, DeletedIsStored, RowsAreTrue
<1>5. NoMessageLost'
  <2>1. ASSUME NEW o \in modem, o \notin modem', o.id.kind = "in"
        PROVE  \E r \in rows : r.id.kind = "in" /\ r.id.of = o.id.of /\ r.whole
    <3>1. o.id = cleanup.deleting
      BY <1>1, <2>1
    <3>2. PICK r \in rows : r.id = o.id
      BY <1>1, <2>1, <3>1 DEF DeletedIsStored
    <3> QED
      BY <2>1, <3>2 DEF RowsFollowRequests
  <2> QED
    BY <1>1, <2>1 DEF NoMessageLost
<1> QED
  BY <1>2, <1>3, <1>4, <1>5

\* A restart makes the requests that were executing indeterminate.
LEMMA AppRestartsKeeps ==
  ASSUME MessagesAssumption, MessagesInv, AppRestarts
  PROVE  MessagesInv'
<1> USE DEF MessagesInv
<1>1. /\ snap' = None /\ cleanup' = [pending |-> {}, deleting |-> None]
      /\ UNCHANGED <<modem, epoch, arrived, handler, sent, policy, rows>>
  BY DEF AppRestarts, device, records
<1>2. app' \in [Sends -> Requests] /\ \A s \in Sends : app'[s].pc = "idle"
  BY AppIdleIsRequest DEF AppRestarts
<1>3. /\ journal' \in [Sends -> Statuses]
      /\ \A s \in Sends : journal'[s] = journal[s] \/ (journal'[s] = "indeterminate")
  BY DEF AppRestarts, MessagesTypeOK, Statuses
<1>4. MessagesTypeOK'
  BY <1>1, <1>2, <1>3 DEF MessagesTypeOK
<1>5. ObjectsAreKnown' /\ ObjectsAreUnique'
  BY <1>1 DEF ObjectsAreKnown, Exists, ObjectsAreUnique
<1>6. HandledOnce'
  BY <1>1, <1>2, <1>3 DEF HandledOnce, MessagesAssumption
<1>7. RowsFollowRequests'
  BY <1>1, <1>2, <1>3 DEF RowsFollowRequests, MessagesAssumption
<1>8. DeletedIsStored' /\ NoMessageLost' /\ RowsAreTrue'
  BY <1>1 DEF DeletedIsStored, NoMessageLost, RowsAreTrue
<1> QED
  BY <1>4, <1>5, <1>6, <1>7, <1>8

\* A snapshot adds rows for new objects and keeps what the others are about.
LEMMA CommitSnapshotKeeps ==
  ASSUME MessagesAssumption, MessagesInv, CommitSnapshot
  PROVE  MessagesInv'
<1> USE DEF MessagesInv
<1> DEFINE seen == {o \in snap : Projected(o)}
           reports == {o \in snap : o.id.kind = "report"}
           U == Upserted(rows, seen)
           ids == {o.id : o \in {x \in seen \cup reports : Deletable(x)}}
<1>1. /\ snap # None /\ snap' = None
      /\ UNCHANGED <<modem, epoch, arrived, handler, sent, journal, app, policy>>
      /\ \/ /\ rows' = Reported(U, reports)
            /\ cleanup' = [cleanup EXCEPT !.pending = @ \cup ids]
         \/ UNCHANGED <<rows, cleanup>>
  BY DEF CommitSnapshot, device
<1>2. ObjectsAreKnown' /\ ObjectsAreUnique' /\ HandledOnce'
  BY <1>1 DEF ObjectsAreKnown, Exists, ObjectsAreUnique, HandledOnce
<1>3. CASE UNCHANGED <<rows, cleanup>>
  <2>1. MessagesTypeOK' /\ RowsFollowRequests' /\ DeletedIsStored' /\ NoMessageLost' /\ RowsAreTrue'
    BY <1>1, <1>3
    DEF MessagesTypeOK, RowsFollowRequests, DeletedIsStored, NoMessageLost,
        RowsAreTrue
  <2> QED
    BY <1>2, <2>1
<1>4. CASE /\ rows' = Reported(U, reports)
           /\ cleanup' = [cleanup EXCEPT !.pending = @ \cup ids]
  <2>1. \A o \in snap : o \in Objects /\ Exists(o)
    BY <1>1 DEF MessagesTypeOK, Exists
  <2>2. \A o \in seen : /\ o \in snap /\ o \in Objects
                        /\ o.id \in MessageIds /\ o.id.kind # "report"
                        /\ o.id.kind = "in" => o.state = "received"
                        /\ o.id.kind = "out" => o.id.of \in Sends
    BY <2>1 DEF Projected, Objects, ObjectsAreKnown
  <2>3. \A p \in reports : /\ p \in snap /\ p.id.of \in Sends /\ p.id \in MessageIds
                           /\ p.id.kind = "report"
                           /\ p.state \in {"delivered", "failed"} /\ sent[p.id.of] = 1
    BY <2>1 DEF ObjectsAreKnown, Objects
  <2>4. \A o, p \in snap : o.id = p.id => o = p
    BY <1>1 DEF ObjectsAreUnique
  <2> HIDE DEF reports
  <2> DEFINE Ref(id) == \E o \in seen : o.id = id /\ o.state = "sent"
             H(r) == [r EXCEPT !.ref = @ \/ Ref(r.id)]
             new == {o \in seen : \A r \in rows : r.id # o.id}
             N(o) == [id |-> o.id, req |-> None, whole |-> o.state # "receiving",
                      ref |-> o.state = "sent", asked |-> FALSE,
                      status |-> IF o.id.kind = "in" THEN None ELSE "submitted"]
  <2>5. U = {H(r) : r \in rows} \cup {N(o) : o \in new}
    BY DEF Upserted
  <2>6. \A r \in rows : /\ H(r) \in MessageRows /\ H(r).id = r.id /\ H(r).req = r.req
                        /\ H(r).whole = r.whole /\ H(r).status = r.status
    <3> TAKE r \in rows
    <3> DEFINE b == r.ref \/ Ref(r.id)
    <3>1. b \in BOOLEAN /\ r \in MessageRows /\ H(r) = [r EXCEPT !.ref = b]
      BY DEF MessagesTypeOK
    <3> HIDE DEF b, H
    <3>2. /\ [r EXCEPT !.ref = b] \in MessageRows
          /\ [r EXCEPT !.ref = b].id = r.id /\ [r EXCEPT !.ref = b].req = r.req
          /\ [r EXCEPT !.ref = b].whole = r.whole /\ [r EXCEPT !.ref = b].status = r.status
      BY <3>1 DEF MessageRows
    <3> QED
      BY <3>1, <3>2
  <2>7. \A o \in new : /\ N(o) \in MessageRows /\ N(o).id = o.id /\ N(o).req = None
                       /\ o.id.kind = "in" => N(o).whole /\ N(o).status = None
                       /\ N(o).status # "delivered"
    <3> TAKE o \in new
    <3> DEFINE w == o.state # "receiving"
               f == o.state = "sent"
               no == FALSE
               st == IF o.id.kind = "in" THEN None ELSE "submitted"
               n == [id |-> o.id, req |-> None, whole |-> w, ref |-> f, asked |-> no, status |-> st]
    <3>1. /\ w \in BOOLEAN /\ f \in BOOLEAN /\ no \in BOOLEAN /\ N(o) = n
          /\ st \in {None, "submitted"} /\ st # "delivered"
          /\ o.id.kind = "in" => st = None
      BY DEF MessagesAssumption
    <3>2. o.id.kind = "in" => w
      BY <2>2
    <3>3. o.id \in MessageIds
      BY <2>2
    <3> HIDE DEF w, f, no, st
    <3>4. n \in MessageRows /\ n.id = o.id /\ n.req = None /\ n.whole = w /\ n.status = st
      BY <3>1, <3>3 DEF MessageRows
    <3> HIDE DEF n, N
    <3> QED
      BY <3>1, <3>2, <3>4
  <2> HIDE DEF H, N, Ref
  <2>8. \A u \in U : \/ \E r \in rows : u = H(r)
                     \/ \E o \in new : u = N(o)
    BY <2>5
  <2>9. \A r \in rows : H(r) \in U
    BY <2>5
  <2>10. \A o \in seen : \E u \in U : u.id = o.id
    <3> TAKE o \in seen
    <3>1. CASE o \in new
      BY <2>5, <2>7, <3>1
    <3>2. CASE o \notin new
      BY <2>6, <2>9, <3>2
    <3> QED
      BY <3>1, <3>2
  <2>11. \A u, v \in U : u.id = v.id => u = v
    <3> SUFFICES ASSUME NEW u \in U, NEW v \in U, u.id = v.id
                 PROVE  u = v
      OBVIOUS
    <3>1. CASE \E r \in rows : u = H(r)
      <4>1. PICK r \in rows : u = H(r)
        BY <3>1
      <4>2. ~\E o \in new : v = N(o)
        BY <2>6, <2>7, <4>1
      <4>3. PICK q \in rows : v = H(q)
        BY <2>8, <4>2
      <4> QED
        BY <2>6, <4>1, <4>3 DEF RowsAreTrue
    <3>2. CASE \E o \in new : u = N(o)
      <4>1. PICK o \in new : u = N(o)
        BY <3>2
      <4>2. ~\E r \in rows : v = H(r)
        BY <2>6, <2>7, <4>1
      <4>3. PICK p \in new : v = N(p)
        BY <2>8, <4>2
      <4>4. o.id = p.id /\ o \in snap /\ p \in snap
        BY <2>2, <2>7, <4>1, <4>3
      <4> QED
        BY <2>4, <4>1, <4>3, <4>4
    <3> QED
      BY <2>8, <3>1, <3>2
  <2>12. \A u \in U :
           /\ u \in MessageRows
           /\ u.id.kind = "in" => u.whole /\ u.status = None
           /\ u.id.kind # "report"
           /\ u.id.kind = "out" => u.id.of \in Sends
           /\ u.req # None => u.id.kind = "out" /\ u.id.of = u.req
           /\ u.req # None => \E r \in rows : u = H(r)
           /\ u.status = "delivered" => sent[u.id.of] = 1
    <3> SUFFICES ASSUME NEW u \in U
                 PROVE  /\ u \in MessageRows
                        /\ u.id.kind = "in" => u.whole /\ u.status = None
                        /\ u.id.kind # "report"
                        /\ u.id.kind = "out" => u.id.of \in Sends
                        /\ u.req # None => u.id.kind = "out" /\ u.id.of = u.req
                        /\ u.req # None => \E r \in rows : u = H(r)
                        /\ u.status = "delivered" => sent[u.id.of] = 1
      OBVIOUS
    <3>1. CASE \E r \in rows : u = H(r)
      BY <2>6, <3>1 DEF RowsFollowRequests, RowsAreTrue
    <3>2. CASE \E o \in new : u = N(o)
      BY <2>2, <2>7, <3>2
    <3> QED
      BY <2>8, <3>1, <3>2
  <2> HIDE DEF U, new, seen
  <2> DEFINE Mine(u) == {p \in reports : /\ u.asked /\ u.ref /\ p.id.of = u.id.of
                                         /\ p.id.try = u.id.try}
             G(u) == IF Mine(u) # {} /\ u.status = "submitted"
                     THEN [u EXCEPT !.status = (CHOOSE p \in Mine(u) : TRUE).state] ELSE u
  <2>13. rows' = {G(u) : u \in U}
    BY <1>4 DEF Reported
  <2>14. \A u \in U :
           /\ G(u) \in MessageRows /\ G(u).id = u.id /\ G(u).req = u.req /\ G(u).whole = u.whole
           /\ G(u).status = u.status
              \/ (u.status = "submitted" /\ sent[u.id.of] = 1)
    <3> TAKE u \in U
    <3>1. u \in MessageRows
      BY <2>12
    <3>2. CASE Mine(u) # {} /\ u.status = "submitted"
      <4> DEFINE p == CHOOSE p \in Mine(u) : TRUE
      <4>1. p \in Mine(u)
        BY <3>2
      <4>2. p.state \in {"delivered", "failed"} /\ sent[u.id.of] = 1
        BY <2>3, <4>1
      <4>3. G(u) = [u EXCEPT !.status = p.state]
        BY <3>2
      <4> HIDE DEF p, G
      <4> QED
        BY <3>1, <3>2, <4>2, <4>3 DEF MessageRows
    <3>3. CASE ~(Mine(u) # {} /\ u.status = "submitted")
      BY <3>1, <3>3
    <3> QED
      BY <3>2, <3>3
  <2> HIDE DEF G, Mine
  <2>15. \A x \in rows' : \E u \in U : x = G(u)
    BY <2>13
  <2>16. \A u \in U : G(u) \in rows'
    BY <2>13
  <2>17. \A x \in rows' :
           /\ x \in MessageRows
           /\ x.id.kind = "in" => x.whole /\ x.status = None
           /\ x.id.kind # "report"
           /\ x.id.kind = "out" => x.id.of \in Sends
           /\ x.req # None => x.id.kind = "out" /\ x.id.of = x.req
           /\ x.req # None => \E r \in rows : x = G(H(r)) /\ x.req = r.req
           /\ x.status = "delivered" => sent[x.id.of] = 1
    <3> SUFFICES ASSUME NEW u \in U
                 PROVE  LET x == G(u)
                        IN /\ x \in MessageRows
                           /\ x.id.kind = "in" => x.whole /\ x.status = None
                           /\ x.id.kind # "report"
                           /\ x.id.kind = "out" => x.id.of \in Sends
                           /\ x.req # None => x.id.kind = "out" /\ x.id.of = x.req
                           /\ x.req # None => \E r \in rows : x = G(H(r)) /\ x.req = r.req
                           /\ x.status = "delivered" => sent[x.id.of] = 1
      BY <2>15
    <3>1. u.id.kind = "in" => u.status # "submitted"
      BY <2>12 DEF MessagesAssumption
    <3>2. u.req # None => \E r \in rows : u = H(r) /\ G(u).req = r.req
      BY <2>6, <2>12, <2>14
    <3> QED
      BY <2>12, <2>14, <3>1, <3>2
  <2>18. \A r \in rows : \E x \in rows' : x.id = r.id /\ x.req = r.req /\ x.whole = r.whole
    BY <2>6, <2>9, <2>14, <2>16
  <2>19. \A o \in snap : Projected(o) => \E x \in rows' : x.id = o.id
    BY <2>10, <2>14, <2>16 DEF seen
  <2>20. \A x, y \in rows' : x.id = y.id => x = y
    BY <2>11, <2>14, <2>15
  <2>21. RowsAreTrue'
    BY <1>1, <2>17, <2>20 DEF RowsAreTrue
  <2>22. NoMessageLost'
    BY <1>1, <2>18 DEF NoMessageLost
  <2>23. ids \subseteq MessageIds /\ \A id \in ids : id.kind = "in" =>
           \E o \in snap : o.id = id /\ Projected(o)
    BY <2>1, <2>2, <2>3 DEF seen, Projected, Objects, reports
  <2> HIDE DEF ids
  <2>24. /\ cleanup' \in [pending : SUBSET MessageIds, deleting : MessageIds \cup {None}]
         /\ cleanup'.pending = cleanup.pending \cup ids /\ cleanup'.deleting = cleanup.deleting
    BY <1>4, <2>23 DEF MessagesTypeOK
  <2>25. DeletedIsStored'
    BY <2>18, <2>19, <2>23, <2>24 DEF DeletedIsStored
  <2>26. MessagesTypeOK'
    BY <1>1, <2>17, <2>24 DEF MessagesTypeOK
  <2>27. RowsFollowRequests'
    <3>1. \A s \in Sends : s # None
      BY DEF MessagesAssumption
    <3>2. \A s \in Sends : \A x \in rows' : x.req = s =>
            \E r \in rows : x = G(H(r)) /\ r.req = s
      BY <2>17, <3>1
    <3>3. \A s \in Sends :
            /\ journal[s] = None \/ app[s].pc \in {"begun", "waiting", "policy", "record"} =>
                 \A x \in rows' : x.req # s
            /\ app[s].pc = "finish" => \E x \in rows' : x.req = s
            /\ \A x, y \in rows' : x.req = s /\ y.req = s => x = y
            /\ journal[s] = "completed" => sent[s] = 1 /\ \E x \in rows' : x.req = s
      BY <2>18, <3>2 DEF RowsFollowRequests
    <3> QED
      BY <1>1, <2>17, <3>3 DEF RowsFollowRequests
  <2> QED
    BY <1>2, <2>21, <2>22, <2>25, <2>26, <2>27
<1> QED
  BY <1>1, <1>3, <1>4

\* Every step of the modem, the agent and the application keeps the invariant.
LEMMA MessagesInvNext ==
  ASSUME MessagesAssumption, MessagesInv, [MessagesNext]_mxVars
  PROVE  MessagesInv'
<1>1. CASE \E i \in Incoming : Arrive(i)
  BY <1>1, ArriveKeeps
<1>2. CASE \E o \in modem : Assembled(o)
  BY <1>2, AssembledKeeps
<1>3. CASE \E o \in modem, outcome \in {"delivered", "failed"} : Report(o, outcome)
  BY <1>3, ReportKeeps
<1>4. CASE ProviderRestarts
  BY <1>4, ProviderRestartsKeeps
<1>5. ASSUME NEW s \in Sends, SendStep(s)
      PROVE  MessagesInv'
  BY <1>5, CreateSMSKeeps, SendSMSKeeps, BeginCommandKeeps, ReadPolicyKeeps,
     AnsweredKeeps,
     MarkUnsupportedKeeps, RecordKeeps, FinishCommandKeeps DEF SendStep
<1>6. CASE \E on \in BOOLEAN : UpdatePolicy(on)
  BY <1>6, UpdatePolicyKeeps
<1>7. CASE TakeObjects
  BY <1>7, TakeObjectsKeeps
<1>8. CASE CommitSnapshot
  BY <1>8, CommitSnapshotKeeps
<1>9. CASE \E id \in cleanup.pending : BeginDelete(id)
  BY <1>9, BeginDeleteKeeps
<1>10. CASE DeleteMessage
  BY <1>10, DeleteMessageKeeps
<1>11. CASE AppRestarts
  BY <1>11, AppRestartsKeeps
<1>12. CASE UNCHANGED mxVars
  BY <1>12 DEF mxVars, MessagesInv, MessagesTypeOK, ObjectsAreKnown, Exists,
     ObjectsAreUnique,
               HandledOnce, RowsFollowRequests, DeletedIsStored, NoMessageLost, RowsAreTrue
<1> QED
  BY <1>1, <1>2, <1>3, <1>4, <1>5, <1>6, <1>7, <1>8, <1>9, <1>10, <1>11,
     <1>12 DEF MessagesNext

\* No message is lost, sent twice or shown as delivered without being sent.
LEMMA MessagesInvImplies ==
  ASSUME MessagesInv
  PROVE  MessagesAreTrue
<1>1. ASSUME NEW s \in Sends
      PROVE  Cardinality({r \in rows : r.req = s}) <= 1
  <2> DEFINE mine == {r \in rows : r.req = s}
  <2>1. \A r, q \in mine : r = q
    BY DEF MessagesInv, RowsFollowRequests
  <2>2. CASE mine = {}
    <3> HIDE DEF mine
    <3>1. Cardinality(mine) = 0
      BY <2>2, FS_EmptySet
    <3> QED
      BY <3>1 DEF mine
  <2>3. CASE mine # {}
    <3>1. PICK r : mine = {r}
      BY <2>1, <2>3
    <3> HIDE DEF mine
    <3>2. Cardinality(mine) = 1
      BY <3>1, FS_Singleton
    <3> QED
      BY <3>2 DEF mine
  <2> QED
    BY <2>2, <2>3
<1>2. RequestSentOnce
  BY <1>1 DEF RequestSentOnce, MessagesInv, HandledOnce, RowsFollowRequests
<1> QED
  BY <1>2 DEF MessagesAreTrue, MessagesInv

-----------------------------------------------------------------------------
(***************************************************************************)
(* The data plane of a line                                                *)
(***************************************************************************)

-----------------------------------------------------------------------------
\* The items of a network: the setting when it prepared it, and the address and
\* the rule when it has an address.
LEMMA ItemsOf ==
  ASSUME NEW n, NEW i
  PROVE  i \in Items(n) <=>
           /\ n # None
           /\ \/ n.prep = "ours" /\ i = <<"setting", None, n.index>>
              \/ n.ip # None /\ i = <<"address", n.ip, n.index>>
              \/ n.ip # None /\ i = <<"rule", n.ip, 0>>
<1>1. CASE n = None
  BY <1>1 DEF Items, Values
<1>2. CASE n # None
  <2>1. \A v : v \in Values(n) <=> \/ n.prep = "ours" /\ v = <<"setting", None>>
                                   \/ n.ip # None /\ v = <<"address", n.ip>>
                                   \/ n.ip # None /\ v = <<"rule", n.ip>>
    BY <1>2 DEF Values
  <2>2. /\ Placed(<<"setting", None>>, n.index) = <<"setting", None, n.index>>
        /\ Placed(<<"address", n.ip>>, n.index) = <<"address", n.ip, n.index>>
        /\ Placed(<<"rule", n.ip>>, n.index) = <<"rule", n.ip, 0>>
    BY DEF Placed
  <2>3. i \in Items(n) <=> \E v \in Values(n) : i = Placed(v, n.index)
    BY DEF Items
  <2> QED
    BY <1>2, <2>1, <2>2, <2>3
<1> QED
  BY <1>1, <1>2

\* Of the items of a network the kernel has those of the device that is there.
LEMMA PresentOf ==
  ASSUME NEW n, NEW K, \A i \in K : OnDevice(i) => i[3] = host.index
  PROVE  /\ K \cap Items(n) \subseteq Present(n)
         /\ Present(n) \subseteq Items(n)
         /\ \A i \in Present(n) : OnDevice(i) => i[3] = host.index
<1>1. \A i \in Items(n) : OnDevice(i) => i[3] = n.index
  BY ItemsOf DEF OnDevice
<1> QED
  BY <1>1 DEF Present

\* The record of a call nobody makes, and what the data plane answers.
LEMMA NoCallIs ==
  /\ NoCall \in PlaneCalls /\ NoCall.pc = "idle" /\ ~NoCall.journaled /\ NoCall.prep = "none"
  /\ NoCall.desired = None
<1> DEFINE no == FALSE
<1>1. no \in BOOLEAN /\ ~no
  OBVIOUS
<1>2. NoCall = [pc |-> "idle", method |-> None, ip |-> None, prep |-> "none",
                journaled |-> no, desired |-> None, failed |-> no, ok |-> no]
  BY DEF NoCall
<1> HIDE DEF no
<1> QED
  BY <1>1, <1>2 DEF PlaneCalls, PlanePcs

\* An answer of the data plane ends its operation.
LEMMA ReturnIs ==
  ASSUME NEW ok \in BOOLEAN, Return(ok)
  PROVE  dp' \in PlaneCalls /\ dp'.pc = "done" /\ dp'.ok = ok
<1>1. dp' = [NoCall EXCEPT !.pc = "done", !.ok = ok]
  BY DEF Return
<1> QED
  BY <1>1, NoCallIs DEF PlaneCalls, PlanePcs

\* A step changes only the place of the operation.
LEMMA StepIs ==
  ASSUME NEW to \in PlanePcs, dp \in PlaneCalls, Step(to)
  PROVE  /\ dp' \in PlaneCalls /\ dp'.pc = to
         /\ dp'.method = dp.method /\ dp'.ip = dp.ip /\ dp'.prep = dp.prep
         /\ dp'.journaled = dp.journaled /\ dp'.desired = dp.desired
         /\ dp'.failed = dp.failed /\ dp'.ok = dp.ok
  BY DEF Step, PlaneCalls

\* A call begins an operation that has prepared nothing.
LEMMA CallIs ==
  ASSUME PlaneTypeOK, NEW to \in {"recover", "release"}, NEW b,
         b.method \in Methods \cup {"static", None}, b.ip \in IPs \cup {None}, Call(to, b)
  PROVE  /\ dp' \in PlaneCalls /\ dp'.pc = to /\ dp'.prep = "none" /\ ~dp'.journaled
         /\ dp'.desired = None /\ dp.pc \in {"idle", "done"}
<1> DEFINE f == [NoCall EXCEPT !.pc = to]
           g == [f EXCEPT !.method = b.method]
           h == [g EXCEPT !.ip = b.ip]
<1>1. f \in PlaneCalls /\ f.pc = to /\ f.prep = "none" /\ ~f.journaled /\ f.desired = None
  BY NoCallIs DEF PlaneCalls, PlanePcs, SetupPcs, ReleasePcs
<1>2. dp.pc \in {"idle", "done"} /\ dp' = h
  BY DEF Call
<1> HIDE DEF f
<1>3. g \in PlaneCalls /\ g.pc = to /\ g.prep = "none" /\ ~g.journaled /\ g.desired = None
  BY <1>1 DEF PlaneCalls
<1> HIDE DEF g
<1>4. h \in PlaneCalls /\ h.pc = to /\ h.prep = "none" /\ ~h.journaled /\ h.desired = None
  BY <1>3 DEF PlaneCalls
<1> QED
  BY <1>2, <1>4

\* The record of an operation on bearers before there is one.
LEMMA NoOpIs ==
  /\ NoOp \in BearerOps /\ NoOp.pc = "idle" /\ NoOp.then = "idle" /\ NoOp.fail = "idle"
  /\ NoOp.epoch = 1
<1> DEFINE no == FALSE
<1>1. no \in BOOLEAN
  OBVIOUS
<1>2. NoOp = [pc |-> "idle", then |-> "idle", fail |-> "idle", method |-> None, id |-> 0,
              connected |-> no, epoch |-> 1]
  BY DEF NoOp
<1> HIDE DEF no
<1> QED
  BY <1>1, <1>2 DEF BearerOps, BearerPcs

\* An operation on bearers that goes on keeps what it is about; one that ends
\* leaves nothing.
LEMMA GotoIs ==
  ASSUME op \in BearerOps, NEW pc \in BearerPcs, Goto(pc)
  PROVE  /\ op' \in BearerOps /\ op'.pc = pc
         /\ pc \in {"idle", "off"} => op'.fail = "idle" /\ op'.epoch = 1 /\ op'.then = "idle"
         /\ pc \notin {"idle", "off"} =>
              /\ op'.fail = op.fail /\ op'.epoch = op.epoch /\ op'.then = op.then
              /\ op'.id = op.id /\ op'.connected = op.connected /\ op'.method = op.method
<1>1. CASE pc \in {"idle", "off"}
  BY <1>1, NoOpIs DEF Goto, BearerOps
<1>2. CASE pc \notin {"idle", "off"}
  BY <1>2 DEF Goto, BearerOps
<1> QED
  BY <1>1, <1>2

-----------------------------------------------------------------------------
\* Which operations on bearers a step of the data plane is for.
LEMMA CallersOf ==
  ASSUME PlaneTypeOK, ReleasedIsGone
  PROVE  /\ dp.pc \in SetupPcs => op.pc \in {"restoring", "reuse", "configure"}
         /\ dp.pc \in ReleasePcs => op.pc \in {"release", "stale", "restore", "restoring"}
         /\ dp.pc \in RefreshPcs =>
              op.pc \notin {"release", "stale", "restore", "restoring", "reuse", "configure"}
         /\ dp.pc = "done" =>
              op.pc \in {"release", "stale", "restore", "restoring", "reuse", "configure"}
  BY DEF PlaneTypeOK, ReleasedIsGone, SetupPcs, ReleasePcs, RefreshPcs,
         BearerOps, BearerPcs

\* A step of the data plane for the operation that called it.
LEMMA SteppedOn ==
  ASSUME DataPlaneInv, UNCHANGED <<mm, knownEpoch, owned, op>>,
         \/ dp.pc \in SetupPcs /\ dp'.pc \in SetupPcs \cup {"done"}
         \/ dp.pc \in ReleasePcs /\ dp'.pc \in ReleasePcs \cup {"done"}
         \/ dp.pc \in RefreshPcs /\ dp'.pc \in RefreshPcs \cup {"idle"}
         \/ dp.pc = "idle" /\ runtime # None /\ dp'.pc \in RefreshPcs \cup {"idle"},
         runtime' # None =>
           runtime # None \/ (dp.pc = "persist" /\ dp'.pc = "done" /\ dp'.ok),
         dp'.pc = "drop" => runtime' = None /\ (~dp'.failed => net'.mem.pending = None),
         dp.pc \in ReleasePcs /\ dp'.pc = "done" /\ dp'.ok =>
           net'.mem = NoNet /\ runtime' = None,
         net'.mem # NoNet => net.mem # NoNet \/ dp.pc \in SetupPcs
  PROVE  ReleasedIsGone' /\ RecordsAreOurs' /\ ConnectedIsKnown' /\ NetworkHasBearer'
<1> USE DEF DataPlaneInv
<1>1. /\ dp.pc \in SetupPcs => op.pc \in {"restoring", "reuse", "configure"}
      /\ dp.pc \in ReleasePcs => op.pc \in {"release", "stale", "restore", "restoring"}
      /\ dp.pc \in RefreshPcs =>
           op.pc \notin {"release", "stale", "restore", "restoring", "reuse", "configure"}
  BY CallersOf
<1>2. RecordsAreOurs' /\ ConnectedIsKnown'
  BY DEF RecordsAreOurs, ConnectedIsKnown, Bearer
<1>3. dp.pc \in RefreshPcs => runtime # None
  BY DEF ReplacedInOrder
<1>4. NetworkHasBearer'
  <2>1. dp.pc \in SetupPcs => owned.mem # None
    BY <1>1 DEF ConnectedIsKnown
  <2> QED
    BY <2>1 DEF NetworkHasBearer
<1>5. CASE dp.pc \in SetupPcs /\ dp'.pc \in SetupPcs \cup {"done"}
  <2>1. ReleasedIsGone'
    BY <1>1, <1>5 DEF ReleasedIsGone, SetupPcs, ReleasePcs, RefreshPcs
  <2> QED
    BY <2>1, <1>2, <1>4
<1>6. CASE dp.pc \in ReleasePcs /\ dp'.pc \in ReleasePcs \cup {"done"}
  <2>1. ReleasedIsGone'
    BY <1>1, <1>6 DEF ReleasedIsGone, SetupPcs, ReleasePcs, RefreshPcs
  <2> QED
    BY <2>1, <1>2, <1>4
<1>7. CASE \/ dp.pc \in RefreshPcs /\ dp'.pc \in RefreshPcs \cup {"idle"}
           \/ dp.pc = "idle" /\ runtime # None /\ dp'.pc \in RefreshPcs \cup {"idle"}
  <2>1. op.pc \notin {"release", "stale", "restore", "restoring", "reuse", "configure",
                      "disconnect", "delete", "unown", "off"}
    BY <1>1, <1>3, <1>7 DEF ReleasedIsGone, SetupPcs, ReleasePcs, RefreshPcs
  <2>2. ReleasedIsGone'
    BY <2>1, <1>7 DEF ReleasedIsGone, SetupPcs, ReleasePcs, RefreshPcs
  <2> QED
    BY <2>2, <1>2, <1>4
<1> QED
  BY <1>5, <1>6, <1>7

\* A step of the operation on bearers that calls the data plane, hears from it or
\* leaves it alone.
LEMMA QuietKeeps ==
  ASSUME DataPlaneInv, Quiet,
         \/ dp' = dp
         \/ /\ dp.pc \in {"idle", "done"} /\ dp'.pc \in {"idle", "recover", "release"}
            /\ dp'.prep = "none" /\ ~dp'.journaled
  PROVE  KernelIsKnown' /\ JournalsLoad' /\ PreparedInOrder' /\ ReplacedInOrder'
<1>1. CASE dp' = dp
  BY <1>1 DEF DataPlaneInv, Quiet, KernelIsKnown, JournalsLoad, PreparedInOrder,
       ReplacedInOrder, Recorded, Items, Loadable, LoadableApplied, LoadablePending,
       Obsolete, Journal
<1>2. CASE /\ dp.pc \in {"idle", "done"} /\ dp'.pc \in {"idle", "recover", "release"}
           /\ dp'.prep = "none" /\ ~dp'.journaled
  <2>1. KernelIsKnown' /\ JournalsLoad'
    BY <1>2
    DEF DataPlaneInv, Quiet, KernelIsKnown, JournalsLoad, Recorded, Loadable
  <2>2. PreparedInOrder' /\ ReplacedInOrder'
    BY <1>2 DEF PreparedInOrder, ReplacedInOrder, RefreshPcs
  <2> QED
    BY <2>1, <2>2
<1> QED
  BY <1>1, <1>2

\* A release is asked for whatever the network is.
LEMMA ReleaseIsAsked ==
  ASSUME PlaneTypeOK, Call("release", Anything)
  PROVE  Asks("release")
<1>1. Anything.method = None /\ Anything.ip = None
  BY DEF Anything
<1> QED
  BY <1>1, CallIs DEF Asks

\* A setup is asked for the network of a bearer.
LEMMA SetupIsAsked ==
  ASSUME PlaneTypeOK, NEW b \in BearerRecords, Call("recover", b)
  PROVE  Asks("recover")
<1>1. b.method \in Methods \cup {"static", None} /\ b.ip \in IPs \cup {None}
  BY DEF BearerRecords
<1> QED
  BY <1>1, CallIs DEF Asks

\* The answer was taken and the data plane is free.
LEMMA NothingIsAsked ==
  ASSUME dp.pc \in {"idle", "done"}, dp' = NoCall
  PROVE  Asks("idle")
BY NoCallIs DEF Asks

\* What is left to show of a step of the operation on bearers.
LEMMA QuietInv ==
  ASSUME DataPlaneInv, Quiet, dp' = dp \/ \E to \in {"idle", "recover", "release"} : Asks(to),
         mm' \in [epoch : Nat, made : Nat, bearers : SUBSET BearerRecords],
         knownEpoch' \in Nat \ {0}, op' \in BearerOps,
         owned' \in [disk : {None} \cup OwnRecords, mem : {None} \cup OwnRecords],
         ReleasedIsGone', RecordsAreOurs', ConnectedIsKnown', NetworkHasBearer'
  PROVE  DataPlaneInv'
<1>1. dp' \in PlaneCalls
  BY DEF Asks, DataPlaneInv, PlaneTypeOK
<1>2. PlaneTypeOK'
  BY <1>1 DEF DataPlaneInv, PlaneTypeOK, Quiet
<1>3. KernelIsKnown' /\ JournalsLoad' /\ PreparedInOrder' /\ ReplacedInOrder'
  BY QuietKeeps DEF Asks
<1> QED
  BY <1>2, <1>3 DEF DataPlaneInv

\* The operation goes to a place where no bearer is in hand.
LEMMA SameRecords ==
  ASSUME DataPlaneInv, UNCHANGED <<mm, knownEpoch, owned>>, op' \in BearerOps,
         op'.pc \notin {"put", "connect"}, op'.epoch <= knownEpoch,
         op'.pc \notin {"idle", "off"} =>
           \/ op.pc \notin {"idle", "off"} /\ op'.epoch = op.epoch
           \/ op'.epoch = knownEpoch
  PROVE  RecordsAreOurs'
BY DEF DataPlaneInv, RecordsAreOurs, Bearer

\* A start releases what no bearer of this ModemManager backs.
LEMMA StartKeeps ==
  ASSUME DataPlaneInv, Start
  PROVE  DataPlaneInv'
<1> USE DEF DataPlaneInv
<1>1. /\ op.pc = "off" /\ dp.pc = "idle" /\ knownEpoch' = mm.epoch
      /\ UNCHANGED <<mm, owned>> /\ Quiet
  BY DEF Start
<1>2. mm.epoch \in Nat \ {0} /\ knownEpoch <= mm.epoch
  BY DEF PlaneTypeOK, RecordsAreOurs
<1>3. /\ op' \in BearerOps /\ op'.pc = "restore" /\ op'.then = "idle" /\ op'.fail = "off"
      /\ op'.epoch = mm.epoch
  BY <1>2, NoOpIs DEF Start, BearerOps, BearerPcs
<1>4. \/ Asks("release")
      \/ dp' = dp /\ (net.mem = NoNet \/ owned.mem # None)
  BY ReleaseIsAsked DEF Start
<1>5. ReleasedIsGone'
  BY <1>1, <1>3, <1>4 DEF ReleasedIsGone, Asks, Quiet, ReleasePcs
<1>6. RecordsAreOurs'
  BY <1>1, <1>2, <1>3 DEF RecordsAreOurs, PlaneTypeOK, Bearer
<1>7. ConnectedIsKnown'
  BY <1>1, <1>3 DEF ConnectedIsKnown
<1>8. NetworkHasBearer'
  BY <1>3 DEF NetworkHasBearer
<1> QED
  BY <1>1, <1>2, <1>3, <1>4, <1>5, <1>6, <1>7, <1>8, QuietInv DEF PlaneTypeOK

\* A bearer of ours that is connected is the one the record names.
LEMMA OursIsFound ==
  ASSUME PlaneAssumption, DataPlaneInv, NEW b \in mm.bearers, b.ours, b.connected
  PROVE  owned.mem # None /\ IsCurrent(owned.mem) /\ b \in Found /\ b.id = owned.mem.id
<1>1. /\ owned.mem = [epoch |-> mm.epoch, id |-> b.id] /\ knownEpoch = mm.epoch
      /\ owned.mem \in {None} \cup OwnRecords
  BY DEF DataPlaneInv, ConnectedIsKnown, RecordsAreOurs, PlaneTypeOK
<1>2. mm.epoch \in Nat /\ b.id \in Nat
  BY DEF DataPlaneInv, PlaneTypeOK, BearerRecords
<1>3. owned.mem # None
  BY <1>1, <1>2 DEF PlaneAssumption, OwnRecords
<1> QED
  BY <1>1, <1>3 DEF IsCurrent, Found, Bearer

\* A start goes on with the bearer it finds, or gives up what it lost.
LEMMA RestoreKeeps ==
  ASSUME PlaneAssumption, DataPlaneInv, Restore
  PROVE  DataPlaneInv'
<1> USE DEF DataPlaneInv
<1>1. /\ op.pc = "restore" /\ dp.pc \in {"idle", "done"} /\ op.fail = "off"
      /\ UNCHANGED <<mm, knownEpoch, owned>> /\ Quiet /\ runtime = None
      /\ op \in BearerOps /\ op.then = "idle" /\ knownEpoch \in Nat \ {0}
      /\ op.epoch <= knownEpoch /\ op.epoch \in Nat
  BY DEF Restore, ReleasedIsGone, PlaneTypeOK, RecordsAreOurs, BearerOps
<1>2. CASE Goto("off") /\ dp' = NoCall
  <2>1. op' \in BearerOps /\ op'.pc = "off" /\ op'.fail = "idle" /\ op'.epoch = 1
    BY <1>1, <1>2, GotoIs DEF BearerPcs
  <2>2. Asks("idle")
    BY <1>1, <1>2, NothingIsAsked
  <2>3. ReleasedIsGone' /\ ConnectedIsKnown' /\ NetworkHasBearer'
    BY <1>1, <2>1, <2>2
    DEF Asks, Quiet, ReleasedIsGone, ConnectedIsKnown, NetworkHasBearer
  <2> QED
    BY <1>1, <2>1, <2>2, <2>3, QuietInv, SameRecords DEF PlaneTypeOK
<1>3. CASE owned.mem = None /\ Goto("idle") /\ dp' = NoCall /\ ~(dp.pc = "done" /\ ~dp.ok)
  <2>1. op' \in BearerOps /\ op'.pc = "idle" /\ op'.fail = "idle" /\ op'.epoch = 1
    BY <1>1, <1>3, GotoIs DEF BearerPcs
  <2>2. Asks("idle")
    BY <1>1, <1>3, NothingIsAsked
  <2>3. net.mem = NoNet
    BY <1>1, <1>3 DEF ReleasedIsGone
  <2>4. ReleasedIsGone' /\ ConnectedIsKnown' /\ NetworkHasBearer'
    BY <1>1, <2>1, <2>2, <2>3
    DEF Asks, Quiet, ReleasedIsGone, ConnectedIsKnown, NetworkHasBearer
  <2> QED
    BY <1>1, <2>1, <2>2, <2>4, QuietInv, SameRecords DEF PlaneTypeOK
<1>4. CASE /\ owned.mem # None /\ (IsCurrent(owned.mem) => Found = {})
           /\ Goto("stale") /\ Call("release", Anything)
  <2>1. /\ op' \in BearerOps /\ op'.pc = "stale" /\ op'.fail = "off" /\ op'.then = "idle"
        /\ op'.epoch = op.epoch
    BY <1>1, <1>4, GotoIs DEF BearerPcs
  <2>2. Asks("release")
    BY <1>4, ReleaseIsAsked
  <2>3. \A b \in mm.bearers : ~(b.ours /\ b.connected)
    BY <1>4, OursIsFound
  <2>4. ReleasedIsGone' /\ ConnectedIsKnown' /\ NetworkHasBearer'
    BY <1>1, <1>4, <2>1, <2>2, <2>3
    DEF Asks, Quiet, ReleasedIsGone, ConnectedIsKnown, NetworkHasBearer,
        ReleasePcs
  <2> QED
    BY <1>1, <2>1, <2>2, <2>4, QuietInv, SameRecords DEF PlaneTypeOK
<1>5. ASSUME NEW b \in Found, IsCurrent(owned.mem), Goto("restoring"),
             Call("recover", b) \/ Call("release", Anything)
      PROVE  DataPlaneInv'
  <2>1. /\ op' \in BearerOps /\ op'.pc = "restoring" /\ op'.fail = "off" /\ op'.then = "idle"
        /\ op'.epoch = op.epoch
    BY <1>1, <1>5, GotoIs DEF BearerPcs
  <2>2. b \in BearerRecords
    BY DEF Found, Bearer, PlaneTypeOK
  <2>3. Asks("recover") \/ Asks("release")
    BY <1>5, <2>2, ReleaseIsAsked, SetupIsAsked
  <2>4. owned.mem # None
    BY <1>5 DEF IsCurrent
  <2>5. ReleasedIsGone' /\ ConnectedIsKnown' /\ NetworkHasBearer'
    BY <1>1, <2>1, <2>3, <2>4
    DEF Asks, Quiet, ReleasedIsGone, ConnectedIsKnown, NetworkHasBearer,
        ReleasePcs, SetupPcs
  <2> QED
    BY <1>1, <2>1, <2>3, <2>5, QuietInv, SameRecords DEF PlaneTypeOK
<1> QED
  BY <1>1, <1>2, <1>3, <1>4, <1>5 DEF Restore, Fail

\* A network is restored or used again, or the start has failed.
LEMMA RestoringKeeps ==
  ASSUME PlaneAssumption, DataPlaneInv, Restoring
  PROVE  DataPlaneInv'
<1> USE DEF DataPlaneInv
<1>1. /\ op.pc \in {"restoring", "reuse"} /\ dp.pc = "done"
      /\ UNCHANGED <<mm, knownEpoch, owned>> /\ Quiet /\ dp' = NoCall
      /\ op \in BearerOps /\ knownEpoch \in Nat \ {0} /\ owned.mem # None
  BY DEF Restoring, PlaneTypeOK, ConnectedIsKnown
<1>2. Goto("idle") \/ (Goto("off") /\ ~dp.ok /\ op.fail = "off")
  BY <1>1 DEF Restoring, Fail, BearerOps
<1>3. runtime = None \/ ~(~dp.ok /\ op.fail = "off")
  BY <1>1 DEF ReleasedIsGone
<1>4. /\ op' \in BearerOps /\ op'.pc \in {"idle", "off"} /\ op'.fail = "idle" /\ op'.epoch = 1
      /\ op'.pc = "off" => runtime = None
  BY <1>1, <1>2, <1>3, GotoIs DEF BearerPcs
<1>5. Asks("idle")
  BY <1>1, NothingIsAsked
<1>6. ReleasedIsGone' /\ ConnectedIsKnown' /\ NetworkHasBearer'
  BY <1>1, <1>4, <1>5
  DEF Asks, Quiet, ReleasedIsGone, ConnectedIsKnown, NetworkHasBearer
<1> QED
  BY <1>1, <1>4, <1>5, <1>6, QuietInv, SameRecords DEF PlaneTypeOK

\* An activation or a deactivation begins.
LEMMA BeginKeeps ==
  ASSUME PlaneAssumption, DataPlaneInv, Deactivate \/ \E method \in Methods : Activate(method)
  PROVE  DataPlaneInv'
<1> USE DEF DataPlaneInv
<1>1. /\ op.pc = "idle" /\ UNCHANGED <<mm, knownEpoch, owned, dp>> /\ Quiet
      /\ knownEpoch \in Nat \ {0}
  BY DEF Activate, Deactivate, PlaneTypeOK
<1>2. /\ op' \in BearerOps /\ op'.pc \in {"activate", "deactivate"} /\ op'.fail = "idle"
      /\ op'.epoch = knownEpoch
  BY <1>1, NoOpIs DEF Activate, Deactivate, BearerOps, BearerPcs
<1>3. ReleasedIsGone' /\ ConnectedIsKnown' /\ NetworkHasBearer'
  BY <1>1, <1>2 DEF Quiet, ReleasedIsGone, ConnectedIsKnown, NetworkHasBearer
<1> QED
  BY <1>1, <1>2, <1>3, QuietInv, SameRecords DEF PlaneTypeOK

\* An activation looks at the recorded bearer first.
LEMMA InspectKeeps ==
  ASSUME PlaneAssumption, DataPlaneInv, Inspect
  PROVE  DataPlaneInv'
<1> USE DEF DataPlaneInv
<1>1. /\ op.pc = "activate" /\ UNCHANGED <<mm, knownEpoch, owned>> /\ Quiet
      /\ op \in BearerOps /\ op.fail = "idle" /\ knownEpoch \in Nat \ {0}
      /\ op.epoch <= knownEpoch /\ op.epoch \in Nat
  BY DEF Inspect, ReleasedIsGone, PlaneTypeOK, RecordsAreOurs, BearerOps
<1>2. CASE owned.mem = None /\ Goto("create") /\ UNCHANGED dp
  <2>1. /\ op' \in BearerOps /\ op'.pc = "create" /\ op'.fail = "idle"
        /\ op'.epoch = op.epoch
    BY <1>1, <1>2, GotoIs DEF BearerPcs
  <2>2. \A b \in mm.bearers : ~(b.ours /\ b.connected)
    BY <1>2, OursIsFound
  <2>3. ReleasedIsGone' /\ ConnectedIsKnown' /\ NetworkHasBearer'
    BY <1>1, <1>2, <2>1, <2>2
    DEF Quiet, ReleasedIsGone, ConnectedIsKnown, NetworkHasBearer
  <2> QED
    BY <1>1, <1>2, <2>1, <2>3, QuietInv, SameRecords DEF PlaneTypeOK
<1>3. CASE owned.mem # None /\ Goto("idle") /\ UNCHANGED dp
  <2>1. op' \in BearerOps /\ op'.pc = "idle" /\ op'.fail = "idle" /\ op'.epoch = 1
    BY <1>1, <1>3, GotoIs DEF BearerPcs
  <2>2. ReleasedIsGone' /\ ConnectedIsKnown' /\ NetworkHasBearer'
    BY <1>1, <1>3, <2>1
    DEF Quiet, ReleasedIsGone, ConnectedIsKnown, NetworkHasBearer
  <2> QED
    BY <1>1, <1>3, <2>1, <2>2, QuietInv, SameRecords DEF PlaneTypeOK
<1>4. CASE /\ owned.mem # None /\ (IsCurrent(owned.mem) => Found = {})
           /\ op' = [op EXCEPT !.pc = "stale", !.then = "create"]
           /\ Call("release", Anything)
  <2>1. /\ op' \in BearerOps /\ op'.pc = "stale" /\ op'.fail = "idle"
        /\ op'.epoch = op.epoch
    BY <1>1, <1>4 DEF BearerPcs, BearerOps
  <2>2. Asks("release")
    BY <1>4, ReleaseIsAsked
  <2>3. \A b \in mm.bearers : ~(b.ours /\ b.connected)
    BY <1>4, OursIsFound
  <2>4. ReleasedIsGone' /\ ConnectedIsKnown' /\ NetworkHasBearer'
    BY <1>1, <1>4, <2>1, <2>2, <2>3
    DEF Asks, Quiet, ReleasedIsGone, ConnectedIsKnown, NetworkHasBearer,
        ReleasePcs
  <2> QED
    BY <1>1, <2>1, <2>2, <2>4, QuietInv, SameRecords DEF PlaneTypeOK
<1>5. ASSUME NEW b \in Found, IsCurrent(owned.mem), Goto("reuse"), Call("recover", b)
      PROVE  DataPlaneInv'
  <2>1. /\ op' \in BearerOps /\ op'.pc = "reuse" /\ op'.fail = "idle"
        /\ op'.epoch = op.epoch
    BY <1>1, <1>5, GotoIs DEF BearerPcs
  <2>2. b \in BearerRecords
    BY DEF Found, Bearer, PlaneTypeOK
  <2>3. Asks("recover")
    BY <1>5, <2>2, SetupIsAsked
  <2>4. owned.mem # None
    BY <1>5 DEF IsCurrent
  <2>5. ReleasedIsGone' /\ ConnectedIsKnown' /\ NetworkHasBearer'
    BY <1>1, <2>1, <2>3, <2>4
    DEF Asks, Quiet, ReleasedIsGone, ConnectedIsKnown, NetworkHasBearer,
        SetupPcs
  <2> QED
    BY <1>1, <2>1, <2>3, <2>5, QuietInv, SameRecords DEF PlaneTypeOK
<1>6. CASE op' = [op EXCEPT !.pc = "deactivate", !.then = "create"] /\ UNCHANGED dp
  <2>1. /\ op' \in BearerOps /\ op'.pc = "deactivate" /\ op'.fail = "idle"
        /\ op'.epoch = op.epoch
    BY <1>1, <1>6 DEF BearerPcs, BearerOps
  <2>2. ReleasedIsGone' /\ ConnectedIsKnown' /\ NetworkHasBearer'
    BY <1>1, <1>6, <2>1
    DEF Quiet, ReleasedIsGone, ConnectedIsKnown, NetworkHasBearer
  <2> QED
    BY <1>1, <1>6, <2>1, <2>2, QuietInv, SameRecords DEF PlaneTypeOK
<1> QED
  BY <1>1, <1>2, <1>3, <1>4, <1>5, <1>6 DEF Inspect, Fail

\* A deactivation asks for the network state to go before the bearer.
LEMMA WithdrawKeeps ==
  ASSUME PlaneAssumption, DataPlaneInv, Withdraw
  PROVE  DataPlaneInv'
<1> USE DEF DataPlaneInv
<1>1. /\ op.pc = "deactivate" /\ UNCHANGED <<mm, knownEpoch, owned>> /\ Quiet
      /\ op \in BearerOps /\ op.fail = "idle" /\ knownEpoch \in Nat \ {0}
      /\ op.epoch <= knownEpoch /\ op.epoch \in Nat /\ knownEpoch <= mm.epoch /\ mm.epoch \in Nat
  BY DEF Withdraw, ReleasedIsGone, PlaneTypeOK, RecordsAreOurs, BearerOps
<1>2. CASE owned.mem = None /\ Goto(op.then) /\ UNCHANGED dp
  <2>1. /\ op' \in BearerOps /\ op'.pc \in {"idle", "create"} /\ op'.fail = "idle"
        /\ op'.epoch = IF op'.pc = "create" THEN op.epoch ELSE 1
    BY <1>1, <1>2, GotoIs DEF BearerPcs, BearerOps
  <2>2. \A b \in mm.bearers : ~(b.ours /\ b.connected)
    BY <1>2, OursIsFound
  <2>3. ReleasedIsGone' /\ ConnectedIsKnown' /\ NetworkHasBearer'
    BY <1>1, <1>2, <2>1, <2>2
    DEF Quiet, ReleasedIsGone, ConnectedIsKnown, NetworkHasBearer
  <2> QED
    BY <1>1, <1>2, <2>1, <2>3, QuietInv, SameRecords DEF PlaneTypeOK
<1>3. CASE owned.mem # None /\ Goto("idle") /\ UNCHANGED dp
  <2>1. op' \in BearerOps /\ op'.pc = "idle" /\ op'.fail = "idle" /\ op'.epoch = 1
    BY <1>1, <1>3, GotoIs DEF BearerPcs
  <2>2. ReleasedIsGone' /\ ConnectedIsKnown' /\ NetworkHasBearer'
    BY <1>1, <1>3, <2>1
    DEF Quiet, ReleasedIsGone, ConnectedIsKnown, NetworkHasBearer
  <2> QED
    BY <1>1, <1>3, <2>1, <2>2, QuietInv, SameRecords DEF PlaneTypeOK
<1>4. CASE /\ owned.mem # None /\ ~IsCurrent(owned.mem)
           /\ Goto("stale") /\ Call("release", Anything)
  <2>1. /\ op' \in BearerOps /\ op'.pc = "stale" /\ op'.fail = "idle"
        /\ op'.epoch = op.epoch
    BY <1>1, <1>4, GotoIs DEF BearerPcs
  <2>2. Asks("release")
    BY <1>4, ReleaseIsAsked
  <2>3. \A b \in mm.bearers : ~(b.ours /\ b.connected)
    BY <1>4, OursIsFound
  <2>4. ReleasedIsGone' /\ ConnectedIsKnown' /\ NetworkHasBearer'
    BY <1>1, <1>4, <2>1, <2>2, <2>3
    DEF Asks, Quiet, ReleasedIsGone, ConnectedIsKnown, NetworkHasBearer,
        ReleasePcs
  <2> QED
    BY <1>1, <2>1, <2>2, <2>4, QuietInv, SameRecords DEF PlaneTypeOK
<1>5. CASE /\ IsCurrent(owned.mem)
           /\ op' = [op EXCEPT !.pc = "release", !.id = owned.mem.id,
                       !.connected = \E b \in Found : b.connected]
           /\ Call("release", Anything)
  <2> DEFINE is == \E b \in Found : b.connected
             f == [op EXCEPT !.pc = "release"]
             g == [f EXCEPT !.id = owned.mem.id]
             h == [g EXCEPT !.connected = is]
  <2>1. owned.mem # None /\ owned.mem.id \in Nat /\ owned.mem.epoch = knownEpoch
    BY <1>5 DEF IsCurrent, PlaneTypeOK, OwnRecords
  <2>2. is \in BOOLEAN
    OBVIOUS
  <2>3. op' = h
    BY <1>5
  <2>4. f \in BearerOps /\ f.pc = "release" /\ f.fail = op.fail /\ f.epoch = op.epoch
    BY <1>1 DEF BearerOps, BearerPcs
  <2> HIDE DEF is, f
  <2>5. g \in BearerOps /\ g.pc = "release" /\ g.fail = op.fail /\ g.epoch = op.epoch
        /\ g.id = owned.mem.id
    BY <2>1, <2>4 DEF BearerOps
  <2> HIDE DEF g
  <2>6. h \in BearerOps /\ h.pc = "release" /\ h.fail = op.fail /\ h.epoch = op.epoch
        /\ h.id = owned.mem.id
    BY <2>2, <2>5 DEF BearerOps
  <2>7. /\ op' \in BearerOps /\ op'.pc = "release" /\ op'.fail = "idle"
        /\ op'.epoch = op.epoch /\ op'.id = owned.mem.id
    BY <1>1, <2>3, <2>6
  <2>8. Asks("release")
    BY <1>5, ReleaseIsAsked
  <2>9. ReleasedIsGone' /\ NetworkHasBearer'
    BY <1>1, <2>1, <2>7, <2>8
    DEF Asks, Quiet, ReleasedIsGone, NetworkHasBearer, ReleasePcs
  <2>10. ConnectedIsKnown'
    BY <1>1, <2>1, <2>7 DEF ConnectedIsKnown
  <2> QED
    BY <1>1, <2>7, <2>8, <2>9, <2>10, QuietInv, SameRecords DEF PlaneTypeOK
<1> QED
  BY <1>1, <1>2, <1>3, <1>4, <1>5 DEF Withdraw, Fail

\* The bearer is ended only after its network state is gone.
LEMMA WithdrawnKeeps ==
  ASSUME PlaneAssumption, DataPlaneInv, Withdrawn
  PROVE  DataPlaneInv'
<1> USE DEF DataPlaneInv
<1>1. /\ op.pc \in {"release", "stale"} /\ dp.pc = "done" /\ dp' = NoCall
      /\ UNCHANGED <<mm, knownEpoch, owned>> /\ Quiet
      /\ op \in BearerOps /\ op.epoch <= knownEpoch /\ op.epoch \in Nat
      /\ knownEpoch \in Nat \ {0} /\ owned.mem # None
      /\ op.fail \in {"idle", "off"} /\ (op.fail = "off" => op.pc = "stale" /\ runtime = None)
  BY DEF Withdrawn, PlaneTypeOK, ConnectedIsKnown, RecordsAreOurs,
         ReleasedIsGone, BearerOps
<1>2. Asks("idle")
  BY <1>1, NothingIsAsked
<1>3. CASE ~dp.ok /\ Goto(op.fail)
  <2>1. op' \in BearerOps /\ op'.pc = op.fail /\ op'.fail = "idle" /\ op'.epoch = 1
    BY <1>1, <1>3, GotoIs DEF BearerPcs
  <2>2. ReleasedIsGone' /\ ConnectedIsKnown' /\ NetworkHasBearer'
    BY <1>1, <1>2, <2>1
    DEF Asks, Quiet, ReleasedIsGone, ConnectedIsKnown, NetworkHasBearer
  <2> QED
    BY <1>1, <1>2, <2>1, <2>2, QuietInv, SameRecords DEF PlaneTypeOK
<1>4. ASSUME NEW to \in {"unown", "disconnect", "delete"}, dp.ok, Goto(to),
             to = "unown" <=> op.pc = "stale"
      PROVE  DataPlaneInv'
  <2>1. /\ op' \in BearerOps /\ op'.pc = to /\ op'.fail = op.fail /\ op'.epoch = op.epoch
        /\ op'.id = op.id /\ op'.then = op.then
    BY <1>1, <1>4, GotoIs DEF BearerPcs
  <2>2. net.mem = NoNet /\ runtime = None
    BY <1>1, <1>4 DEF ReleasedIsGone
  <2>3. ReleasedIsGone' /\ ConnectedIsKnown' /\ NetworkHasBearer'
    BY <1>1, <1>2, <1>4, <2>1, <2>2
    DEF Asks, Quiet, ReleasedIsGone, ConnectedIsKnown, NetworkHasBearer
  <2> QED
    BY <1>1, <1>2, <2>1, <2>3, QuietInv, SameRecords DEF PlaneTypeOK
<1> QED
  BY <1>1, <1>3, <1>4 DEF Withdrawn, Fail

\* With fewer bearers the records are still about our own.
LEMMA FewerRecords ==
  ASSUME DataPlaneInv, UNCHANGED <<knownEpoch, owned>>, Fewer, op' \in BearerOps,
         \/ op' = op
         \/ /\ op'.pc \notin {"put", "connect"} /\ op'.epoch <= knownEpoch
            /\ op'.pc \notin {"idle", "off"} =>
                 \/ op.pc \notin {"idle", "off"} /\ op'.epoch = op.epoch
                 \/ op'.epoch = knownEpoch
  PROVE  /\ RecordsAreOurs'
         /\ \A b \in mm'.bearers : b.ours /\ b.connected =>
              /\ owned.disk = [epoch |-> mm.epoch, id |-> b.id] /\ owned.mem = owned.disk
              /\ op.pc \notin {"stale", "unown", "create", "put"}
<1> USE DEF DataPlaneInv
<1> DEFINE Left(id) == {b \in mm'.bearers : b.id = id}
<1>1. \A id : \A b \in Left(id) : \E c \in Bearer(id) : c.ours = b.ours
  BY DEF Bearer, Fewer
<1>2. \A id : (\A c \in Bearer(id) : c.ours) => (\A b \in Left(id) : b.ours)
  BY <1>1
<1> HIDE DEF Left
<1>4. /\ knownEpoch' <= mm'.epoch /\ op'.epoch <= knownEpoch'
      /\ \A b \in mm'.bearers : b.id <= mm'.made
  BY DEF RecordsAreOurs, Fewer
<1>5. \A r \in {owned'.disk, owned'.mem} :
        r # None =>
          /\ r.epoch <= mm'.epoch
          /\ r.epoch = mm'.epoch => r.id <= mm'.made /\ \A b \in Left(r.id) : b.ours
  BY <1>2 DEF RecordsAreOurs, Fewer
<1>6. op'.pc \in {"put", "connect"} /\ op'.epoch = mm'.epoch =>
        op'.id <= mm'.made /\ \A b \in Left(op'.id) : b.ours
  BY <1>2 DEF RecordsAreOurs, Fewer
<1>7. \A b \in mm'.bearers : b.ours =>
        knownEpoch' = mm'.epoch /\ (op'.pc \notin {"idle", "off"} => op'.epoch = mm'.epoch)
  BY DEF RecordsAreOurs, Fewer
<1>8. RecordsAreOurs'
  BY <1>4, <1>5, <1>6, <1>7 DEF RecordsAreOurs, Bearer, Left
<1>9. \A b \in mm'.bearers : b.ours /\ b.connected =>
        /\ owned.disk = [epoch |-> mm.epoch, id |-> b.id] /\ owned.mem = owned.disk
        /\ op.pc \notin {"stale", "unown", "create", "put"}
  BY DEF ConnectedIsKnown, Fewer
<1> QED
  BY <1>8, <1>9

\* The recorded bearer is disconnected.
LEMMA DisconnectKeeps ==
  ASSUME PlaneAssumption, DataPlaneInv, Disconnect
  PROVE  DataPlaneInv'
<1> USE DEF DataPlaneInv
<1>1. /\ op.pc = "disconnect" /\ UNCHANGED <<knownEpoch, owned, dp>> /\ Quiet
      /\ op \in BearerOps /\ op.fail = "idle" /\ knownEpoch \in Nat \ {0}
      /\ op.epoch <= knownEpoch /\ op.epoch \in Nat /\ owned.mem # None
      /\ net.mem = NoNet /\ runtime = None /\ dp.pc = "idle"
  BY DEF Disconnect, ReleasedIsGone, PlaneTypeOK, RecordsAreOurs,
         ConnectedIsKnown, BearerOps
<1>2. CASE Goto("idle") /\ UNCHANGED mm
  <2>1. op' \in BearerOps /\ op'.pc = "idle" /\ op'.fail = "idle" /\ op'.epoch = 1
    BY <1>1, <1>2, GotoIs DEF BearerPcs
  <2>2. ReleasedIsGone' /\ ConnectedIsKnown' /\ NetworkHasBearer'
    BY <1>1, <1>2, <2>1
    DEF Quiet, ReleasedIsGone, ConnectedIsKnown, NetworkHasBearer
  <2> QED
    BY <1>1, <1>2, <2>1, <2>2, QuietInv, SameRecords DEF PlaneTypeOK
<1>3. CASE /\ SetBearers({IF b.id = op.id THEN [b EXCEPT !.connected = FALSE] ELSE b :
                            b \in mm.bearers})
           /\ Goto("delete")
  <2>1. /\ op' \in BearerOps /\ op'.pc = "delete" /\ op'.fail = "idle" /\ op'.then = op.then
        /\ op'.epoch = op.epoch /\ op'.id = op.id
    BY <1>1, <1>3, GotoIs DEF BearerPcs
  <2> DEFINE no == FALSE
             Cut(b) == IF b.id = op.id THEN [b EXCEPT !.connected = no] ELSE b
  <2>2. no \in BOOLEAN /\ ~no
    OBVIOUS
  <2>3. mm' = [mm EXCEPT !.bearers = {Cut(b) : b \in mm.bearers}]
    BY <1>3 DEF SetBearers
  <2> HIDE DEF no
  <2>4. \A b \in BearerRecords :
          /\ Cut(b) \in BearerRecords /\ Cut(b).id = b.id /\ Cut(b).ours = b.ours
          /\ Cut(b).connected => b.connected
    BY <2>2 DEF BearerRecords
  <2> HIDE DEF Cut
  <2>5. Fewer
    BY <2>3, <2>4 DEF Fewer, PlaneTypeOK
  <2>6. RecordsAreOurs' /\ ConnectedIsKnown'
    BY <1>1, <2>1, <2>5, FewerRecords DEF ConnectedIsKnown, Fewer
  <2>7. ReleasedIsGone' /\ NetworkHasBearer'
    BY <1>1, <2>1 DEF Quiet, ReleasedIsGone, NetworkHasBearer
  <2> QED
    BY <1>1, <2>1, <2>5, <2>6, <2>7, QuietInv DEF PlaneTypeOK, Fewer
<1> QED
  BY <1>1, <1>2, <1>3 DEF Disconnect, Fail

\* The recorded bearer is deleted.
LEMMA DeleteBearerKeeps ==
  ASSUME PlaneAssumption, DataPlaneInv, DeleteBearer
  PROVE  DataPlaneInv'
<1> USE DEF DataPlaneInv
<1>1. /\ op.pc = "delete" /\ UNCHANGED <<knownEpoch, owned, dp>> /\ Quiet
      /\ op \in BearerOps /\ op.fail = "idle" /\ knownEpoch \in Nat \ {0}
      /\ op.epoch <= knownEpoch /\ op.epoch \in Nat /\ owned.mem # None
      /\ net.mem = NoNet /\ runtime = None /\ dp.pc = "idle" /\ op.id = owned.mem.id
  BY DEF DeleteBearer, ReleasedIsGone, PlaneTypeOK, RecordsAreOurs,
         ConnectedIsKnown, BearerOps
<1>2. CASE Goto("idle") /\ UNCHANGED mm
  <2>1. op' \in BearerOps /\ op'.pc = "idle" /\ op'.fail = "idle" /\ op'.epoch = 1
    BY <1>1, <1>2, GotoIs DEF BearerPcs
  <2>2. ReleasedIsGone' /\ ConnectedIsKnown' /\ NetworkHasBearer'
    BY <1>1, <1>2, <2>1
    DEF Quiet, ReleasedIsGone, ConnectedIsKnown, NetworkHasBearer
  <2> QED
    BY <1>1, <1>2, <2>1, <2>2, QuietInv, SameRecords DEF PlaneTypeOK
<1>3. CASE SetBearers(mm.bearers \ Bearer(op.id)) /\ Goto("unown")
  <2>1. /\ op' \in BearerOps /\ op'.pc = "unown" /\ op'.fail = "idle" /\ op'.then = op.then
        /\ op'.epoch = op.epoch
    BY <1>1, <1>3, GotoIs DEF BearerPcs
  <2>2. Fewer /\ \A b \in mm'.bearers : b.id # op.id
    BY <1>3 DEF Fewer, PlaneTypeOK, SetBearers, Bearer
  <2>3. \A b \in mm'.bearers : ~(b.ours /\ b.connected)
    <3> SUFFICES ASSUME NEW b \in mm'.bearers, b.ours, b.connected
                 PROVE  FALSE
      OBVIOUS
    <3>1. PICK c \in mm.bearers : c.id = b.id /\ c.ours /\ c.connected
      BY <2>2 DEF Fewer
    <3> QED
      BY <1>1, <2>2, <3>1, OursIsFound
  <2>4. RecordsAreOurs' /\ ConnectedIsKnown'
    BY <1>1, <2>1, <2>2, <2>3, FewerRecords DEF ConnectedIsKnown
  <2>5. ReleasedIsGone' /\ NetworkHasBearer'
    BY <1>1, <2>1 DEF Quiet, ReleasedIsGone, NetworkHasBearer
  <2> QED
    BY <1>1, <2>1, <2>2, <2>4, <2>5, QuietInv DEF PlaneTypeOK, Fewer
<1> QED
  BY <1>1, <1>2, <1>3 DEF DeleteBearer, Fail

\* The record goes after the bearer, or stays if it cannot be written.
LEMMA UnownKeeps ==
  ASSUME PlaneAssumption, DataPlaneInv, Unown
  PROVE  DataPlaneInv'
<1> USE DEF DataPlaneInv
<1>1. /\ op.pc = "unown" /\ UNCHANGED <<mm, knownEpoch, dp>> /\ Quiet
      /\ op \in BearerOps /\ op.fail \in {"idle", "off"} /\ knownEpoch \in Nat \ {0}
      /\ op.epoch <= knownEpoch /\ op.epoch \in Nat /\ owned.mem # None
      /\ op.fail = "off" => op.then = "idle"
      /\ net.mem = NoNet /\ runtime = None /\ dp.pc = "idle"
      /\ \A b \in mm.bearers : ~(b.ours /\ b.connected)
  BY DEF Unown, ReleasedIsGone, PlaneTypeOK, RecordsAreOurs, ConnectedIsKnown,
         BearerOps
<1>2. CASE Store(None) /\ Goto(op.then)
  <2>1. /\ op' \in BearerOps /\ op'.pc \in {"idle", "create"} /\ op'.fail = "idle"
        /\ op'.epoch = IF op'.pc = "create" THEN op.epoch ELSE 1
    BY <1>1, <1>2, GotoIs DEF BearerPcs, BearerOps
  <2>2. owned'.disk = None /\ owned'.mem = None
        /\ owned' \in [disk : {None} \cup OwnRecords, mem : {None} \cup OwnRecords]
    BY <1>2 DEF Store
  <2>3. RecordsAreOurs'
    BY <1>1, <2>1, <2>2 DEF RecordsAreOurs
  <2>4. ReleasedIsGone' /\ ConnectedIsKnown' /\ NetworkHasBearer'
    BY <1>1, <2>1, <2>2
    DEF Quiet, ReleasedIsGone, ConnectedIsKnown, NetworkHasBearer
  <2> QED
    BY <1>1, <2>1, <2>2, <2>3, <2>4, QuietInv DEF PlaneTypeOK
<1>3. CASE StoreFails(None) /\ Goto(op.fail)
  <2>1. op' \in BearerOps /\ op'.pc \in {"idle", "off"} /\ op'.fail = "idle" /\ op'.epoch = 1
    BY <1>1, <1>3, GotoIs DEF BearerPcs
  <2>2. owned'.disk \in {owned.disk, None} /\ owned'.mem = owned.mem
        /\ owned' \in [disk : {None} \cup OwnRecords, mem : {None} \cup OwnRecords]
    BY <1>3 DEF StoreFails, PlaneTypeOK
  <2>3. RecordsAreOurs'
    BY <1>1, <2>1, <2>2 DEF RecordsAreOurs, Bearer
  <2>4. ReleasedIsGone' /\ ConnectedIsKnown' /\ NetworkHasBearer'
    BY <1>1, <2>1, <2>2
    DEF Quiet, ReleasedIsGone, ConnectedIsKnown, NetworkHasBearer
  <2> QED
    BY <1>1, <2>1, <2>2, <2>3, <2>4, QuietInv DEF PlaneTypeOK
<1> QED
  BY <1>1, <1>2, <1>3 DEF Unown, Fail

\* A new bearer has an identifier nobody used in this ModemManager.
LEMMA CreateKeeps ==
  ASSUME PlaneAssumption, DataPlaneInv, Create
  PROVE  DataPlaneInv'
<1> USE DEF DataPlaneInv
<1>1. /\ op.pc = "create" /\ UNCHANGED <<knownEpoch, owned, dp>> /\ Quiet
      /\ op \in BearerOps /\ op.fail = "idle" /\ knownEpoch \in Nat \ {0}
      /\ op.epoch <= knownEpoch /\ op.epoch \in Nat /\ owned.mem = None
      /\ knownEpoch <= mm.epoch /\ mm.epoch \in Nat /\ mm.made \in Nat
      /\ op.method \in Methods \cup {None}
  BY DEF Create, ReleasedIsGone, PlaneTypeOK, RecordsAreOurs, ConnectedIsKnown,
         BearerOps
<1>2. CASE Goto("idle") /\ UNCHANGED mm
  <2>1. op' \in BearerOps /\ op'.pc = "idle" /\ op'.fail = "idle" /\ op'.epoch = 1
    BY <1>1, <1>2, GotoIs DEF BearerPcs
  <2>2. ReleasedIsGone' /\ ConnectedIsKnown' /\ NetworkHasBearer'
    BY <1>1, <1>2, <2>1
    DEF Quiet, ReleasedIsGone, ConnectedIsKnown, NetworkHasBearer
  <2> QED
    BY <1>1, <1>2, <2>1, <2>2, QuietInv, SameRecords DEF PlaneTypeOK
<1>3. CASE /\ \A b \in mm.bearers : ~b.connected
           /\ mm' = [mm EXCEPT !.made = @ + 1, !.bearers = @ \cup
                {[id |-> mm.made + 1, ours |-> op.epoch = mm.epoch, connected |-> FALSE,
                  method |-> op.method, ip |-> None]}]
           /\ op' = [op EXCEPT !.pc = "put", !.id = mm.made + 1]
  <2> DEFINE no == FALSE
             now == op.epoch = mm.epoch
             new == [id |-> mm.made + 1, ours |-> now, connected |-> no,
                     method |-> op.method, ip |-> None]
             f == [mm EXCEPT !.made = mm.made + 1]
             g == [op EXCEPT !.pc = "put"]
  <2>1. no \in BOOLEAN /\ ~no /\ now \in BOOLEAN /\ (now <=> op.epoch = mm.epoch)
    OBVIOUS
  <2>2. mm' = [f EXCEPT !.bearers = mm.bearers \cup {new}]
    BY <1>1, <1>3 DEF PlaneTypeOK
  <2> HIDE DEF no, now
  <2>3. new \in BearerRecords /\ new.id = mm.made + 1 /\ new.ours = now /\ ~new.connected
    BY <1>1, <2>1 DEF BearerRecords
  <2> HIDE DEF new
  <2>21. /\ f \in [epoch : Nat, made : Nat, bearers : SUBSET BearerRecords]
        /\ f.epoch = mm.epoch /\ f.made = mm.made + 1
    BY <1>1 DEF PlaneTypeOK
  <2> HIDE DEF f
  <2>22. mm.bearers \cup {new} \in SUBSET BearerRecords
    BY <2>3 DEF PlaneTypeOK
  <2>4. /\ mm' \in [epoch : Nat, made : Nat, bearers : SUBSET BearerRecords]
        /\ mm'.epoch = mm.epoch /\ mm'.made = mm.made + 1 /\ mm'.bearers = mm.bearers \cup {new}
    BY <2>2, <2>21, <2>22
  <2>5. /\ op' \in BearerOps /\ op'.pc = "put" /\ op'.fail = "idle" /\ op'.epoch = op.epoch
        /\ op'.id = mm.made + 1
    <3>1. g \in BearerOps /\ g.pc = "put" /\ g.fail = op.fail /\ g.epoch = op.epoch
      BY <1>1 DEF BearerOps, BearerPcs
    <3>2. op' = [g EXCEPT !.id = mm.made + 1]
      BY <1>3
    <3> HIDE DEF g
    <3> QED
      BY <1>1, <3>1, <3>2 DEF BearerOps
  <2>6. RecordsAreOurs'
    <3>0. \A b \in mm.bearers : b.id \in Nat /\ b.id <= mm.made /\ b.id # mm.made + 1
      BY <1>1 DEF RecordsAreOurs, PlaneTypeOK, BearerRecords
    <3>1. \A b \in mm'.bearers : b.id <= mm'.made
      BY <1>1, <2>3, <2>4 DEF RecordsAreOurs, PlaneTypeOK, BearerRecords
    <3>2. \A r \in {owned.disk, owned.mem} :
            r # None =>
              /\ r.epoch <= mm.epoch
              /\ r.epoch = mm.epoch =>
                   r.id <= mm.made + 1 /\ \A b \in mm'.bearers : b.id = r.id => b.ours
      BY <1>1, <2>3, <2>4 DEF RecordsAreOurs, PlaneTypeOK, OwnRecords, Bearer
    <3>3. op.epoch = mm.epoch => \A b \in mm'.bearers : b.id = mm.made + 1 => b.ours
      BY <2>1, <2>3, <2>4, <3>0
    <3>4. \A b \in mm'.bearers : b.ours => knownEpoch = mm.epoch /\ op.epoch = mm.epoch
      BY <1>1, <2>1, <2>3, <2>4 DEF RecordsAreOurs
    <3> QED
      BY <1>1, <2>4, <2>5, <3>1, <3>2, <3>3, <3>4 DEF RecordsAreOurs, Bearer
  <2>7. ReleasedIsGone' /\ ConnectedIsKnown' /\ NetworkHasBearer'
    BY <1>1, <1>3, <2>3, <2>4, <2>5
    DEF Quiet, ReleasedIsGone, ConnectedIsKnown, NetworkHasBearer
  <2> QED
    BY <1>1, <2>4, <2>5, <2>6, <2>7, QuietInv DEF PlaneTypeOK
<1> QED
  BY <1>1, <1>2, <1>3 DEF Create, Fail

\* A bearer is recorded before it is connected.
LEMMA PutKeeps ==
  ASSUME PlaneAssumption, DataPlaneInv, Put
  PROVE  DataPlaneInv'
<1> USE DEF DataPlaneInv
<1> DEFINE record == [epoch |-> op.epoch, id |-> op.id]
<1>1. /\ op.pc = "put" /\ UNCHANGED <<knownEpoch, dp>> /\ Quiet
      /\ op \in BearerOps /\ op.fail = "idle" /\ knownEpoch \in Nat \ {0}
      /\ op.epoch <= knownEpoch /\ op.epoch \in Nat /\ op.id \in Nat /\ owned.mem = None
      /\ knownEpoch <= mm.epoch /\ mm.epoch \in Nat
      /\ \A b \in mm.bearers : ~(b.ours /\ b.connected)
  BY DEF Put, ReleasedIsGone, PlaneTypeOK, RecordsAreOurs, ConnectedIsKnown,
         BearerOps
<1>2. /\ record \in OwnRecords /\ record # None /\ record.epoch = op.epoch
      /\ record.id = op.id /\ record.epoch <= mm.epoch
      /\ record.epoch = mm.epoch => record.id <= mm.made /\ \A b \in Bearer(record.id) : b.ours
  BY <1>1 DEF OwnRecords, PlaneAssumption, RecordsAreOurs
<1>3. CASE Store(record) /\ Goto("connect") /\ UNCHANGED mm
  <2>1. /\ op' \in BearerOps /\ op'.pc = "connect" /\ op'.fail = "idle"
        /\ op'.epoch = op.epoch /\ op'.id = op.id
    BY <1>1, <1>3, GotoIs DEF BearerPcs
  <2>2. /\ owned'.disk = record /\ owned'.mem = record
        /\ owned' \in [disk : {None} \cup OwnRecords, mem : {None} \cup OwnRecords]
    BY <1>2, <1>3 DEF Store
  <2>3. ConnectedIsKnown'
    BY <1>1, <1>3, <2>1, <2>2 DEF ConnectedIsKnown
  <2> HIDE DEF record
  <2>4. RecordsAreOurs'
    BY <1>1, <1>2, <1>3, <2>1, <2>2 DEF RecordsAreOurs, Bearer
  <2>5. ReleasedIsGone' /\ NetworkHasBearer'
    BY <1>1, <1>2, <2>1, <2>2 DEF Quiet, ReleasedIsGone, NetworkHasBearer
  <2> QED
    BY <1>1, <1>3, <2>1, <2>2, <2>3, <2>4, <2>5, QuietInv DEF PlaneTypeOK
<1>4. CASE /\ StoreFails(record) /\ Goto("idle")
           /\ (UNCHANGED mm \/ SetBearers(mm.bearers \ Bearer(op.id)))
  <2>1. op' \in BearerOps /\ op'.pc = "idle" /\ op'.fail = "idle" /\ op'.epoch = 1
    BY <1>1, <1>4, GotoIs DEF BearerPcs
  <2>2. /\ owned'.disk \in {owned.disk, record} /\ owned'.mem = None
        /\ owned' \in [disk : {None} \cup OwnRecords, mem : {None} \cup OwnRecords]
    BY <1>1, <1>2, <1>4 DEF StoreFails, PlaneTypeOK
  <2>3. /\ mm' \in [epoch : Nat, made : Nat, bearers : SUBSET BearerRecords]
        /\ mm'.epoch = mm.epoch /\ mm'.made = mm.made /\ mm'.bearers \subseteq mm.bearers
    BY <1>4 DEF SetBearers, PlaneTypeOK
  <2> HIDE DEF record
  <2>4. RecordsAreOurs'
    BY <1>1, <1>2, <2>1, <2>2, <2>3 DEF RecordsAreOurs, Bearer
  <2>5. ReleasedIsGone' /\ ConnectedIsKnown' /\ NetworkHasBearer'
    BY <1>1, <1>2, <2>1, <2>2, <2>3
    DEF Quiet, ReleasedIsGone, ConnectedIsKnown, NetworkHasBearer
  <2> QED
    BY <1>1, <2>1, <2>2, <2>3, <2>4, <2>5, QuietInv
<1> QED
  BY <1>1, <1>3, <1>4 DEF Put, Fail

\* A failed activation goes on as a deactivation.
LEMMA CleanUpIs ==
  ASSUME op \in BearerOps, CleanUp
  PROVE  /\ op' \in BearerOps /\ op'.pc = "deactivate" /\ op'.then = "idle"
         /\ op'.fail = op.fail /\ op'.epoch = op.epoch
BY DEF CleanUp, BearerOps, BearerPcs

\* The bearer that is connected is the recorded one.
LEMMA ConnectKeeps ==
  ASSUME PlaneAssumption, DataPlaneInv, Connect
  PROVE  DataPlaneInv'
<1> USE DEF DataPlaneInv
<1>1. /\ op.pc = "connect" /\ UNCHANGED <<knownEpoch, owned>> /\ Quiet
      /\ op \in BearerOps /\ op.fail = "idle" /\ knownEpoch \in Nat \ {0}
      /\ op.epoch <= knownEpoch /\ op.epoch \in Nat /\ op.id \in Nat
      /\ owned.mem = [epoch |-> op.epoch, id |-> op.id] /\ owned.disk = owned.mem
      /\ owned.mem \in {None} \cup OwnRecords
  BY DEF Connect, ReleasedIsGone, PlaneTypeOK, RecordsAreOurs,
         ConnectedIsKnown, BearerOps
<1>2. owned.mem # None
  BY <1>1 DEF OwnRecords, PlaneAssumption
<1>3. CASE CleanUp /\ UNCHANGED <<mm, dp>>
  <2>1. op' \in BearerOps /\ op'.pc = "deactivate" /\ op'.fail = "idle" /\ op'.epoch = op.epoch
    BY <1>1, <1>3, CleanUpIs
  <2>2. ReleasedIsGone' /\ ConnectedIsKnown' /\ NetworkHasBearer'
    BY <1>1, <1>3, <2>1
    DEF Quiet, ReleasedIsGone, ConnectedIsKnown, NetworkHasBearer
  <2> QED
    BY <1>1, <1>3, <2>1, <2>2, QuietInv, SameRecords DEF PlaneTypeOK
<1>4. ASSUME NEW b \in Bearer(op.id), NEW ip \in IPs, Connected(b, ip),
             \/ Goto("configure") /\ Call("recover", [b EXCEPT !.ip = ip])
             \/ CleanUp /\ UNCHANGED dp
      PROVE  DataPlaneInv'
  <2>1. b \in mm.bearers /\ b \in BearerRecords /\ b.id = op.id
    BY DEF Bearer, PlaneTypeOK
  <2> DEFINE yes == TRUE
             f == [b EXCEPT !.connected = yes]
             up == [f EXCEPT !.ip = ip]
             read == [b EXCEPT !.ip = ip]
  <2>2. yes \in BOOLEAN
    OBVIOUS
  <2>3. mm' = [mm EXCEPT !.bearers = (mm.bearers \ {b}) \cup {up}]
    BY <1>4 DEF Connected, SetBearers
  <2> HIDE DEF yes
  <2>4. f \in BearerRecords /\ f.id = b.id /\ f.ours = b.ours
    BY <2>1, <2>2 DEF BearerRecords
  <2> HIDE DEF f
  <2>5. up \in BearerRecords /\ up.id = b.id /\ up.ours = b.ours
    BY <2>4 DEF BearerRecords
  <2> HIDE DEF up
  <2>6. /\ mm' \in [epoch : Nat, made : Nat, bearers : SUBSET BearerRecords]
        /\ mm'.epoch = mm.epoch /\ mm'.made = mm.made
        /\ mm'.bearers \subseteq mm.bearers \cup {up}
    BY <2>3, <2>5 DEF PlaneTypeOK
  <2>7. read \in BearerRecords
    BY <2>1 DEF BearerRecords
  <2> HIDE DEF read
  <2>8. \/ op'.pc = "configure" /\ Asks("recover")
        \/ op'.pc = "deactivate" /\ dp' = dp
    BY <1>1, <1>4, <2>7, SetupIsAsked, CleanUpIs, GotoIs DEF BearerPcs, read
  <2>9. op' \in BearerOps /\ op'.fail = "idle" /\ op'.epoch = op.epoch
    BY <1>1, <1>4, CleanUpIs, GotoIs DEF BearerPcs
  <2>10. RecordsAreOurs'
    <3>1. \A c \in mm'.bearers : \E d \in mm.bearers : d.id = c.id /\ d.ours = c.ours
      BY <2>1, <2>5, <2>6
    <3> QED
      BY <1>1, <2>6, <2>8, <2>9, <3>1 DEF RecordsAreOurs, Bearer
  <2>11. b.ours => op.epoch = mm.epoch
    BY <1>1, <2>1 DEF RecordsAreOurs
  <2>12. ConnectedIsKnown'
    BY <1>1, <1>2, <2>1, <2>5, <2>6, <2>8, <2>11 DEF ConnectedIsKnown
  <2>13. ReleasedIsGone' /\ NetworkHasBearer'
    BY <1>1, <1>2, <2>8, <2>9
    DEF Asks, Quiet, ReleasedIsGone, NetworkHasBearer, SetupPcs
  <2> QED
    BY <1>1, <2>6, <2>8, <2>9, <2>10, <2>12, <2>13, QuietInv DEF PlaneTypeOK
<1> QED
  BY <1>3, <1>4 DEF Connect

\* An activation succeeds when its network is set up, or is undone.
LEMMA ConfiguredKeeps ==
  ASSUME PlaneAssumption, DataPlaneInv, Configured
  PROVE  DataPlaneInv'
<1> USE DEF DataPlaneInv
<1>1. /\ op.pc = "configure" /\ dp.pc = "done" /\ dp' = NoCall
      /\ UNCHANGED <<mm, knownEpoch, owned>> /\ Quiet
      /\ op \in BearerOps /\ op.fail = "idle" /\ knownEpoch \in Nat \ {0}
      /\ op.epoch <= knownEpoch /\ op.epoch \in Nat /\ owned.mem # None
  BY DEF Configured, ReleasedIsGone, PlaneTypeOK, RecordsAreOurs,
         ConnectedIsKnown, BearerOps
<1>2. Asks("idle")
  BY <1>1, NothingIsAsked
<1>3. \/ op' \in BearerOps /\ op'.pc = "deactivate" /\ op'.fail = "idle" /\ op'.epoch = op.epoch
      \/ op' \in BearerOps /\ op'.pc = "idle" /\ op'.fail = "idle" /\ op'.epoch = 1
  BY <1>1, CleanUpIs, GotoIs DEF Configured, BearerPcs
<1>4. ReleasedIsGone' /\ ConnectedIsKnown' /\ NetworkHasBearer'
  BY <1>1, <1>2, <1>3
  DEF Asks, Quiet, ReleasedIsGone, ConnectedIsKnown, NetworkHasBearer
<1> QED
  BY <1>1, <1>2, <1>3, <1>4, QuietInv, SameRecords DEF PlaneTypeOK

\* What the journal says may be written again.
LEMMA JournalIsGood ==
  ASSUME DataPlaneInv
  PROVE  GoodDoc(net.mem) /\ GoodDoc(net.disk)
BY DEF DataPlaneInv, PlaneTypeOK, JournalsLoad, GoodDoc

\* A part of the journal may be forgotten.
LEMMA ForgottenIsGood ==
  ASSUME NEW file, GoodDoc(file)
  PROVE  /\ GoodDoc([file EXCEPT !.pending = None]) /\ GoodDoc([file EXCEPT !.applied = None])
         /\ [file EXCEPT !.pending = None].applied = file.applied
         /\ [file EXCEPT !.pending = None].pending = None
         /\ [file EXCEPT !.applied = None].pending = file.pending
         /\ [file EXCEPT !.applied = None].applied = None
BY DEF GoodDoc, Docs, Loadable, LoadableApplied, LoadablePending

\* After a write, also one that failed late, the journal can be read.
LEMMA WrittenLoads ==
  ASSUME DataPlaneInv, host' = host, NEW doc, GoodDoc(doc), Saved(doc) \/ NotSaved(doc)
  PROVE  /\ JournalsLoad' /\ net' \in [disk : Docs, mem : Docs]
         /\ Saved(doc) => net'.mem = doc
         /\ NotSaved(doc) => net'.mem = net.mem
<1>1. GoodDoc(net.mem) /\ GoodDoc(net.disk) /\ net \in [disk : Docs, mem : Docs]
  BY JournalIsGood DEF DataPlaneInv, PlaneTypeOK
<1>2. /\ net' \in [disk : Docs, mem : Docs]
      /\ net'.disk \in {net.disk, doc} /\ net'.mem \in {net.mem, doc}
      /\ Saved(doc) => net'.mem = doc
      /\ NotSaved(doc) => net'.mem = net.mem
  BY <1>1 DEF Saved, NotSaved, GoodDoc
<1>3. \A file \in {net'.disk, net'.mem} :
        /\ Loadable(file)
        /\ file.applied # None => file.applied.index <= host.index
        /\ file.pending # None => file.pending.index <= host.index
  BY <1>1, <1>2 DEF GoodDoc
<1> QED
  BY <1>2, <1>3 DEF JournalsLoad, Loadable, LoadableApplied, LoadablePending

\* Without a write the journal stays as it is.
LEMMA NotWrittenLoads ==
  ASSUME DataPlaneInv, host' = host, net' = net
  PROVE  JournalsLoad' /\ net' \in [disk : Docs, mem : Docs]
BY DEF DataPlaneInv, PlaneTypeOK, JournalsLoad, Loadable, LoadableApplied,
       LoadablePending

\* The kernel outside of the window in which something is added.
LEMMA KernelOf ==
  ASSUME DataPlaneInv, dp.pc \notin {"persist", "repersist"}
  PROVE  /\ kernel \subseteq Items(net.mem.applied) \cup Items(net.mem.pending) \cup orphans
         /\ \A i \in kernel : OnDevice(i) => i[3] = host.index
BY DEF DataPlaneInv, KernelIsKnown, Recorded

\* The kernel has what the journal says and orphans, outside of the window.
LEMMA KernelStays ==
  ASSUME host' = host, dp'.pc \notin {"persist", "repersist"},
         kernel' \subseteq Items(net'.mem.applied) \cup Items(net'.mem.pending) \cup orphans',
         \A i \in kernel' : OnDevice(i) => i[3] = host.index
  PROVE  KernelIsKnown'
<1>1. Recorded(net.mem)' = Items(net'.mem.applied) \cup Items(net'.mem.pending)
  BY DEF Recorded, Items, Values
<1> QED
  BY <1>1 DEF KernelIsKnown

\* What is left to show of a step of the data plane.
LEMMA PlaneInv ==
  ASSUME DataPlaneInv, UNCHANGED <<mm, knownEpoch, owned, host, op>>, dp' \in PlaneCalls,
         net' \in [disk : Docs, mem : Docs], runtime' \in {None} \cup Runtimes,
         KernelIsKnown', JournalsLoad', PreparedInOrder', ReplacedInOrder',
         ReleasedIsGone' /\ RecordsAreOurs' /\ ConnectedIsKnown' /\ NetworkHasBearer'
  PROVE  DataPlaneInv'
BY DEF DataPlaneInv, PlaneTypeOK

\* Without a preparation there is nothing to undo.
LEMMA NothingPendingKeeps ==
  ASSUME PlaneAssumption, DataPlaneInv, NothingPending
  PROVE  DataPlaneInv'
<1> USE DEF DataPlaneInv
<1>1. /\ dp.pc \in {"recover", "release"} /\ net.mem.pending = None
      /\ UNCHANGED <<mm, knownEpoch, owned, net, kernel, host, op, orphans>>
      /\ dp \in PlaneCalls /\ runtime \in {None} \cup Runtimes
  BY DEF NothingPending, Journal, PlaneTypeOK, files
<1>2. \/ dp.pc = "release" /\ Step("drop") /\ runtime' = None
      \/ dp.pc = "recover" /\ Step("check") /\ runtime' = runtime
  BY <1>1 DEF NothingPending
<1>3. /\ dp' \in PlaneCalls /\ dp'.prep = dp.prep /\ dp'.journaled = dp.journaled
      /\ \/ dp.pc = "release" /\ dp'.pc = "drop" /\ runtime' = None
         \/ dp.pc = "recover" /\ dp'.pc = "check" /\ runtime' = runtime
  BY <1>1, <1>2, StepIs DEF PlanePcs, SetupPcs, ReleasePcs
<1>4. KernelIsKnown'
  BY <1>1, <1>3, KernelOf, KernelStays
<1>5. JournalsLoad' /\ net' \in [disk : Docs, mem : Docs]
  BY <1>1, NotWrittenLoads
<1>6. PreparedInOrder' /\ ReplacedInOrder'
  BY <1>1, <1>3 DEF PreparedInOrder, ReplacedInOrder, RefreshPcs
<1>7. ReleasedIsGone' /\ RecordsAreOurs' /\ ConnectedIsKnown' /\ NetworkHasBearer'
  BY <1>1, <1>3, SteppedOn DEF SetupPcs, ReleasePcs
<1> QED
  BY <1>1, <1>3, <1>4, <1>5, <1>6, <1>7, PlaneInv

\* A setup keeps the leases of the same connection and ends others.
LEMMA CheckKeeps ==
  ASSUME PlaneAssumption, DataPlaneInv, Check
  PROVE  DataPlaneInv'
<1> USE DEF DataPlaneInv
<1>1. /\ dp.pc = "check" /\ net.mem.pending = None /\ ~dp.journaled /\ dp.prep = "none"
      /\ UNCHANGED <<mm, knownEpoch, owned, net, kernel, host, op, orphans>>
      /\ dp \in PlaneCalls /\ runtime \in {None} \cup Runtimes
      /\ runtime' = runtime \/ runtime' = None
  BY DEF Check, PlaneTypeOK, files, PreparedInOrder
<1>2. \/ \E ok \in BOOLEAN : Return(ok)
      \/ Dynamic(dp.method) /\ Step("prepare")
      \/ ~Dynamic(dp.method) /\ Step("acquire")
  BY <1>1 DEF Check
<1>3. /\ dp' \in PlaneCalls
      /\ \/ dp'.pc = "done"
         \/ /\ \/ dp'.pc = "prepare" /\ Dynamic(dp.method)
               \/ dp'.pc = "acquire" /\ ~Dynamic(dp.method)
            /\ dp'.prep = dp.prep /\ dp'.journaled = dp.journaled /\ dp'.method = dp.method
  BY <1>1, <1>2, StepIs, ReturnIs DEF PlanePcs, SetupPcs
<1>4. KernelIsKnown'
  BY <1>1, <1>3, KernelOf, KernelStays
<1>5. JournalsLoad' /\ net' \in [disk : Docs, mem : Docs]
  BY <1>1, NotWrittenLoads
<1>6. PreparedInOrder' /\ ReplacedInOrder'
  BY <1>1, <1>3 DEF PreparedInOrder, ReplacedInOrder, RefreshPcs
<1>7. ReleasedIsGone' /\ RecordsAreOurs' /\ ConnectedIsKnown' /\ NetworkHasBearer'
  BY <1>1, <1>3, SteppedOn DEF SetupPcs, ReleasePcs
<1> QED
  BY <1>1, <1>3, <1>4, <1>5, <1>6, <1>7, PlaneInv

\* A preparation is undone before it is forgotten.
LEMMA RecoverPendingKeeps ==
  ASSUME PlaneAssumption, DataPlaneInv, RecoverPending
  PROVE  DataPlaneInv'
<1> USE DEF DataPlaneInv
<1> DEFINE items == Present(net.mem.pending)
           doc == [net.mem EXCEPT !.pending = None]
           yes == TRUE
<1>1. /\ dp.pc \in {"recover", "release"} /\ net.mem.pending # None
      /\ UNCHANGED <<mm, knownEpoch, owned, host, op, orphans>>
      /\ dp \in PlaneCalls /\ runtime \in {None} \cup Runtimes
      /\ runtime' = IF dp.pc = "release" THEN None ELSE runtime
  BY DEF RecoverPending, Journal, PlaneTypeOK
<1>2. \/ /\ kernel' = kernel \ items /\ Saved(doc)
         /\ \/ dp.pc = "release" /\ Step("drop")
            \/ dp.pc = "recover" /\ Step("check")
      \/ /\ kernel' \subseteq kernel /\ (NotSaved(doc) \/ net' = net)
         /\ \/ dp.pc = "release" /\ dp' = [dp EXCEPT !.pc = "drop", !.failed = yes]
            \/ dp.pc = "recover" /\ Return(FALSE)
  BY <1>1 DEF RecoverPending, Journal, Removed, PartlyRemoved
<1>3. [dp EXCEPT !.pc = "drop", !.failed = yes] \in PlaneCalls
      /\ [dp EXCEPT !.pc = "drop", !.failed = yes].pc = "drop"
      /\ [dp EXCEPT !.pc = "drop", !.failed = yes].failed
  <2> DEFINE f == [dp EXCEPT !.pc = "drop"]
  <2>1. yes \in BOOLEAN /\ yes
    OBVIOUS
  <2>2. [dp EXCEPT !.pc = "drop", !.failed = yes] = [f EXCEPT !.failed = yes]
    BY <1>1 DEF PlaneCalls
  <2> HIDE DEF yes
  <2>3. f \in PlaneCalls /\ f.pc = "drop"
    BY <1>1 DEF PlaneCalls, PlanePcs, ReleasePcs
  <2> HIDE DEF f
  <2>4. [f EXCEPT !.failed = yes] \in PlaneCalls /\ [f EXCEPT !.failed = yes].pc = "drop"
        /\ [f EXCEPT !.failed = yes].failed
    BY <2>1, <2>3 DEF PlaneCalls
  <2> QED
    BY <2>2, <2>4
<1> HIDE DEF yes
<1>4. /\ dp' \in PlaneCalls
      /\ \/ /\ kernel' = kernel \ items /\ Saved(doc) /\ dp'.prep = dp.prep
            /\ dp'.journaled = dp.journaled
            /\ \/ dp.pc = "release" /\ dp'.pc = "drop"
               \/ dp.pc = "recover" /\ dp'.pc = "check"
         \/ /\ kernel' \subseteq kernel /\ (NotSaved(doc) \/ net' = net)
            /\ \/ dp.pc = "release" /\ dp'.pc = "drop" /\ dp'.failed
               \/ dp.pc = "recover" /\ dp'.pc = "done"
  BY <1>1, <1>2, <1>3, StepIs, ReturnIs DEF PlanePcs, SetupPcs, ReleasePcs
<1>5. GoodDoc(doc) /\ doc.applied = net.mem.applied /\ doc.pending = None
  BY JournalIsGood, ForgottenIsGood
<1>6. /\ kernel \subseteq Items(net.mem.applied) \cup Items(net.mem.pending) \cup orphans
      /\ \A i \in kernel : OnDevice(i) => i[3] = host.index
  BY <1>1, KernelOf
<1>7. kernel \cap Items(net.mem.pending) \subseteq items
  BY <1>6, PresentOf
<1> HIDE DEF doc, items
<1>8. JournalsLoad' /\ net' \in [disk : Docs, mem : Docs]
      /\ (net'.mem = doc \/ net'.mem = net.mem) /\ (Saved(doc) => net'.mem = doc)
      /\ (NotSaved(doc) \/ net' = net => net'.mem = net.mem)
  BY <1>1, <1>4, <1>5, WrittenLoads, NotWrittenLoads
<1>9. KernelIsKnown'
  <2>1. dp'.pc \notin {"persist", "repersist"}
    BY <1>4
  <2>2. kernel' \subseteq Items(net'.mem.applied) \cup Items(net'.mem.pending) \cup orphans'
    BY <1>1, <1>4, <1>5, <1>6, <1>7, <1>8
  <2> QED
    BY <1>1, <1>4, <1>6, <2>1, <2>2, KernelStays
<1>10. PreparedInOrder' /\ ReplacedInOrder'
  BY <1>1, <1>4, <1>5, <1>8 DEF PreparedInOrder, ReplacedInOrder, RefreshPcs
<1>11. net.mem # NoNet
  BY <1>1 DEF NoNet
<1>12. ReleasedIsGone' /\ RecordsAreOurs' /\ ConnectedIsKnown' /\ NetworkHasBearer'
  BY <1>1, <1>4, <1>5, <1>8, <1>11, SteppedOn DEF SetupPcs, ReleasePcs
<1> QED
  BY <1>1, <1>4, <1>8, <1>9, <1>10, <1>12, PlaneInv

\* A preparation that is used again has its record, or leaves an orphan.
LEMMA ReusePreparationKeeps ==
  ASSUME PlaneAssumption, DataPlaneInv, ReusePreparation
  PROVE  DataPlaneInv'
<1> USE DEF DataPlaneInv
<1> DEFINE p == net.mem.applied
           setting == <<"setting", None, host.index>>
<1>1. /\ dp.pc = "prepare" /\ net.mem.pending = None /\ ~dp.journaled
      /\ UNCHANGED <<mm, knownEpoch, owned, net, host, runtime, op>>
      /\ dp \in PlaneCalls /\ runtime \in {None} \cup Runtimes
      /\ p # None /\ p \in Nets /\ p.prep # "none" /\ Dynamic(dp.method)
  BY JournalIsGood
  DEF ReusePreparation, Reusable, Journal, PlaneTypeOK, files, PreparedInOrder,
      GoodDoc,
      Docs, Loadable, LoadableApplied
<1>2. Placed(<<"setting", None>>, host.index) = setting
  BY DEF Placed
<1>3. \/ /\ dp' = [dp EXCEPT !.pc = "acquire", !.prep = p.prep]
         /\ kernel' \subseteq kernel \cup (IF p.prep = "ours" THEN {setting} ELSE {})
         /\ orphans' = orphans \cup
              (IF p.prep = "ours" /\ p.index # host.index THEN {setting} ELSE {})
      \/ Return(FALSE) /\ UNCHANGED <<kernel, orphans>>
  BY <1>2 DEF ReusePreparation, Journal
<1>4. /\ dp' \in PlaneCalls
      /\ \/ dp'.pc = "done"
         \/ /\ dp'.pc = "acquire" /\ dp'.prep = p.prep /\ dp'.method = dp.method
            /\ ~dp'.journaled
  BY <1>1, <1>3, ReturnIs DEF PlaneCalls, PlanePcs, SetupPcs, Nets
<1>5. setting \in Items(p) \/ p.prep # "ours" \/ p.index # host.index
  BY <1>1, ItemsOf
<1>6. setting[3] = host.index
  OBVIOUS
<1>7. /\ kernel \subseteq Items(net.mem.applied) \cup Items(net.mem.pending) \cup orphans
      /\ \A i \in kernel : OnDevice(i) => i[3] = host.index
  BY <1>1, KernelOf
<1> HIDE DEF setting
<1>8. KernelIsKnown'
  <2>1. dp'.pc \notin {"persist", "repersist"}
    BY <1>4
  <2>2. kernel' \subseteq Items(net'.mem.applied) \cup Items(net'.mem.pending) \cup orphans'
    BY <1>1, <1>3, <1>5, <1>7
  <2>3. \A i \in kernel' : OnDevice(i) => i[3] = host.index
    BY <1>3, <1>6, <1>7
  <2> QED
    BY <1>1, <2>1, <2>2, <2>3, KernelStays
<1>9. JournalsLoad' /\ net' \in [disk : Docs, mem : Docs]
  BY <1>1, NotWrittenLoads
<1>10. PreparedInOrder' /\ ReplacedInOrder'
  BY <1>1, <1>4 DEF PreparedInOrder, ReplacedInOrder, RefreshPcs
<1>11. ReleasedIsGone' /\ RecordsAreOurs' /\ ConnectedIsKnown' /\ NetworkHasBearer'
  BY <1>1, <1>4, SteppedOn DEF SetupPcs, ReleasePcs
<1> QED
  BY <1>1, <1>4, <1>8, <1>9, <1>10, <1>11, PlaneInv

\* A preparation is in the journal before anything is changed.
LEMMA BuildPreparationKeeps ==
  ASSUME PlaneAssumption, DataPlaneInv, BuildPreparation
  PROVE  DataPlaneInv'
<1> USE DEF DataPlaneInv
<1> DEFINE prepared == Preparation(host.index, "ours")
           doc == [net.mem EXCEPT !.pending = prepared]
           yes == TRUE
<1>1. /\ dp.pc = "prepare" /\ net.mem.pending = None /\ ~dp.journaled /\ Dynamic(dp.method)
      /\ UNCHANGED <<mm, knownEpoch, owned, kernel, host, runtime, op, orphans>>
      /\ dp \in PlaneCalls /\ runtime \in {None} \cup Runtimes
      /\ host.index \in Nat /\ host.index > 0
  BY DEF BuildPreparation, PlaneTypeOK, PreparedInOrder
<1>2. \/ dp' = [dp EXCEPT !.pc = "acquire", !.prep = "found"] /\ net' = net
      \/ /\ Saved(doc)
         /\ dp' = [dp EXCEPT !.pc = "set", !.prep = "ours", !.journaled = yes]
      \/ NotSaved(doc) /\ Return(FALSE)
  BY DEF BuildPreparation, Journal
<1>3. /\ [dp EXCEPT !.pc = "set", !.prep = "ours", !.journaled = yes] \in PlaneCalls
      /\ [dp EXCEPT !.pc = "set", !.prep = "ours", !.journaled = yes].pc = "set"
      /\ [dp EXCEPT !.pc = "set", !.prep = "ours", !.journaled = yes].prep = "ours"
      /\ [dp EXCEPT !.pc = "set", !.prep = "ours", !.journaled = yes].journaled
      /\ [dp EXCEPT !.pc = "set", !.prep = "ours", !.journaled = yes].method = dp.method
  <2> DEFINE f == [dp EXCEPT !.pc = "set", !.prep = "ours"]
  <2>1. yes \in BOOLEAN /\ yes
    OBVIOUS
  <2>2. [dp EXCEPT !.pc = "set", !.prep = "ours", !.journaled = yes]
          = [f EXCEPT !.journaled = yes]
    BY <1>1 DEF PlaneCalls
  <2> HIDE DEF yes
  <2>3. f \in PlaneCalls /\ f.pc = "set" /\ f.prep = "ours" /\ f.method = dp.method
    BY <1>1 DEF PlaneCalls, PlanePcs, SetupPcs
  <2> HIDE DEF f
  <2>4. /\ [f EXCEPT !.journaled = yes] \in PlaneCalls
        /\ [f EXCEPT !.journaled = yes].pc = "set"
        /\ [f EXCEPT !.journaled = yes].prep = "ours"
        /\ [f EXCEPT !.journaled = yes].journaled
        /\ [f EXCEPT !.journaled = yes].method = f.method
    BY <2>1, <2>3 DEF PlaneCalls
  <2> QED
    BY <2>2, <2>3, <2>4
<1> HIDE DEF yes
<1>4. /\ dp' \in PlaneCalls
      /\ \/ /\ dp'.pc = "acquire" /\ dp'.prep = "found" /\ dp'.method = dp.method
            /\ ~dp'.journaled /\ net' = net
         \/ /\ dp'.pc = "set" /\ dp'.prep = "ours" /\ dp'.method = dp.method
            /\ dp'.journaled /\ Saved(doc)
         \/ dp'.pc = "done" /\ NotSaved(doc)
  <2>1. [dp EXCEPT !.pc = "acquire", !.prep = "found"] \in PlaneCalls
    BY <1>1 DEF PlaneCalls, PlanePcs, SetupPcs
  <2> QED
    BY <1>1, <1>2, <1>3, <2>1, ReturnIs DEF PlaneCalls
<1>5. /\ prepared \in Nets /\ prepared # None /\ prepared.index = host.index
      /\ LoadablePending(prepared)
  BY <1>1 DEF Preparation, Nets, PlaneAssumption, LoadablePending
<1> HIDE DEF prepared
<1>6. GoodDoc(doc) /\ doc.applied = net.mem.applied /\ doc.pending = prepared
  BY <1>1, <1>5, JournalIsGood DEF GoodDoc, Docs, Loadable
<1> HIDE DEF doc
<1>7. JournalsLoad' /\ net' \in [disk : Docs, mem : Docs]
      /\ (net'.mem = doc \/ net'.mem = net.mem) /\ (Saved(doc) => net'.mem = doc)
      /\ (NotSaved(doc) \/ net' = net => net'.mem = net.mem)
  BY <1>1, <1>4, <1>6, WrittenLoads, NotWrittenLoads
<1>8. KernelIsKnown'
  <2>1. dp'.pc \notin {"persist", "repersist"}
    BY <1>4
  <2>2. Items(net.mem.pending) = {}
    BY <1>1 DEF Items, Values
  <2>3. /\ kernel \subseteq Items(net.mem.applied) \cup Items(net.mem.pending) \cup orphans
        /\ \A i \in kernel : OnDevice(i) => i[3] = host.index
    BY <1>1, KernelOf
  <2>4. kernel' \subseteq Items(net'.mem.applied) \cup Items(net'.mem.pending) \cup orphans'
    BY <1>1, <1>6, <1>7, <2>2, <2>3
  <2> QED
    BY <1>1, <2>1, <2>3, <2>4, KernelStays
<1>9. PreparedInOrder' /\ ReplacedInOrder'
  BY <1>1, <1>4, <1>5, <1>6, <1>7
  DEF PreparedInOrder, ReplacedInOrder, RefreshPcs
<1>10. ReleasedIsGone' /\ RecordsAreOurs' /\ ConnectedIsKnown' /\ NetworkHasBearer'
  BY <1>1, <1>4, SteppedOn DEF SetupPcs, ReleasePcs
<1> QED
  BY <1>1, <1>4, <1>7, <1>8, <1>9, <1>10, PlaneInv

\* What is prepared is what the journal says.
LEMMA ApplyPreparationKeeps ==
  ASSUME PlaneAssumption, DataPlaneInv, ApplyPreparation
  PROVE  DataPlaneInv'
<1> USE DEF DataPlaneInv
<1>1. /\ dp.pc = "set" /\ net.mem.pending # None /\ dp.journaled /\ dp.prep = "ours"
      /\ Dynamic(dp.method)
      /\ UNCHANGED <<mm, knownEpoch, owned, net, host, runtime, op, orphans>>
      /\ dp \in PlaneCalls /\ runtime \in {None} \cup Runtimes
  BY DEF ApplyPreparation, PlaneTypeOK, PreparedInOrder, files
<1>2. \/ /\ net.mem.pending.index = host.index /\ Step("acquire")
         /\ kernel' = kernel \cup Items(net.mem.pending)
      \/ Step("rollback") /\ kernel' = kernel
  BY DEF ApplyPreparation, MayApply, Journal
<1>3. /\ dp' \in PlaneCalls /\ dp'.pc \in {"acquire", "rollback"} /\ dp'.prep = dp.prep
      /\ dp'.journaled = dp.journaled /\ dp'.method = dp.method
  BY <1>1, <1>2, StepIs DEF PlanePcs, SetupPcs
<1>4. /\ kernel \subseteq Items(net.mem.applied) \cup Items(net.mem.pending) \cup orphans
      /\ \A i \in kernel : OnDevice(i) => i[3] = host.index
  BY <1>1, KernelOf
<1>5. \A i \in Items(net.mem.pending) : OnDevice(i) => i[3] = net.mem.pending.index
  BY ItemsOf DEF OnDevice
<1>6. KernelIsKnown'
  <2>1. kernel' \subseteq Items(net'.mem.applied) \cup Items(net'.mem.pending) \cup orphans'
    BY <1>1, <1>2, <1>4
  <2>2. \A i \in kernel' : OnDevice(i) => i[3] = host.index
    BY <1>2, <1>4, <1>5
  <2> QED
    BY <1>1, <1>3, <2>1, <2>2, KernelStays
<1>7. JournalsLoad' /\ net' \in [disk : Docs, mem : Docs]
  BY <1>1, NotWrittenLoads
<1>8. PreparedInOrder' /\ ReplacedInOrder'
  BY <1>1, <1>3 DEF PreparedInOrder, ReplacedInOrder, RefreshPcs
<1>9. ReleasedIsGone' /\ RecordsAreOurs' /\ ConnectedIsKnown' /\ NetworkHasBearer'
  BY <1>1, <1>3, SteppedOn DEF SetupPcs, ReleasePcs
<1> QED
  BY <1>1, <1>3, <1>6, <1>7, <1>8, <1>9, PlaneInv

\* A new network is of the device that is there.
LEMMA AcquireKeeps ==
  ASSUME PlaneAssumption, DataPlaneInv, Acquire
  PROVE  DataPlaneInv'
<1> USE DEF DataPlaneInv
<1>1. /\ dp.pc = "acquire" /\ (Dynamic(dp.method) <=> dp.prep # "none")
      /\ IF dp.journaled THEN net.mem.pending # None /\ dp.prep = "ours"
         ELSE net.mem.pending = None
      /\ UNCHANGED <<mm, knownEpoch, owned, net, kernel, host, runtime, op, orphans>>
      /\ dp \in PlaneCalls /\ runtime \in {None} \cup Runtimes
      /\ host.index \in Nat /\ host.index > 0
  BY DEF Acquire, PlaneTypeOK, PreparedInOrder, files
<1>2. \/ /\ dp' \in PlaneCalls /\ dp'.pc = "rollback" /\ dp'.prep = dp.prep
         /\ dp'.journaled = dp.journaled /\ dp'.method = dp.method
      \/ /\ dp' \in PlaneCalls /\ dp'.pc = "replace" /\ dp'.prep = dp.prep
         /\ dp'.journaled = dp.journaled /\ dp'.method = dp.method
         /\ dp'.desired \in Nets /\ dp'.desired.method = dp.method
         /\ dp'.desired.index = host.index /\ dp'.desired.prep = dp.prep
  <2>1. CASE Step("rollback")
    BY <1>1, <2>1, StepIs DEF PlanePcs, SetupPcs
  <2>2. ASSUME NEW ip \in IF Dynamic(dp.method) THEN IPs ELSE {dp.ip},
               dp' = [dp EXCEPT !.pc = "replace", !.ip = ip, !.desired =
                        [method |-> dp.method, ip |-> ip, index |-> host.index,
                         prep |-> dp.prep]]
        PROVE  /\ dp' \in PlaneCalls /\ dp'.pc = "replace" /\ dp'.prep = dp.prep
               /\ dp'.journaled = dp.journaled /\ dp'.method = dp.method
               /\ dp'.desired \in Nets /\ dp'.desired.method = dp.method
               /\ dp'.desired.index = host.index /\ dp'.desired.prep = dp.prep
    <3> DEFINE new == [method |-> dp.method, ip |-> ip, index |-> host.index,
                       prep |-> dp.prep]
               f == [dp EXCEPT !.pc = "replace"]
               g == [f EXCEPT !.ip = ip]
    <3>1. ip \in IPs \cup {None}
      BY <1>1 DEF PlaneCalls
    <3>2. new \in Nets /\ new.method = dp.method /\ new.index = host.index /\ new.prep = dp.prep
      BY <1>1, <3>1 DEF Nets, PlaneCalls
    <3>3. dp' = [g EXCEPT !.desired = new]
      BY <1>1, <2>2 DEF PlaneCalls
    <3> HIDE DEF new
    <3>4. f \in PlaneCalls /\ f.pc = "replace" /\ f.prep = dp.prep
          /\ f.journaled = dp.journaled /\ f.method = dp.method
      BY <1>1 DEF PlaneCalls, PlanePcs, SetupPcs
    <3> HIDE DEF f
    <3>5. g \in PlaneCalls /\ g.pc = "replace" /\ g.prep = dp.prep
          /\ g.journaled = dp.journaled /\ g.method = dp.method
      BY <3>1, <3>4 DEF PlaneCalls
    <3> HIDE DEF g
    <3>6. dp' \in PlaneCalls /\ dp'.pc = "replace" /\ dp'.prep = dp.prep
          /\ dp'.journaled = dp.journaled /\ dp'.method = dp.method /\ dp'.desired = new
      BY <3>2, <3>3, <3>5 DEF PlaneCalls
    <3> QED
      BY <3>2, <3>6
  <2> QED
    BY <2>1, <2>2 DEF Acquire
<1>3. KernelIsKnown'
  BY <1>1, <1>2, KernelOf, KernelStays
<1>4. JournalsLoad' /\ net' \in [disk : Docs, mem : Docs]
  BY <1>1, NotWrittenLoads
<1>5. PreparedInOrder'
  BY <1>1, <1>2 DEF PreparedInOrder
<1>6. GoodDoc(net.mem)
  BY JournalIsGood
<1>7. ReplacedInOrder'
  BY <1>1, <1>2, <1>6
  DEF ReplacedInOrder, RefreshPcs, LoadableApplied, GoodDoc, PlaneAssumption
<1>8. ReleasedIsGone' /\ RecordsAreOurs' /\ ConnectedIsKnown' /\ NetworkHasBearer'
  BY <1>1, <1>2, SteppedOn DEF SetupPcs, ReleasePcs
<1> QED
  BY <1>1, <1>2, <1>3, <1>4, <1>5, <1>7, <1>8, PlaneInv

\* What the new network does not have goes first.
LEMMA ReplaceKeeps ==
  ASSUME PlaneAssumption, DataPlaneInv, Replace
  PROVE  DataPlaneInv'
<1> USE DEF DataPlaneInv
<1>1. /\ dp.pc \in {"replace", "refresh"} /\ net.mem.applied # None
      /\ UNCHANGED <<mm, knownEpoch, owned, net, host, runtime, op, orphans>>
      /\ dp \in PlaneCalls /\ runtime \in {None} \cup Runtimes
  BY DEF Replace, PlaneTypeOK, files, Journal
<1>2. /\ kernel' \subseteq kernel
      /\ \/ /\ kernel' \cap Obsolete = {}
            /\ \/ dp.pc = "replace" /\ Step("apply")
               \/ dp.pc = "refresh" /\ Step("reapply")
         \/ dp.pc = "replace" /\ Step("rollback")
         \/ dp.pc = "refresh" /\ dp' = NoCall
  BY <1>1 DEF Replace, Removed, PartlyRemoved
<1>3. /\ dp' \in PlaneCalls
      /\ \/ dp.pc = "replace" /\ dp'.pc = "apply" /\ kernel' \cap Obsolete = {}
         \/ dp.pc = "refresh" /\ dp'.pc = "reapply" /\ kernel' \cap Obsolete = {}
         \/ dp.pc = "replace" /\ dp'.pc = "rollback"
         \/ dp.pc = "refresh" /\ dp'.pc = "idle"
      /\ dp'.pc # "idle" =>
           /\ dp'.prep = dp.prep /\ dp'.journaled = dp.journaled
           /\ dp'.method = dp.method /\ dp'.desired = dp.desired
  BY <1>1, <1>2, StepIs, NoCallIs DEF PlanePcs, SetupPcs, RefreshPcs
<1>4. KernelIsKnown'
  BY <1>1, <1>2, <1>3, KernelOf, KernelStays
<1>5. JournalsLoad' /\ net' \in [disk : Docs, mem : Docs]
  BY <1>1, NotWrittenLoads
<1>6. PreparedInOrder'
  BY <1>1, <1>3 DEF PreparedInOrder
<1>7. dp'.pc # "idle" => Obsolete' = Obsolete
  BY <1>1, <1>3 DEF Obsolete, Values, Journal
<1>8. ReplacedInOrder'
  BY <1>1, <1>2, <1>3, <1>7 DEF ReplacedInOrder, RefreshPcs, LoadableApplied
<1>9. ReleasedIsGone' /\ RecordsAreOurs' /\ ConnectedIsKnown' /\ NetworkHasBearer'
  BY <1>1, <1>3, SteppedOn DEF SetupPcs, ReleasePcs, RefreshPcs
<1> QED
  BY <1>1, <1>3, <1>4, <1>5, <1>6, <1>8, <1>9, PlaneInv

\* Without a network there is nothing to replace.
LEMMA NothingToReplaceKeeps ==
  ASSUME PlaneAssumption, DataPlaneInv, NothingToReplace
  PROVE  DataPlaneInv'
<1> USE DEF DataPlaneInv
<1>1. /\ dp.pc = "replace" /\ net.mem.applied = None
      /\ UNCHANGED <<mm, knownEpoch, owned, net, kernel, host, runtime, op, orphans>>
      /\ dp \in PlaneCalls /\ runtime \in {None} \cup Runtimes /\ Step("apply")
  BY DEF NothingToReplace, PlaneTypeOK, files, Journal
<1>2. /\ dp' \in PlaneCalls /\ dp'.pc = "apply"
      /\ dp'.prep = dp.prep /\ dp'.journaled = dp.journaled
      /\ dp'.method = dp.method /\ dp'.desired = dp.desired
  BY <1>1, StepIs DEF PlanePcs, SetupPcs
<1>3. KernelIsKnown'
  BY <1>1, <1>2, KernelOf, KernelStays
<1>4. JournalsLoad' /\ net' \in [disk : Docs, mem : Docs]
  BY <1>1, NotWrittenLoads
<1>5. PreparedInOrder' /\ ReplacedInOrder'
  BY <1>1, <1>2
  DEF PreparedInOrder, ReplacedInOrder, RefreshPcs, LoadableApplied
<1>6. ReleasedIsGone' /\ RecordsAreOurs' /\ ConnectedIsKnown' /\ NetworkHasBearer'
  BY <1>1, <1>2, SteppedOn DEF SetupPcs, ReleasePcs
<1> QED
  BY <1>1, <1>2, <1>3, <1>4, <1>5, <1>6, PlaneInv

\* What a new network has is not obsolete.
LEMMA DesiredIsKept ==
  Items(dp.desired) \cap Obsolete = {}
<1>1. \A v \in Values(net.mem.applied) \cup Values(dp.desired) : v = <<v[1], v[2]>>
  BY DEF Values
<1> SUFFICES ASSUME NEW i \in Items(dp.desired), i \in Obsolete
             PROVE  FALSE
  OBVIOUS
<1>2. PICK v \in Values(dp.desired) : i = Placed(v, dp.desired.index)
  BY DEF Items
<1>3. PICK w \in Values(net.mem.applied) \ Values(dp.desired) :
        i = Placed(w, net.mem.applied.index)
  BY DEF Obsolete, Journal
<1>4. i[1] = v[1] /\ i[2] = v[2]
  BY <1>2 DEF Placed
<1>5. i[1] = w[1] /\ i[2] = w[2]
  BY <1>3 DEF Placed
<1>6. v = w
  BY <1>1, <1>2, <1>3, <1>4, <1>5
<1> QED
  BY <1>2, <1>3, <1>6

\* The new network is added, or what of it stays is an orphan.
LEMMA ApplyStateKeeps ==
  ASSUME PlaneAssumption, DataPlaneInv, ApplyState
  PROVE  DataPlaneInv'
<1> USE DEF DataPlaneInv
<1>1. /\ dp.pc \in {"apply", "reapply"}
      /\ UNCHANGED <<mm, knownEpoch, owned, net, host, runtime, op>>
      /\ dp \in PlaneCalls /\ runtime \in {None} \cup Runtimes
  BY DEF ApplyState, PlaneTypeOK, files
<1>2. \/ /\ dp.desired.index = host.index
         /\ \/ dp.pc = "apply" /\ Step("persist")
            \/ dp.pc = "reapply" /\ Step("repersist")
         /\ kernel' = kernel \cup Items(dp.desired) /\ orphans' = orphans
      \/ /\ \/ dp.pc = "apply" /\ Step("rollback")
            \/ dp.pc = "reapply" /\ dp' = NoCall
         /\ \E left \in SUBSET Items(dp.desired) :
              /\ left = {} \/ dp.desired.index = host.index
              /\ orphans' = orphans \cup left /\ Restored(kernel \cup left)
  BY <1>1 DEF ApplyState, MayApply
<1>3. /\ dp' \in PlaneCalls
      /\ \/ dp.pc = "apply" /\ dp'.pc \in {"persist", "rollback"}
         \/ dp.pc = "reapply" /\ dp'.pc \in {"repersist", "idle"}
      /\ dp'.pc # "idle" =>
           /\ dp'.prep = dp.prep /\ dp'.journaled = dp.journaled
           /\ dp'.method = dp.method /\ dp'.desired = dp.desired
      /\ dp'.pc \in {"persist", "repersist"} =>
           /\ dp.desired.index = host.index
           /\ kernel' = kernel \cup Items(dp.desired) /\ orphans' = orphans
      /\ dp'.pc \notin {"persist", "repersist"} =>
           \E left \in SUBSET Items(dp.desired) :
             /\ left = {} \/ dp.desired.index = host.index
             /\ orphans' = orphans \cup left /\ Restored(kernel \cup left)
  <2>1. \A to \in {"persist", "rollback", "repersist"} : Step(to) =>
          /\ dp' \in PlaneCalls /\ dp'.pc = to
          /\ dp'.prep = dp.prep /\ dp'.journaled = dp.journaled
          /\ dp'.method = dp.method /\ dp'.desired = dp.desired
    BY <1>1, StepIs DEF PlanePcs, SetupPcs, RefreshPcs
  <2>2. CASE /\ dp.desired.index = host.index
             /\ \/ dp.pc = "apply" /\ Step("persist")
                \/ dp.pc = "reapply" /\ Step("repersist")
             /\ kernel' = kernel \cup Items(dp.desired) /\ orphans' = orphans
    BY <2>1, <2>2
  <2>3. CASE /\ \/ dp.pc = "apply" /\ Step("rollback")
                \/ dp.pc = "reapply" /\ dp' = NoCall
             /\ \E left \in SUBSET Items(dp.desired) :
                  /\ left = {} \/ dp.desired.index = host.index
                  /\ orphans' = orphans \cup left /\ Restored(kernel \cup left)
    BY <2>1, <2>3, NoCallIs
  <2> QED
    BY <1>2, <2>2, <2>3
<1>4. /\ kernel \subseteq Items(net.mem.applied) \cup Items(net.mem.pending) \cup orphans
      /\ \A i \in kernel : OnDevice(i) => i[3] = host.index
  BY <1>1, KernelOf
<1>5. \A i \in Items(dp.desired) : OnDevice(i) => i[3] = dp.desired.index
  BY ItemsOf DEF OnDevice
<1>6. /\ Present(net.mem.applied) \subseteq Items(net.mem.applied)
      /\ \A i \in Present(net.mem.applied) : OnDevice(i) => i[3] = host.index
  BY <1>4, PresentOf
<1>7. KernelIsKnown'
  <2>1. CASE dp'.pc \in {"persist", "repersist"}
    <3>1. Recorded(net.mem)' = Recorded(net.mem)
          /\ Items(dp'.desired) = Items(dp.desired)
      BY <1>1, <1>3, <2>1 DEF Recorded, Items, Values
    <3>2. Items(dp.desired)' = Items(dp'.desired)
      BY DEF Items, Values
    <3> QED
      BY <1>1, <1>3, <1>4, <1>5, <2>1, <3>1, <3>2 DEF KernelIsKnown, Recorded
  <2>2. CASE dp'.pc \notin {"persist", "repersist"}
    <3>1. PICK left \in SUBSET Items(dp.desired) :
            /\ left = {} \/ dp.desired.index = host.index
            /\ orphans' = orphans \cup left /\ Restored(kernel \cup left)
      BY <1>3, <2>2
    <3>2. PICK back \in SUBSET Present(net.mem.applied) : kernel' = (kernel \cup left) \cup back
      BY <3>1 DEF Restored, Journal
    <3>3. kernel' \subseteq Items(net'.mem.applied) \cup Items(net'.mem.pending) \cup orphans'
      BY <1>1, <1>4, <1>6, <3>1, <3>2
    <3>4. \A i \in kernel' : OnDevice(i) => i[3] = host.index
      BY <1>4, <1>5, <1>6, <3>1, <3>2
    <3> QED
      BY <1>1, <2>2, <3>3, <3>4, KernelStays
  <2> QED
    BY <2>1, <2>2
<1>8. JournalsLoad' /\ net' \in [disk : Docs, mem : Docs]
  BY <1>1, NotWrittenLoads
<1>9. PreparedInOrder'
  BY <1>1, <1>3 DEF PreparedInOrder
<1>10. dp'.pc # "idle" => Obsolete' = Obsolete
  BY <1>1, <1>3 DEF Obsolete, Values, Journal
<1>11. ReplacedInOrder'
  BY <1>1, <1>3, <1>10, DesiredIsKept
  DEF ReplacedInOrder, RefreshPcs, LoadableApplied
<1>12. ReleasedIsGone' /\ RecordsAreOurs' /\ ConnectedIsKnown' /\ NetworkHasBearer'
  BY <1>1, <1>3, SteppedOn DEF SetupPcs, ReleasePcs, RefreshPcs
<1> QED
  BY <1>1, <1>3, <1>7, <1>8, <1>9, <1>11, <1>12, PlaneInv

\* What is still in the kernel of the network that is replaced, or of what a
\* setup prepared, the new network has too.
LEMMA ReplacedIsKept ==
  ASSUME PlaneAssumption, DataPlaneInv, dp.pc \in {"persist", "repersist"}
  PROVE  /\ dp.desired \in Nets
         /\ kernel \cap Items(net.mem.applied) \subseteq Items(dp.desired)
         /\ dp.pc = "persist" =>
              kernel \cap Items(net.mem.pending) \subseteq Items(dp.desired)
<1> USE DEF DataPlaneInv
<1> DEFINE n == net.mem.applied
           p == net.mem.pending
           d == dp.desired
<1>1. /\ d # None /\ d \in {None} \cup Nets /\ n \in {None} \cup Nets /\ p \in {None} \cup Nets
      /\ d.index <= host.index
      /\ n # None => n.index <= d.index /\ kernel \cap Obsolete = {}
      /\ dp.journaled => p.index <= d.index
      /\ host.index \in Nat
  BY JournalIsGood
  DEF ReplacedInOrder, RefreshPcs, PlaneTypeOK, PlaneCalls, GoodDoc, Docs
<1>2. d.index \in Nat /\ (n # None => n.index \in Nat) /\ (p # None => p.index \in Nat)
  BY <1>1 DEF Nets
<1>3. \A i \in kernel : OnDevice(i) => i[3] = host.index
  BY DEF KernelIsKnown
<1>4. kernel \cap Items(n) \subseteq Items(d)
  <2> SUFFICES ASSUME NEW i \in kernel, i \in Items(n)
               PROVE  i \in Items(d)
    OBVIOUS
  <2>1. PICK v \in Values(n) : i = Placed(v, n.index)
    BY DEF Items
  <2>2. n # None
    BY <2>1 DEF Values
  <2>3. v \in Values(d)
    BY <1>1, <2>1, <2>2 DEF Obsolete, Journal
  <2>4. OnDevice(i) => i[3] = n.index /\ i[3] = host.index
    BY <1>3, <2>1 DEF OnDevice, Placed
  <2>5. OnDevice(i) => n.index = d.index
    BY <1>1, <1>2, <2>2, <2>4
  <2>6. i = Placed(v, d.index)
    BY <2>1, <2>5 DEF OnDevice, Placed
  <2> QED
    BY <2>3, <2>6 DEF Items
<1>5. ASSUME dp.pc = "persist"
      PROVE  kernel \cap Items(p) \subseteq Items(d)
  <2> SUFFICES ASSUME NEW i \in kernel, i \in Items(p)
               PROVE  i \in Items(d)
    OBVIOUS
  <2>1. p # None
    BY DEF Items, Values
  <2>2. dp.journaled /\ dp.prep = "ours" /\ d.prep = "ours"
    BY <1>5, <2>1 DEF PreparedInOrder, ReplacedInOrder
  <2>3. p.ip = None /\ p.prep = "ours"
    BY <2>1, JournalIsGood DEF GoodDoc, Loadable, LoadablePending
  <2>4. i = <<"setting", None, p.index>>
    BY <2>1, <2>3, ItemsOf
  <2>5. p.index = host.index
    BY <1>3, <2>4 DEF OnDevice
  <2>6. p.index = d.index
    BY <1>1, <1>2, <2>1, <2>2, <2>5
  <2> QED
    BY <1>1, <2>2, <2>4, <2>6, ItemsOf
<1> QED
  BY <1>1, <1>4, <1>5

\* What the lease of a network just set up, and a lease refreshed, are.
LEMMA LeasesAre ==
  ASSUME dp \in PlaneCalls
  PROVE  Leases \in Runtimes
<1> DEFINE yes == TRUE
           no == FALSE
<1>1. yes \in BOOLEAN /\ no \in BOOLEAN
  OBVIOUS
<1>2. Leases = [method |-> dp.method, ip |-> dp.ip, next |-> None, live |-> yes,
                renewed |-> no]
  BY DEF Leases
<1> HIDE DEF yes, no
<1> QED
  BY <1>1, <1>2 DEF Runtimes, PlaneCalls

\* The leases after a refresh.
LEMMA RefreshedIs ==
  ASSUME runtime \in Runtimes, dp \in PlaneCalls
  PROVE  [runtime EXCEPT !.next = None, !.ip = dp.ip, !.renewed = runtime.ip = dp.ip]
           \in Runtimes
<1> DEFINE same == runtime.ip = dp.ip
           f == [runtime EXCEPT !.next = None]
           g == [f EXCEPT !.ip = dp.ip]
<1>1. same \in BOOLEAN
  OBVIOUS
<1>2. [runtime EXCEPT !.next = None, !.ip = dp.ip, !.renewed = runtime.ip = dp.ip]
        = [g EXCEPT !.renewed = same]
  BY DEF Runtimes
<1> HIDE DEF same
<1>3. f \in Runtimes
  BY DEF Runtimes
<1> HIDE DEF f
<1>4. g \in Runtimes
  BY <1>3 DEF Runtimes, PlaneCalls
<1> HIDE DEF g
<1>5. [g EXCEPT !.renewed = same] \in Runtimes
  BY <1>1, <1>4 DEF Runtimes
<1> QED
  BY <1>2, <1>5

\* The new network is recorded, or what of it cannot be taken back is an orphan.
LEMMA PersistKeeps ==
  ASSUME PlaneAssumption, DataPlaneInv, Persist
  PROVE  DataPlaneInv'
<1> USE DEF DataPlaneInv
<1> DEFINE doc == [applied |-> dp.desired,
                   pending |-> IF dp.pc = "persist" THEN None ELSE net.mem.pending]
<1>1. /\ dp.pc \in {"persist", "repersist"}
      /\ UNCHANGED <<mm, knownEpoch, owned, host, op>>
      /\ dp \in PlaneCalls /\ runtime \in {None} \cup Runtimes
      /\ dp.pc = "repersist" => runtime # None /\ net.mem.applied # None
  BY DEF Persist, PlaneTypeOK, ReplacedInOrder, RefreshPcs
<1>2. \/ /\ Saved(doc) /\ UNCHANGED <<kernel, orphans>>
         /\ \/ /\ dp.pc = "persist" /\ Return(TRUE)
               /\ runtime' = IF Dynamic(dp.method) THEN Leases ELSE None
            \/ /\ dp.pc = "repersist" /\ dp' = NoCall
               /\ runtime' = [runtime EXCEPT !.next = None, !.ip = dp.ip,
                                !.renewed = runtime.ip = dp.ip]
      \/ /\ NotSaved(doc) /\ runtime' = runtime
         /\ \/ dp.pc = "persist" /\ Step("rollback")
            \/ dp.pc = "repersist" /\ dp' = NoCall
         /\ \E left \in SUBSET (kernel \cap Items(dp.desired)) :
              /\ orphans' = orphans \cup (left \ Recorded(net.mem))
              /\ Restored((kernel \ Items(dp.desired)) \cup left)
  BY <1>1 DEF Persist, Journal
<1>3. /\ dp.desired \in Nets
      /\ kernel \cap Items(net.mem.applied) \subseteq Items(dp.desired)
      /\ dp.pc = "persist" =>
           kernel \cap Items(net.mem.pending) \subseteq Items(dp.desired)
  BY <1>1, ReplacedIsKept
<1>4. /\ doc.applied = dp.desired
      /\ doc.pending = IF dp.pc = "persist" THEN None ELSE net.mem.pending
  OBVIOUS
<1>5. GoodDoc(doc)
  <2>1. GoodDoc(net.mem)
    BY JournalIsGood
  <2>2. LoadableApplied(dp.desired) /\ dp.desired.index <= host.index
    BY <1>1 DEF ReplacedInOrder, RefreshPcs
  <2> QED
    BY <1>3, <2>1, <2>2 DEF GoodDoc, Docs, Loadable, LoadablePending
<1> HIDE DEF doc
<1>6. /\ kernel \subseteq Items(net.mem.applied) \cup Items(net.mem.pending) \cup orphans
           \cup Items(dp.desired)
      /\ \A i \in kernel : OnDevice(i) => i[3] = host.index
  BY <1>1 DEF KernelIsKnown, Recorded
<1>7. /\ Present(net.mem.applied) \subseteq Items(net.mem.applied)
      /\ \A i \in Present(net.mem.applied) : OnDevice(i) => i[3] = host.index
  BY <1>6, PresentOf
<1>8. CASE /\ Saved(doc) /\ UNCHANGED <<kernel, orphans>>
           /\ \/ /\ dp.pc = "persist" /\ Return(TRUE)
                 /\ runtime' = IF Dynamic(dp.method) THEN Leases ELSE None
              \/ /\ dp.pc = "repersist" /\ dp' = NoCall
                 /\ runtime' = [runtime EXCEPT !.next = None, !.ip = dp.ip,
                                  !.renewed = runtime.ip = dp.ip]
  <2>1. /\ JournalsLoad' /\ net' \in [disk : Docs, mem : Docs] /\ net'.mem = doc
    BY <1>1, <1>5, <1>8, WrittenLoads
  <2>2. /\ dp' \in PlaneCalls
        /\ \/ dp.pc = "persist" /\ dp'.pc = "done" /\ dp'.ok
           \/ dp.pc = "repersist" /\ dp'.pc = "idle"
    BY <1>8, ReturnIs, NoCallIs
  <2>3. runtime' \in {None} \cup Runtimes
    BY <1>1, <1>8, LeasesAre, RefreshedIs
  <2>4. KernelIsKnown'
    <3>1. kernel' \subseteq Items(net'.mem.applied) \cup Items(net'.mem.pending) \cup orphans'
      BY <1>1, <1>3, <1>4, <1>6, <1>8, <2>1
    <3> QED
      BY <1>1, <1>6, <1>8, <2>2, <3>1, KernelStays
  <2>5. PreparedInOrder' /\ ReplacedInOrder'
    BY <2>2 DEF PreparedInOrder, ReplacedInOrder, RefreshPcs
  <2>6. dp.pc = "repersist" => net.mem # NoNet
    BY <1>1 DEF NoNet
  <2>7. ReleasedIsGone' /\ RecordsAreOurs' /\ ConnectedIsKnown' /\ NetworkHasBearer'
    BY <1>1, <2>2, <2>6, SteppedOn DEF SetupPcs, ReleasePcs, RefreshPcs
  <2> QED
    BY <1>1, <2>1, <2>2, <2>3, <2>4, <2>5, <2>7, PlaneInv
<1>9. ASSUME NotSaved(doc), runtime' = runtime,
             \/ dp.pc = "persist" /\ Step("rollback")
             \/ dp.pc = "repersist" /\ dp' = NoCall,
             NEW left \in SUBSET (kernel \cap Items(dp.desired)),
             orphans' = orphans \cup (left \ Recorded(net.mem)),
             Restored((kernel \ Items(dp.desired)) \cup left)
      PROVE  DataPlaneInv'
  <2>1. /\ JournalsLoad' /\ net' \in [disk : Docs, mem : Docs] /\ net'.mem = net.mem
    BY <1>1, <1>5, <1>9, WrittenLoads
  <2>2. /\ dp' \in PlaneCalls
        /\ \/ /\ dp.pc = "persist" /\ dp'.pc = "rollback"
              /\ dp'.prep = dp.prep /\ dp'.journaled = dp.journaled
           \/ dp.pc = "repersist" /\ dp'.pc = "idle"
    BY <1>1, <1>9, StepIs, NoCallIs DEF PlanePcs, SetupPcs
  <2>3. PICK back \in SUBSET Present(net.mem.applied) :
          kernel' = ((kernel \ Items(dp.desired)) \cup left) \cup back
    BY <1>9 DEF Restored, Journal
  <2>4. KernelIsKnown'
    <3>1. Recorded(net.mem) = Items(net.mem.applied) \cup Items(net.mem.pending)
      BY DEF Recorded
    <3>2. kernel' \subseteq Items(net'.mem.applied) \cup Items(net'.mem.pending) \cup orphans'
      BY <1>6, <1>7, <1>9, <2>1, <2>3, <3>1
    <3>3. \A i \in kernel' : OnDevice(i) => i[3] = host.index
      BY <1>6, <1>7, <2>3
    <3> QED
      BY <1>1, <2>2, <3>2, <3>3, KernelStays
  <2>5. PreparedInOrder' /\ ReplacedInOrder'
    BY <2>1, <2>2 DEF PreparedInOrder, ReplacedInOrder, RefreshPcs
  <2>6. ReleasedIsGone' /\ RecordsAreOurs' /\ ConnectedIsKnown' /\ NetworkHasBearer'
    BY <1>1, <1>9, <2>1, <2>2, SteppedOn DEF SetupPcs, ReleasePcs, RefreshPcs
  <2> QED
    BY <1>1, <1>9, <2>1, <2>2, <2>4, <2>5, <2>6, PlaneInv
<1> QED
  BY <1>2, <1>8, <1>9

\* A failed setup undoes its preparation; what of it stays is an orphan.
LEMMA RollbackKeeps ==
  ASSUME PlaneAssumption, DataPlaneInv, Rollback
  PROVE  DataPlaneInv'
<1> USE DEF DataPlaneInv
<1> DEFINE items == Present(net.mem.pending)
           doc == [net.mem EXCEPT !.pending = None]
<1>1. /\ dp.pc = "rollback" /\ Return(FALSE)
      /\ UNCHANGED <<mm, knownEpoch, owned, host, runtime, op>>
      /\ dp \in PlaneCalls /\ runtime \in {None} \cup Runtimes
  BY DEF Rollback, PlaneTypeOK
<1>2. dp' \in PlaneCalls /\ dp'.pc = "done"
  BY <1>1, ReturnIs
<1>3. /\ kernel \subseteq Items(net.mem.applied) \cup Items(net.mem.pending) \cup orphans
      /\ \A i \in kernel : OnDevice(i) => i[3] = host.index
  BY <1>1, KernelOf
<1>4. PreparedInOrder' /\ ReplacedInOrder'
  BY <1>2 DEF PreparedInOrder, ReplacedInOrder, RefreshPcs
<1>5. ReleasedIsGone' /\ RecordsAreOurs' /\ ConnectedIsKnown' /\ NetworkHasBearer'
  BY <1>1, <1>2, SteppedOn DEF SetupPcs, ReleasePcs
<1>6. CASE UNCHANGED <<net, kernel, orphans>>
  <2>1. KernelIsKnown'
    BY <1>1, <1>2, <1>3, <1>6, KernelStays
  <2>2. JournalsLoad' /\ net' \in [disk : Docs, mem : Docs]
    BY <1>1, <1>6, NotWrittenLoads
  <2> QED
    BY <1>1, <1>2, <1>4, <1>5, <2>1, <2>2, PlaneInv
<1>7. ASSUME NEW left \in SUBSET (items \cap kernel),
             kernel' = (kernel \ items) \cup left,
             orphans' = orphans \cup (left \ Recorded(doc)),
             Saved(doc) \/ NotSaved(doc)
      PROVE  DataPlaneInv'
  <2>1. GoodDoc(doc) /\ doc.applied = net.mem.applied /\ doc.pending = None
    BY JournalIsGood, ForgottenIsGood
  <2>2. kernel \cap Items(net.mem.pending) \subseteq items
    BY <1>3, PresentOf
  <2>3. Items(None) = {}
    BY DEF Items, Values
  <2>4. Recorded(doc) = Items(net.mem.applied)
    BY <2>1, <2>3 DEF Recorded
  <2> HIDE DEF doc, items
  <2>5. JournalsLoad' /\ net' \in [disk : Docs, mem : Docs]
        /\ (net'.mem = doc \/ net'.mem = net.mem)
    BY <1>1, <1>7, <2>1, WrittenLoads
  <2>6. KernelIsKnown'
    <3>1. kernel' \subseteq Items(net'.mem.applied) \cup Items(net'.mem.pending) \cup orphans'
      BY <1>3, <1>7, <2>1, <2>2, <2>4, <2>5
    <3>2. \A i \in kernel' : OnDevice(i) => i[3] = host.index
      BY <1>3, <1>7
    <3> QED
      BY <1>1, <1>2, <3>1, <3>2, KernelStays
  <2> QED
    BY <1>1, <1>2, <1>4, <1>5, <2>5, <2>6, PlaneInv
<1> QED
  BY <1>6, <1>7 DEF Rollback, Journal

\* A journal without entries is the empty one.
LEMMA EmptyIsNoNet ==
  ASSUME NEW file \in Docs, file.applied = None, file.pending = None
  PROVE  file = NoNet
BY DEF Docs, NoNet

\* A release forgets the network after it has removed it.
LEMMA DropKeeps ==
  ASSUME PlaneAssumption, DataPlaneInv, Drop
  PROVE  DataPlaneInv'
<1> USE DEF DataPlaneInv
<1> DEFINE n == net.mem.applied
           doc == [net.mem EXCEPT !.applied = None]
<1>1. /\ dp.pc = "drop"
      /\ UNCHANGED <<mm, knownEpoch, owned, host, runtime, op, orphans>>
      /\ dp \in PlaneCalls /\ runtime \in {None} \cup Runtimes /\ net.mem \in Docs
      /\ dp.failed \in BOOLEAN
      /\ runtime = None /\ (~dp.failed => net.mem.pending = None)
  BY DEF Drop, PlaneTypeOK, ReleasedIsGone, PlaneCalls
<1>2. Ends => dp' \in PlaneCalls /\ dp'.pc = "done" /\ (dp'.ok => ~dp.failed)
  <2> SUFFICES ASSUME NEW ok \in BOOLEAN, Return(ok /\ ~dp.failed)
               PROVE  dp' \in PlaneCalls /\ dp'.pc = "done" /\ (dp'.ok => ~dp.failed)
    BY DEF Ends
  <2> DEFINE r == ok /\ ~dp.failed
  <2>1. r \in BOOLEAN /\ (r => ~dp.failed) /\ Return(r)
    OBVIOUS
  <2> HIDE DEF r
  <2> QED
    BY <2>1, ReturnIs
<1>3. Return(FALSE) => dp' \in PlaneCalls /\ dp'.pc = "done" /\ ~dp'.ok
  BY ReturnIs
<1>4. \/ n = None /\ Ends /\ net' = net /\ kernel' = kernel
      \/ /\ kernel' \subseteq kernel /\ (net' = net \/ NotSaved(doc)) /\ Return(FALSE)
      \/ kernel' = kernel \ Present(n) /\ Saved(doc) /\ Ends
  BY DEF Drop, Journal, Removed, PartlyRemoved
<1>5. dp' \in PlaneCalls /\ dp'.pc = "done"
  BY <1>2, <1>3, <1>4
<1>6. /\ kernel \subseteq Items(n) \cup Items(net.mem.pending) \cup orphans
      /\ \A i \in kernel : OnDevice(i) => i[3] = host.index
  BY <1>1, KernelOf
<1>7. kernel \cap Items(n) \subseteq Present(n)
  BY <1>6, PresentOf
<1>8. GoodDoc(doc) /\ doc.applied = None /\ doc.pending = net.mem.pending
  BY JournalIsGood, ForgottenIsGood
<1> HIDE DEF doc
<1>9. JournalsLoad' /\ net' \in [disk : Docs, mem : Docs]
      /\ (net'.mem = doc \/ net'.mem = net.mem) /\ (Saved(doc) => net'.mem = doc)
      /\ (NotSaved(doc) \/ net' = net => net'.mem = net.mem)
  BY <1>1, <1>4, <1>8, WrittenLoads, NotWrittenLoads
<1>10. KernelIsKnown'
  <2>1. kernel' \subseteq Items(net'.mem.applied) \cup Items(net'.mem.pending) \cup orphans'
    BY <1>1, <1>4, <1>6, <1>7, <1>8, <1>9
  <2>2. \A i \in kernel' : OnDevice(i) => i[3] = host.index
    BY <1>4, <1>6
  <2> QED
    BY <1>1, <1>5, <2>1, <2>2, KernelStays
<1>11. PreparedInOrder' /\ ReplacedInOrder'
  BY <1>5 DEF PreparedInOrder, ReplacedInOrder, RefreshPcs
<1>12. dp'.ok => net'.mem = NoNet
  BY <1>1, <1>2, <1>3, <1>4, <1>8, <1>9, EmptyIsNoNet DEF GoodDoc
<1>13. net'.mem # NoNet => net.mem # NoNet
  <2>1. net.mem = NoNet => doc = NoNet
    BY <1>8, EmptyIsNoNet DEF GoodDoc, NoNet
  <2> QED
    BY <1>9, <2>1
<1>14. ReleasedIsGone' /\ RecordsAreOurs' /\ ConnectedIsKnown' /\ NetworkHasBearer'
  BY <1>1, <1>5, <1>12, <1>13, SteppedOn DEF SetupPcs, ReleasePcs
<1> QED
  BY <1>1, <1>5, <1>9, <1>10, <1>11, <1>14, PlaneInv

\* A renewed lease asks for its network to be replaced.
LEMMA RefreshLeaseKeeps ==
  ASSUME PlaneAssumption, DataPlaneInv, RefreshLease
  PROVE  DataPlaneInv'
<1> USE DEF DataPlaneInv
<1>1. /\ dp.pc = "idle" /\ runtime # None
      /\ UNCHANGED <<mm, knownEpoch, owned, net, kernel, host, op, orphans>>
      /\ dp \in PlaneCalls /\ runtime \in Runtimes
      /\ host.index \in Nat /\ host.index > 0
  BY DEF RefreshLease, PlaneTypeOK, files
<1>2. JournalsLoad' /\ net' \in [disk : Docs, mem : Docs]
  BY <1>1, NotWrittenLoads
<1>3. ASSUME NEW ip \in IPs, runtime' = [runtime EXCEPT !.next = ip], dp' = dp
      PROVE  DataPlaneInv'
  <2>1. runtime' \in Runtimes
    BY <1>1, <1>3 DEF Runtimes
  <2>2. KernelIsKnown'
    BY <1>1, <1>3, KernelOf, KernelStays
  <2>3. PreparedInOrder' /\ ReplacedInOrder'
    BY <1>1, <1>3 DEF PreparedInOrder, ReplacedInOrder, RefreshPcs
  <2>4. ReleasedIsGone' /\ RecordsAreOurs' /\ ConnectedIsKnown' /\ NetworkHasBearer'
    BY <1>1, <1>3, SteppedOn
  <2> QED
    BY <1>1, <1>2, <1>3, <2>1, <2>2, <2>3, <2>4, PlaneInv
<1>4. ASSUME net.mem.applied # None, runtime' = runtime,
             dp' = [NoCall EXCEPT !.pc = "refresh", !.method = runtime.method,
                      !.ip = runtime.next,
                      !.desired = [net.mem.applied EXCEPT !.ip = runtime.next,
                                     !.index = host.index]]
      PROVE  DataPlaneInv'
  <2> DEFINE k == [net.mem.applied EXCEPT !.ip = runtime.next]
             new == [k EXCEPT !.index = host.index]
             f == [NoCall EXCEPT !.pc = "refresh"]
             g == [f EXCEPT !.method = runtime.method]
             h == [g EXCEPT !.ip = runtime.next]
  <2>1. net.mem.applied \in Nets
    BY <1>4 DEF PlaneTypeOK, Docs
  <2>2. runtime.next \in IPs \cup {None} /\ runtime.method \in Methods \cup {"static", None}
    BY <1>1 DEF Runtimes
  <2>3. NoCall \in PlaneCalls /\ ~NoCall.journaled
    BY NoCallIs
  <2>4. dp' = [h EXCEPT !.desired = new]
    BY <1>4, <2>1, <2>3 DEF PlaneCalls, Nets
  <2>5. /\ k \in Nets /\ k.method = net.mem.applied.method
        /\ k.prep = net.mem.applied.prep
    BY <2>1, <2>2 DEF Nets
  <2> HIDE DEF k
  <2>6. /\ new \in Nets /\ new.method = net.mem.applied.method
        /\ new.prep = net.mem.applied.prep /\ new.index = host.index
    BY <1>1, <2>5 DEF Nets
  <2> HIDE DEF new
  <2>7. f \in PlaneCalls /\ f.pc = "refresh" /\ ~f.journaled
    BY <2>3 DEF PlaneCalls, PlanePcs, RefreshPcs
  <2> HIDE DEF f
  <2>8. g \in PlaneCalls /\ g.pc = "refresh" /\ ~g.journaled
    BY <2>2, <2>7 DEF PlaneCalls
  <2> HIDE DEF g
  <2>9. h \in PlaneCalls /\ h.pc = "refresh" /\ ~h.journaled
    BY <2>2, <2>8 DEF PlaneCalls
  <2> HIDE DEF h
  <2>10. /\ dp' \in PlaneCalls /\ dp'.pc = "refresh" /\ ~dp'.journaled
         /\ dp'.desired = new
    BY <2>4, <2>6, <2>9 DEF PlaneCalls
  <2>11. KernelIsKnown'
    BY <1>1, <2>10, KernelOf, KernelStays
  <2>12. GoodDoc(net.mem)
    BY JournalIsGood
  <2>13. PreparedInOrder'
    BY <2>10 DEF PreparedInOrder
  <2>14. ReplacedInOrder'
    BY <1>1, <1>4, <2>6, <2>10, <2>12
    DEF ReplacedInOrder, RefreshPcs, GoodDoc, Loadable, LoadableApplied,
        PlaneAssumption
  <2>15. ReleasedIsGone' /\ RecordsAreOurs' /\ ConnectedIsKnown' /\ NetworkHasBearer'
    BY <1>1, <1>4, <2>10, SteppedOn DEF RefreshPcs
  <2> QED
    BY <1>1, <1>2, <1>4, <2>10, <2>11, <2>13, <2>14, <2>15, PlaneInv
<1> QED
  BY <1>1, <1>3, <1>4 DEF RefreshLease, Journal

\* A lease that ends takes its network with it.
LEMMA ExpireKeeps ==
  ASSUME PlaneAssumption, DataPlaneInv, Expire
  PROVE  DataPlaneInv'
<1> USE DEF DataPlaneInv
<1> DEFINE n == net.mem.applied
           doc == [net.mem EXCEPT !.applied = None]
           no == FALSE
           dead == [runtime EXCEPT !.live = no]
<1>1. /\ dp.pc = "idle" /\ runtime # None
      /\ UNCHANGED <<mm, knownEpoch, owned, host, op, dp, orphans>>
      /\ dp \in PlaneCalls /\ runtime \in Runtimes
  BY DEF Expire, PlaneTypeOK
<1>2. /\ runtime' \in {None, dead}
      /\ \/ kernel' \subseteq kernel /\ net' = net
         \/ kernel' = kernel \ Present(n) /\ Saved(doc)
         \/ NotSaved(doc) /\ Restored(kernel)
  BY DEF Expire, Journal, Removed, PartlyRemoved
<1>3. dead \in Runtimes
  <2>1. no \in BOOLEAN
    OBVIOUS
  <2> HIDE DEF no
  <2> QED
    BY <1>1, <2>1 DEF Runtimes
<1> HIDE DEF dead
<1>4. /\ kernel \subseteq Items(n) \cup Items(net.mem.pending) \cup orphans
      /\ \A i \in kernel : OnDevice(i) => i[3] = host.index
  BY <1>1, KernelOf
<1>5. /\ kernel \cap Items(n) \subseteq Present(n) /\ Present(n) \subseteq Items(n)
      /\ \A i \in Present(n) : OnDevice(i) => i[3] = host.index
  BY <1>4, PresentOf
<1>6. GoodDoc(doc) /\ doc.applied = None /\ doc.pending = net.mem.pending
  BY JournalIsGood, ForgottenIsGood
<1> HIDE DEF doc
<1>7. JournalsLoad' /\ net' \in [disk : Docs, mem : Docs]
      /\ (net'.mem = doc \/ net'.mem = net.mem) /\ (Saved(doc) => net'.mem = doc)
      /\ (NotSaved(doc) \/ net' = net => net'.mem = net.mem)
  BY <1>1, <1>2, <1>6, WrittenLoads, NotWrittenLoads
<1>8. Restored(kernel) => \E back \in SUBSET Present(n) : kernel' = kernel \cup back
  BY DEF Restored, Journal
<1>9. KernelIsKnown'
  <2>1. kernel' \subseteq Items(net'.mem.applied) \cup Items(net'.mem.pending) \cup orphans'
    BY <1>1, <1>2, <1>4, <1>5, <1>6, <1>7, <1>8
  <2>2. \A i \in kernel' : OnDevice(i) => i[3] = host.index
    BY <1>2, <1>4, <1>5, <1>8
  <2> QED
    BY <1>1, <2>1, <2>2, KernelStays
<1>10. PreparedInOrder' /\ ReplacedInOrder'
  BY <1>1 DEF PreparedInOrder, ReplacedInOrder, RefreshPcs
<1>11. net'.mem # NoNet => net.mem # NoNet
  <2>1. net.mem = NoNet => doc = NoNet
    BY <1>6, EmptyIsNoNet DEF GoodDoc, NoNet
  <2> QED
    BY <1>7, <2>1
<1>12. ReleasedIsGone' /\ RecordsAreOurs' /\ ConnectedIsKnown' /\ NetworkHasBearer'
  BY <1>1, <1>11, SteppedOn
<1> QED
  BY <1>1, <1>2, <1>3, <1>7, <1>9, <1>10, <1>12, PlaneInv

-----------------------------------------------------------------------------
\* What is left to show of a step of ModemManager, the network or the agent's
\* knowledge of it.
LEMMA OutsideInv ==
  ASSUME DataPlaneInv, UNCHANGED <<owned, net, kernel, host, runtime, op, dp, orphans>>,
         mm' \in [epoch : Nat, made : Nat, bearers : SUBSET BearerRecords],
         knownEpoch' \in Nat \ {0}, RecordsAreOurs', ConnectedIsKnown'
  PROVE  DataPlaneInv'
<1> USE DEF DataPlaneInv
<1>1. PlaneTypeOK' /\ ReleasedIsGone' /\ NetworkHasBearer'
  BY DEF PlaneTypeOK, ReleasedIsGone, NetworkHasBearer
<1>2. KernelIsKnown' /\ JournalsLoad' /\ PreparedInOrder' /\ ReplacedInOrder'
  BY QuietKeeps DEF Quiet
<1> QED
  BY <1>1, <1>2

\* Bearers of others and connections that end leave the records alone.
LEMMA OthersKeeps ==
  ASSUME PlaneAssumption, DataPlaneInv, Others
  PROVE  DataPlaneInv'
<1> USE DEF DataPlaneInv
<1>1. /\ UNCHANGED <<knownEpoch, owned, net, kernel, host, runtime, op, dp, orphans>>
      /\ knownEpoch \in Nat \ {0} /\ op \in BearerOps
      /\ mm \in [epoch : Nat, made : Nat, bearers : SUBSET BearerRecords]
  BY DEF Others, PlaneTypeOK, files
<1>2. ASSUME NEW ip \in IPs,
             mm' = [mm EXCEPT !.made = @ + 1, !.bearers = @ \cup
               {[id |-> mm.made + 1, ours |-> FALSE, connected |-> TRUE,
                 method |-> "static", ip |-> ip]}]
      PROVE  DataPlaneInv'
  <2> DEFINE no == FALSE
             yes == TRUE
             new == [id |-> mm.made + 1, ours |-> no, connected |-> yes,
                     method |-> "static", ip |-> ip]
             f == [mm EXCEPT !.made = mm.made + 1]
  <2>1. no \in BOOLEAN /\ ~no /\ yes \in BOOLEAN
    OBVIOUS
  <2>2. mm' = [f EXCEPT !.bearers = mm.bearers \cup {new}]
    BY <1>1, <1>2
  <2> HIDE DEF no, yes
  <2>3. new \in BearerRecords /\ new.id = mm.made + 1 /\ ~new.ours
    BY <1>1, <2>1 DEF BearerRecords
  <2> HIDE DEF new
  <2>4. /\ f \in [epoch : Nat, made : Nat, bearers : SUBSET BearerRecords]
        /\ f.epoch = mm.epoch /\ f.made = mm.made + 1
    BY <1>1
  <2> HIDE DEF f
  <2>5. mm.bearers \cup {new} \in SUBSET BearerRecords
    BY <1>1, <2>3
  <2>6. /\ mm' \in [epoch : Nat, made : Nat, bearers : SUBSET BearerRecords]
        /\ mm'.epoch = mm.epoch /\ mm'.made = mm.made + 1 /\ mm'.bearers = mm.bearers \cup {new}
    BY <2>2, <2>4, <2>5
  <2>7. \A b \in mm.bearers : b.id \in Nat /\ b.id <= mm.made
    BY <1>1 DEF RecordsAreOurs, BearerRecords
  <2>8. RecordsAreOurs'
    <3>1. \A b \in mm'.bearers : b.id <= mm'.made
      BY <1>1, <2>3, <2>6, <2>7
    <3>2. \A r \in {owned.disk, owned.mem} :
            r # None =>
              /\ r.epoch <= mm.epoch
              /\ r.epoch = mm.epoch =>
                   r.id <= mm.made + 1 /\ \A b \in mm'.bearers : b.id = r.id => b.ours
      BY <1>1, <2>3, <2>6 DEF RecordsAreOurs, PlaneTypeOK, OwnRecords, Bearer
    <3>3. op.pc \in {"put", "connect"} /\ op.epoch = mm.epoch =>
            op.id <= mm.made + 1 /\ \A b \in mm'.bearers : b.id = op.id => b.ours
      BY <1>1, <2>3, <2>6 DEF RecordsAreOurs, Bearer, BearerOps
    <3>4. \A b \in mm'.bearers : b.ours =>
            knownEpoch = mm.epoch /\ (op.pc \notin {"idle", "off"} => op.epoch = mm.epoch)
      BY <2>3, <2>6 DEF RecordsAreOurs
    <3>5. knownEpoch <= mm.epoch /\ op.epoch <= knownEpoch
      BY DEF RecordsAreOurs
    <3> QED
      BY <1>1, <2>6, <3>1, <3>2, <3>3, <3>4, <3>5 DEF RecordsAreOurs, Bearer
  <2>9. ConnectedIsKnown'
    BY <1>1, <2>3, <2>6 DEF ConnectedIsKnown
  <2> QED
    BY <1>1, <2>6, <2>8, <2>9, OutsideInv
<1>3. ASSUME NEW b \in mm.bearers,
             SetBearers((mm.bearers \ {b}) \cup {[b EXCEPT !.connected = FALSE]})
      PROVE  DataPlaneInv'
  <2> DEFINE no == FALSE
             cut == [b EXCEPT !.connected = no]
  <2>1. no \in BOOLEAN /\ ~no
    OBVIOUS
  <2>2. mm' = [mm EXCEPT !.bearers = (mm.bearers \ {b}) \cup {cut}]
    BY <1>3 DEF SetBearers
  <2> HIDE DEF no
  <2>3. cut \in BearerRecords /\ cut.id = b.id /\ cut.ours = b.ours /\ ~cut.connected
    BY <1>1, <2>1 DEF BearerRecords
  <2> HIDE DEF cut
  <2>4. Fewer
    BY <1>1, <2>2, <2>3 DEF Fewer
  <2>5. RecordsAreOurs' /\ ConnectedIsKnown'
    BY <1>1, <2>4, FewerRecords DEF ConnectedIsKnown, Fewer
  <2> QED
    BY <1>1, <2>4, <2>5, OutsideInv DEF Fewer
<1> QED
  BY <1>2, <1>3 DEF Others

\* A restart of ModemManager makes every record one of the past.
LEMMA ModemManagerRestartsKeeps ==
  ASSUME PlaneAssumption, DataPlaneInv, ModemManagerRestarts
  PROVE  DataPlaneInv'
<1> USE DEF DataPlaneInv
<1>1. /\ UNCHANGED <<knownEpoch, owned, net, kernel, host, runtime, op, dp, orphans>>
      /\ knownEpoch \in Nat \ {0} /\ op \in BearerOps
      /\ mm \in [epoch : Nat, made : Nat, bearers : SUBSET BearerRecords]
      /\ owned \in [disk : {None} \cup OwnRecords, mem : {None} \cup OwnRecords]
  BY DEF ModemManagerRestarts, PlaneTypeOK, files
<1>2. /\ mm' \in [epoch : Nat, made : Nat, bearers : SUBSET BearerRecords]
      /\ mm'.epoch = mm.epoch + 1 /\ mm'.bearers = {}
  BY <1>1 DEF ModemManagerRestarts
<1>3. op.epoch <= knownEpoch /\ knownEpoch <= mm.epoch /\ op.epoch \in Nat /\ mm.epoch \in Nat
  BY <1>1 DEF RecordsAreOurs, BearerOps
<1>4. \A r \in {owned.disk, owned.mem} : r # None => r.epoch \in Nat /\ r.epoch <= mm.epoch
  BY <1>1 DEF RecordsAreOurs, OwnRecords
<1>5. RecordsAreOurs'
  BY <1>1, <1>2, <1>3, <1>4 DEF RecordsAreOurs
<1>6. ConnectedIsKnown'
  BY <1>1, <1>2, <1>3 DEF ConnectedIsKnown
<1> QED
  BY <1>1, <1>2, <1>5, <1>6, OutsideInv

\* The agent learns of a restart when it has no bearer in the new process.
LEMMA LearnEpochKeeps ==
  ASSUME PlaneAssumption, DataPlaneInv, LearnEpoch
  PROVE  DataPlaneInv'
<1> USE DEF DataPlaneInv
<1>1. /\ UNCHANGED <<mm, owned, net, kernel, host, runtime, op, dp, orphans>>
      /\ knownEpoch # mm.epoch /\ knownEpoch' = mm.epoch
      /\ mm \in [epoch : Nat, made : Nat, bearers : SUBSET BearerRecords]
      /\ knownEpoch \in Nat \ {0} /\ op.epoch \in Nat
  BY DEF LearnEpoch, PlaneTypeOK, files, BearerOps
<1>2. RecordsAreOurs'
  BY <1>1 DEF RecordsAreOurs, Bearer
<1>3. ConnectedIsKnown'
  BY <1>1 DEF ConnectedIsKnown
<1>4. knownEpoch' \in Nat \ {0}
  BY <1>1 DEF RecordsAreOurs
<1> QED
  BY <1>1, <1>2, <1>3, <1>4, OutsideInv

\* A new device has nothing of ours.
LEMMA DeviceReplacedKeeps ==
  ASSUME PlaneAssumption, DataPlaneInv, DeviceReplaced
  PROVE  DataPlaneInv'
<1> USE DEF DataPlaneInv
<1>1. /\ UNCHANGED <<knownEpoch, owned, net, runtime, op, dp>>
      /\ mm' = [mm EXCEPT !.bearers = {}] /\ host' = [host EXCEPT !.index = @ + 1]
      /\ kernel' = {i \in kernel : ~OnDevice(i)}
      /\ orphans' = {i \in orphans : ~OnDevice(i)}
      /\ host \in [index : Nat, already : BOOLEAN] /\ op \in BearerOps
      /\ mm \in [epoch : Nat, made : Nat, bearers : SUBSET BearerRecords]
  BY DEF DeviceReplaced, PlaneTypeOK, files, SetBearers
<1>2. /\ host' \in [index : Nat, already : BOOLEAN] /\ host'.index = host.index + 1
      /\ Fewer /\ mm'.bearers = {}
  BY <1>1 DEF Fewer
<1>3. PlaneTypeOK'
  BY <1>1, <1>2 DEF PlaneTypeOK, Fewer
<1>4. RecordsAreOurs'
  BY <1>1, <1>2, FewerRecords
<1>5. ConnectedIsKnown'
  BY <1>1, <1>2 DEF ConnectedIsKnown, Fewer
<1>6. ReleasedIsGone' /\ NetworkHasBearer' /\ PreparedInOrder'
  BY <1>1 DEF ReleasedIsGone, NetworkHasBearer, PreparedInOrder
<1>7. KernelIsKnown'
  BY <1>1 DEF KernelIsKnown, Recorded, Items, Values
<1>8. JournalsLoad'
  <2>1. \A file \in {net.disk, net.mem} :
          /\ Loadable(file)
          /\ file.applied # None => file.applied.index \in Nat /\ file.applied.index <= host.index
          /\ file.pending # None => file.pending.index \in Nat /\ file.pending.index <= host.index
    BY JournalIsGood DEF GoodDoc, Docs, Nets
  <2> QED
    BY <1>1, <1>2, <2>1
    DEF JournalsLoad, Loadable, LoadableApplied, LoadablePending
<1>9. ReplacedInOrder'
  <2>1. Obsolete' = Obsolete
    BY <1>1 DEF Obsolete, Values, Journal
  <2>2. /\ dp.desired # None => dp.desired.index \in Nat
    BY DEF PlaneTypeOK, PlaneCalls, Nets
  <2>3. dp.pc \in {"replace", "apply", "persist"} \cup RefreshPcs =>
          dp.desired # None /\ dp.desired.index <= host'.index
    BY <1>1, <1>2, <2>2 DEF ReplacedInOrder, RefreshPcs
  <2> QED
    BY <1>1, <2>1, <2>3 DEF ReplacedInOrder, RefreshPcs, LoadableApplied
<1> QED
  BY <1>3, <1>4, <1>5, <1>6, <1>7, <1>8, <1>9

\* An address the kernel drops is one less.
LEMMA AddressLapsesKeeps ==
  ASSUME PlaneAssumption, DataPlaneInv, AddressLapses
  PROVE  DataPlaneInv'
<1> USE DEF DataPlaneInv
<1>1. UNCHANGED <<mm, knownEpoch, owned, net, host, runtime, op, dp>>
  BY DEF AddressLapses, files
<1>2. PICK i \in kernel : kernel' = kernel \ {i} /\ orphans' = orphans \ {i}
  BY DEF AddressLapses
<1>3. PlaneTypeOK' /\ RecordsAreOurs' /\ ConnectedIsKnown'
  BY <1>1 DEF PlaneTypeOK, RecordsAreOurs, ConnectedIsKnown, Bearer
<1>4. ReleasedIsGone' /\ NetworkHasBearer' /\ PreparedInOrder'
  BY <1>1 DEF ReleasedIsGone, NetworkHasBearer, PreparedInOrder
<1>5. KernelIsKnown'
  BY <1>1, <1>2 DEF KernelIsKnown, Recorded, Items, Values
<1>6. JournalsLoad'
  BY <1>1, NotWrittenLoads
<1>7. ReplacedInOrder'
  <2>1. Obsolete' = Obsolete
    BY <1>1 DEF Obsolete, Values, Journal
  <2> QED
    BY <1>1, <1>2, <2>1 DEF ReplacedInOrder, RefreshPcs, LoadableApplied
<1> QED
  BY <1>3, <1>4, <1>5, <1>6, <1>7

\* What the file does not say when the agent dies is an orphan.
LEMMA AgentDiesKeeps ==
  ASSUME PlaneAssumption, DataPlaneInv, AgentDies
  PROVE  DataPlaneInv'
<1> USE DEF DataPlaneInv
<1> DEFINE window == IF dp.pc \in {"persist", "repersist"} THEN Items(dp.desired) ELSE {}
<1>1. /\ UNCHANGED <<mm, knownEpoch, kernel, host>> /\ runtime' = None /\ dp' = NoCall
      /\ net' = [net EXCEPT !.mem = net.disk] /\ owned' = [owned EXCEPT !.mem = owned.disk]
      /\ op' = [NoOp EXCEPT !.pc = "off"]
      /\ orphans' = orphans \cup
           ((kernel \cap (Recorded(net.mem) \cup window)) \ Recorded(net.disk))
  BY DEF AgentDies
<1>2. /\ net' \in [disk : Docs, mem : Docs] /\ net'.disk = net.disk /\ net'.mem = net.disk
      /\ owned' \in [disk : {None} \cup OwnRecords, mem : {None} \cup OwnRecords]
      /\ owned'.disk = owned.disk /\ owned'.mem = owned.disk
  BY <1>1 DEF PlaneTypeOK
<1>3. op' \in BearerOps /\ op'.pc = "off" /\ op'.fail = "idle" /\ op'.epoch = 1
  BY <1>1, NoOpIs DEF BearerOps, BearerPcs
<1>4. dp' \in PlaneCalls /\ dp'.pc = "idle"
  BY <1>1, NoCallIs
<1>5. PlaneTypeOK'
  BY <1>1, <1>2, <1>3, <1>4 DEF PlaneTypeOK
<1>6. KernelIsKnown'
  <2>1. /\ kernel \subseteq Recorded(net.mem) \cup orphans \cup window
        /\ \A i \in kernel : OnDevice(i) => i[3] = host.index
    BY DEF KernelIsKnown
  <2>2. Recorded(net.disk) = Items(net.disk.applied) \cup Items(net.disk.pending)
    BY DEF Recorded
  <2> HIDE DEF window
  <2>3. kernel' \subseteq Items(net'.mem.applied) \cup Items(net'.mem.pending) \cup orphans'
    BY <1>1, <1>2, <2>1, <2>2
  <2> QED
    BY <1>1, <1>4, <2>1, <2>3, KernelStays
<1>7. JournalsLoad'
  BY <1>1, <1>2 DEF JournalsLoad, Loadable, LoadableApplied, LoadablePending
<1>8. PreparedInOrder' /\ ReplacedInOrder'
  BY <1>4 DEF PreparedInOrder, ReplacedInOrder, RefreshPcs
<1>9. ReleasedIsGone' /\ NetworkHasBearer'
  BY <1>1, <1>3, <1>4 DEF ReleasedIsGone, NetworkHasBearer
<1>10. RecordsAreOurs'
  <2>1. knownEpoch \in Nat \ {0}
    BY DEF PlaneTypeOK
  <2> QED
    BY <1>1, <1>2, <1>3, <2>1 DEF RecordsAreOurs, Bearer
<1>11. ConnectedIsKnown'
  BY <1>1, <1>2, <1>3 DEF ConnectedIsKnown
<1> QED
  BY <1>5, <1>6, <1>7, <1>8, <1>9, <1>10, <1>11

-----------------------------------------------------------------------------
\* At first there are no bearers and nothing is on the host.
LEMMA DataPlaneInvInit ==
  ASSUME PlaneAssumption, DataPlaneInit
  PROVE  DataPlaneInv
<1>1. /\ mm = [epoch |-> 1, made |-> 0, bearers |-> {}] /\ knownEpoch = 1
      /\ owned = [disk |-> None, mem |-> None] /\ net = [disk |-> NoNet, mem |-> NoNet]
      /\ kernel = {} /\ runtime = None /\ orphans = {}
      /\ host \in [index : {1}, already : BOOLEAN]
  BY DEF DataPlaneInit
<1>2. dp \in PlaneCalls /\ dp.pc = "idle"
  BY NoCallIs DEF DataPlaneInit
<1>3. op \in BearerOps /\ op.pc = "idle" /\ op.fail = "idle" /\ op.epoch = 1
  BY NoOpIs DEF DataPlaneInit
<1>4. NoNet \in Docs /\ NoNet.applied = None /\ NoNet.pending = None
  BY DEF NoNet, Docs
<1>5. host \in [index : Nat, already : BOOLEAN] /\ host.index > 0
  BY <1>1
<1>6. PlaneTypeOK
  BY <1>1, <1>2, <1>3, <1>4, <1>5 DEF PlaneTypeOK
<1>7. KernelIsKnown
  BY <1>1 DEF KernelIsKnown
<1>8. JournalsLoad
  BY <1>1, <1>4 DEF JournalsLoad, Loadable, LoadableApplied, LoadablePending
<1>9. PreparedInOrder /\ ReplacedInOrder
  BY <1>2 DEF PreparedInOrder, ReplacedInOrder, RefreshPcs
<1>10. ReleasedIsGone /\ RecordsAreOurs /\ ConnectedIsKnown /\ NetworkHasBearer
  BY <1>1, <1>2, <1>3
  DEF ReleasedIsGone, RecordsAreOurs, ConnectedIsKnown, NetworkHasBearer
<1> QED
  BY <1>6, <1>7, <1>8, <1>9, <1>10 DEF DataPlaneInv

\* Every step of the data plane keeps the invariant.
LEMMA PlaneKeeps ==
  ASSUME PlaneAssumption, DataPlaneInv, Plane
  PROVE  DataPlaneInv'
BY RecoverPendingKeeps, NothingPendingKeeps, CheckKeeps, ReusePreparationKeeps,
   BuildPreparationKeeps, ApplyPreparationKeeps, AcquireKeeps, ReplaceKeeps,
   NothingToReplaceKeeps, ApplyStateKeeps, PersistKeeps, RollbackKeeps, DropKeeps,
   RefreshLeaseKeeps, ExpireKeeps
DEF Plane

\* Every step of an operation on bearers keeps the invariant.
LEMMA BearersKeep ==
  ASSUME PlaneAssumption, DataPlaneInv, Bearers
  PROVE  DataPlaneInv'
BY StartKeeps, RestoreKeeps, RestoringKeeps, BeginKeeps, InspectKeeps,
   WithdrawKeeps,
   WithdrawnKeeps, DisconnectKeeps, DeleteBearerKeeps, UnownKeeps, CreateKeeps, PutKeeps,
   ConnectKeeps, ConfiguredKeeps
DEF Bearers

\* Every step of the agent, ModemManager and the host keeps the invariant.
LEMMA DataPlaneInvNext ==
  ASSUME PlaneAssumption, DataPlaneInv, [DataPlaneNext]_dpVars
  PROVE  DataPlaneInv'
<1>1. CASE DataPlaneNext
  BY <1>1, PlaneKeeps, BearersKeep, OthersKeeps, ModemManagerRestartsKeeps,
     LearnEpochKeeps,
     DeviceReplacedKeeps, AddressLapsesKeeps, AgentDiesKeeps
  DEF DataPlaneNext
<1>2. CASE UNCHANGED dpVars
  <2>1. RecordsAreOurs' /\ ConnectedIsKnown'
    BY <1>2 DEF dpVars, DataPlaneInv, RecordsAreOurs, ConnectedIsKnown, Bearer
  <2> QED
    BY <1>2, <2>1, OutsideInv DEF dpVars, DataPlaneInv, PlaneTypeOK
<1> QED
  BY <1>1, <1>2

\* What is on the host is recorded, and so is a connected bearer.
LEMMA DataPlaneInvImplies ==
  ASSUME DataPlaneInv
  PROVE  DataPlaneIsOwned
<1>1. KernelIsRecorded
  BY DEF DataPlaneInv, KernelIsKnown, KernelIsRecorded, Known
<1>2. ConnectedIsRecorded
  BY DEF DataPlaneInv, ConnectedIsKnown, ConnectedIsRecorded
<1>3. NetworkHasBearer /\ JournalLoads
  BY DEF DataPlaneInv, JournalsLoad, JournalLoads
<1> QED
  BY <1>1, <1>2, <1>3 DEF DataPlaneIsOwned

\* The agent ends its own bearers, after their network state is gone.
LEMMA DataPlaneInvEnds ==
  ASSUME DataPlaneInv
  PROVE  EndsOwnBearers
<1> SUFFICES ASSUME NEW b \in mm.bearers, Disconnect \/ DeleteBearer,
                    op.epoch = mm.epoch, b \notin mm'.bearers
             PROVE  b.ours /\ net.mem = NoNet
  BY DEF EndsOwnBearers
<1>1. op.pc \in {"disconnect", "delete"}
  BY DEF Disconnect, DeleteBearer
<1>2. net.mem = NoNet /\ owned.mem # None /\ op.id = owned.mem.id
      /\ owned.mem.epoch = mm.epoch
  BY <1>1 DEF DataPlaneInv, ReleasedIsGone, ConnectedIsKnown
<1>3. b.id = op.id
  BY DEF Disconnect, DeleteBearer, SetBearers, Bearer, DataPlaneInv, PlaneTypeOK
<1>4. b.ours
  BY <1>2, <1>3 DEF DataPlaneInv, RecordsAreOurs, Bearer
<1> QED
  BY <1>2, <1>4

-----------------------------------------------------------------------------
(***************************************************************************)
(* Stable lines                                                            *)
(***************************************************************************)

-----------------------------------------------------------------------------
(* Lines: the visits of a snapshot                                         *)

\* A property of 0 that every step keeps is one of all numbers.
LEMMA CountUp ==
  ASSUME NEW T \in SUBSET Nat, 0 \in T, \A n \in T : n + 1 \in T
  PROVE  T = Nat
<1> DEFINE R == OpToRel(<, Nat)
           U == Nat \ T
<1>1. IsWellFoundedOn(R, Nat)
  BY NatLessThanWellFounded
<1>2. \A x, y \in Nat : <<y, x>> \in R <=> y < x
  BY DEF OpToRel
<1> HIDE DEF R
<1>3. SUFFICES ASSUME U # {} PROVE FALSE
  OBVIOUS
<1>4. \E x \in U : \A y \in U : ~ (<<y, x>> \in R)
  BY <1>1, <1>3, WFMin
<1>5. PICK x \in U : \A y \in U : ~ (y < x)
  BY <1>2, <1>4
<1>6. x # 0 /\ x - 1 \in Nat /\ x - 1 < x
  BY <1>5
<1>7. x - 1 \in T
  BY <1>5, <1>6
<1>8. QED
  BY <1>5, <1>6, <1>7

\* A function made step by step exists.
LEMMA VisitsExist ==
  ASSUME NEW seen, NEW order, Len(order) \in Nat
  PROVE  Visits(seen, order) =
           [n \in 0 .. Len(order) |->
              IF n = 0 THEN Tables
              ELSE UpsertHardwareLine(Visits(seen, order)[n - 1], order[n],
                                      seen[order[n]])]
<1> DEFINE D(g, n) == UpsertHardwareLine(g, order[n], seen[order[n]])
           Is(f, k) == f = [n \in 0 .. k |-> IF n = 0 THEN Tables ELSE D(f[n - 1], n)]
           T == {k \in Nat : \E f : Is(f, k)}
<1>1. 0 \in T
  <2>1. Is([n \in 0 .. 0 |-> Tables], 0)
    OBVIOUS
  <2>2. QED
    BY <2>1
<1>2. ASSUME NEW k \in T
      PROVE  k + 1 \in T
  <2>1. PICK f : Is(f, k)
    OBVIOUS
  <2> DEFINE g == [n \in 0 .. k + 1 |-> IF n = k + 1 THEN D(f[k], n) ELSE f[n]]
  <2>2. ASSUME NEW n \in 0 .. k + 1
        PROVE  g[n] = IF n = 0 THEN Tables ELSE D(g[n - 1], n)
    <3> HIDE DEF D
    <3>1. CASE n = k + 1
      BY <3>1
    <3>2. CASE n # k + 1
      <4>1. n \in 0 .. k /\ g[n] = f[n]
        BY <3>2
      <4>2. n # 0 => g[n - 1] = f[n - 1]
        BY <4>1
      <4>3. f[n] = IF n = 0 THEN Tables ELSE D(f[n - 1], n)
        BY <2>1, <4>1
      <4>4. QED
        BY <4>1, <4>2, <4>3
    <3>3. QED
      BY <3>1, <3>2
  <2>3. Is(g, k + 1)
    <3> HIDE DEF D
    <3>1. g = [n \in 0 .. k + 1 |-> g[n]]
      OBVIOUS
    <3> HIDE DEF g
    <3>2. [n \in 0 .. k + 1 |-> g[n]] =
            [n \in 0 .. k + 1 |-> IF n = 0 THEN Tables ELSE D(g[n - 1], n)]
      BY <2>2
    <3>3. QED
      BY <3>1, <3>2
  <2> HIDE DEF Is
  <2>4. k + 1 \in Nat /\ \E h : Is(h, k + 1)
    BY <2>3
  <2>5. QED
    BY <2>4
<1>3. T = Nat
  <2> HIDE DEF Is
  <2>1. QED
    BY <1>1, <1>2, CountUp
<1>4. \E f : Is(f, Len(order))
  BY <1>3
<1>5. Visits(seen, order) = CHOOSE f : Is(f, Len(order))
  BY DEF Visits
<1>6. QED
  <2>1. Is(CHOOSE f : Is(f, Len(order)), Len(order))
    BY <1>4
  <2>2. QED
    BY <1>5, <2>1

-----------------------------------------------------------------------------
(* Lines: tables                                                           *)

\* The row of a key.
LEMMA GetIs ==
  ASSUME NEW table, Keyed(table), NEW x \in table
  PROVE  Get(table, x.id) = x
BY DEF Get, Keyed

\* The row of a key that is there.
LEMMA GetIn ==
  ASSUME NEW table, NEW k \in Ids(table)
  PROVE  Get(table, k) \in table /\ Get(table, k).id = k
BY DEF Get, Ids

\* A row's key is a key of its table.
LEMMA IdsIn ==
  ASSUME NEW table, NEW x \in table
  PROVE  x.id \in Ids(table)
BY DEF Ids

\* What a modem says is nothing or a card with its subscription.
LEMMA ObservationKinds ==
  ASSUME LinesAssumption, NEW o \in Observations
  PROVE  /\ o = Empty => o.iccid = None /\ o.imsi = None /\ o.number = None
         /\ o # Empty => /\ o.iccid \in Cards /\ o.imsi \in Subs
                         /\ o.iccid # None /\ o.imsi # None
                         /\ o.imsi = Sub[o.iccid]
                         /\ o.number \in {None} \cup Numbers
BY DEF Observations, Empty, LinesAssumption

\* Settings that two steps keep.
LEMMA SettingsKeptTwice ==
  ASSUME NEW a, NEW b, NEW c, SettingsKept(a, b), SettingsKept(b, c),
         NamesResolve(b)
  PROVE  SettingsKept(a, c)
<1>1. Ids(a.rows) = Ids(b.rows) /\ Ids(b.rows) = Ids(c.rows)
  BY DEF SettingsKept
<1>2. ASSUME NEW x \in a.rows, NEW y \in c.rows, NEW k \in a.lines, NEW l \in c.lines,
             x.id = y.id, k.id = x.line, l.id = y.line, k.policy = "set"
      PROVE  l.policy = "set"
  <2>1. x.id \in Ids(b.rows)
    BY <1>1, IdsIn
  <2>2. PICK z \in b.rows : z.id = x.id
    BY <2>1 DEF Ids
  <2>3. PICK j \in b.lines : j.id = z.line
    BY DEF NamesResolve, Ids
  <2>4. j.policy = "set"
    BY <1>2, <2>2, <2>3 DEF SettingsKept
  <2>5. QED
    BY <1>2, <2>2, <2>3, <2>4 DEF SettingsKept
<1>3. QED
  BY <1>1, <1>2 DEF SettingsKept

\* Settings are kept where rows and the lines they are of do not change.
LEMMA SettingsKeptSame ==
  ASSUME NEW a, NEW b, TablesTypeOK(a), b.rows = a.rows, NamesResolve(a),
         \A k \in a.lines, l \in b.lines :
           k.id = l.id /\ k.policy = "set" => l.policy = "set"
  PROVE  SettingsKept(a, b)
<1>1. \A x \in a.rows, y \in b.rows : x.id = y.id => x = y
  BY DEF TablesTypeOK, Keyed
<1>2. QED
  BY <1>1 DEF SettingsKept

-----------------------------------------------------------------------------
(* Lines: merging                                                          *)

\* The fields after a merge.
LEMMA MergeFields ==
  ASSUME NEW tb, Whole(tb), NEW target, NEW A, A # {}
  PROVE  LET d == MergeStableLines(tb, target, A)
         IN /\ Whole(d)
            /\ d.lines = {x \in tb.lines : x.id \notin A \cup {target}}
                           \cup {MergedMetadata(tb, target, A)}
            /\ d.cards = Rebind(tb.cards, target, A)
            /\ d.subs = Rebind(tb.subs, target, A)
            /\ d.legacy = Rebind(tb.legacy, target, A)
            /\ d.rows = Rebind(tb.rows, target, A)
            /\ d.devices = tb.devices /\ d.at = tb.at /\ d.last = tb.last
BY DEF MergeStableLines, Whole

\* The merged line has the number of the line and a policy, "set" if one of the
\* lines has it.
LEMMA MergedLine ==
  ASSUME NEW tb, TablesTypeOK(tb), NEW target, NEW A, MayMerge(tb, target, A)
  PROVE  LET new == MergedMetadata(tb, target, A)
         IN /\ new.id = target
            /\ new.policy \in {"none", "initial", "set"}
            /\ DOMAIN new = {"id", "policy", "number"}
            /\ new = [id |-> target, number |-> new.number, policy |-> new.policy]
            /\ \A x \in tb.lines : x.id = target => new.number = x.number
            /\ \A x \in tb.lines :
                 x.id \in A \cup {target} /\ x.policy = "set" => new.policy = "set"
<1> DEFINE new == MergedMetadata(tb, target, A)
           all == {x \in tb.lines : x.id \in A \cup {target}}
           named == {x \in all : x.number # None}
<1>1. new = [id |-> target, policy |-> MergedPolicy(all),
             number |-> IF named = {} THEN None
                        ELSE (CHOOSE x \in named : TRUE).number]
  BY DEF MergedMetadata
<1>2. MergedPolicy(all) \in {"none", "initial", "set"}
  BY DEF MergedPolicy
<1>3. \A x \in all : x.policy = "set" => MergedPolicy(all) = "set"
  BY DEF MergedPolicy
<1>4. Keyed(tb.lines)
  BY DEF TablesTypeOK
<1>5. \A x \in all : x.id \in A => x.number = None
  <2>1. ASSUME NEW x \in all, x.id \in A
        PROVE  x.number = None
    <3>1. PICK y \in tb.lines : y.id = x.id /\ y.number = None
      BY <2>1 DEF MayMerge
    <3>2. QED
      BY <1>4, <3>1 DEF Keyed
  <2>2. QED
    BY <2>1
<1>6. \A x \in tb.lines : x.id = target => new.number = x.number
  <2>1. ASSUME NEW x \in tb.lines, x.id = target
        PROVE  new.number = x.number
    <3>1. \A y \in named : y = x
      BY <1>4, <1>5, <2>1 DEF Keyed
    <3>2. CASE x.number = None
      <4>1. named = {}
        BY <3>1, <3>2
      <4>2. QED
        BY <1>1, <3>2, <4>1
    <3>3. CASE x.number # None
      <4>1. x \in named
        BY <2>1, <3>3
      <4>2. (CHOOSE y \in named : TRUE) \in named
        BY <4>1
      <4>3. (CHOOSE y \in named : TRUE) = x
        BY <3>1, <4>2
      <4>4. new.number = IF named = {} THEN None
                         ELSE (CHOOSE y \in named : TRUE).number
        BY <1>1
      <4> HIDE DEF new, named
      <4>5. QED
        BY <4>1, <4>3, <4>4
    <3>4. QED
      BY <3>2, <3>3
  <2>2. QED
    BY <2>1
<1> HIDE DEF new, all, named
<1>7. /\ new.id = target /\ new.policy = MergedPolicy(all)
      /\ DOMAIN new = {"id", "policy", "number"}
      /\ new = [id |-> target, number |-> new.number, policy |-> new.policy]
  BY <1>1
<1>8. \A x \in tb.lines :
        x.id \in A \cup {target} /\ x.policy = "set" => new.policy = "set"
  BY <1>3, <1>7 DEF all
<1>9. QED
  BY <1>2, <1>6, <1>7, <1>8 DEF new

\* A table whose rows name a line.
LEMMA Rebound ==
  ASSUME NEW T, NEW target, NEW A
  PROVE  /\ \A y \in Rebind(T, target, A) : \E x \in T :
              /\ y = (IF x.line \in A THEN [x EXCEPT !.line = target] ELSE x)
         /\ \A x \in T : (IF x.line \in A THEN [x EXCEPT !.line = target] ELSE x)
                           \in Rebind(T, target, A)
BY DEF Rebind

\* A merge moves the cards of the merged lines and nothing else of them.
LEMMA CardsRebound ==
  ASSUME NEW T, T \subseteq [id : Cards, line : Nat, at : {None} \cup Modems],
         NEW target \in Nat, NEW A
  PROVE  LET U == Rebind(T, target, A)
         IN /\ U \subseteq [id : Cards, line : Nat, at : {None} \cup Modems]
            /\ \A y \in U : \E x \in T :
                 /\ x.id = y.id /\ x.at = y.at
                 /\ y.line = IF x.line \in A THEN target ELSE x.line
            /\ \A x \in T : \E y \in U :
                 /\ x.id = y.id /\ x.at = y.at
                 /\ y.line = IF x.line \in A THEN target ELSE x.line
            /\ Keyed(T) => Keyed(U)
<1> DEFINE U == Rebind(T, target, A)
           F(x) == IF x.line \in A THEN [x EXCEPT !.line = target] ELSE x
<1>1. \A x \in T : /\ F(x) \in [id : Cards, line : Nat, at : {None} \cup Modems]
                   /\ F(x).id = x.id /\ F(x).at = x.at
                   /\ F(x).line = IF x.line \in A THEN target ELSE x.line
  OBVIOUS
<1>2. (\A y \in U : \E x \in T : y = F(x)) /\ (\A x \in T : F(x) \in U)
  BY Rebound
<1> HIDE DEF F, U
<1>3. Keyed(T) => Keyed(U)
  BY <1>1, <1>2 DEF Keyed
<1>4. U \subseteq [id : Cards, line : Nat, at : {None} \cup Modems]
  BY <1>1, <1>2
<1>5. \A y \in U : \E x \in T : /\ x.id = y.id /\ x.at = y.at
                               /\ y.line = IF x.line \in A THEN target ELSE x.line
  BY <1>1, <1>2
<1>6. \A x \in T : \E y \in U : /\ x.id = y.id /\ x.at = y.at
                               /\ y.line = IF x.line \in A THEN target ELSE x.line
  BY <1>1, <1>2
<1>7. QED
  BY <1>3, <1>4, <1>5, <1>6 DEF U

\* The same of the tables that only name a line.
LEMMA NamesRebound ==
  ASSUME NEW T, NEW S, T \subseteq [id : S, line : Nat], NEW target \in Nat, NEW A
  PROVE  LET U == Rebind(T, target, A)
         IN /\ U \subseteq [id : S, line : Nat]
            /\ Follows(U, T, target, A)
            /\ Keyed(T) => Keyed(U)
<1> DEFINE U == Rebind(T, target, A)
           F(x) == IF x.line \in A THEN [x EXCEPT !.line = target] ELSE x
<1>1. \A x \in T : /\ F(x) \in [id : S, line : Nat] /\ F(x).id = x.id
                   /\ F(x).line = IF x.line \in A THEN target ELSE x.line
  OBVIOUS
<1>2. (\A y \in U : \E x \in T : y = F(x)) /\ (\A x \in T : F(x) \in U)
  BY Rebound
<1> HIDE DEF F, U
<1>3. Keyed(T) => Keyed(U)
  BY <1>1, <1>2 DEF Keyed
<1>4. U \subseteq [id : S, line : Nat]
  BY <1>1, <1>2
<1>5. \A y \in U : \E x \in T :
        x.id = y.id /\ y.line = IF x.line \in A THEN target ELSE x.line
  BY <1>1, <1>2
<1>6. QED
  BY <1>3, <1>4, <1>5 DEF U, Follows

\* Stored rows move with their number.
LEMMA RowsRebound ==
  ASSUME NEW T, T \subseteq [id : Rows, line : Nat, number : {None} \cup Numbers],
         NEW target \in Nat, NEW A
  PROVE  LET U == Rebind(T, target, A)
         IN /\ U \subseteq [id : Rows, line : Nat, number : {None} \cup Numbers]
            /\ \A y \in U : \E x \in T :
                 /\ x.id = y.id /\ x.number = y.number
                 /\ y.line = IF x.line \in A THEN target ELSE x.line
            /\ Ids(U) = Ids(T)
            /\ Keyed(T) => Keyed(U)
<1> DEFINE U == Rebind(T, target, A)
           F(x) == IF x.line \in A THEN [x EXCEPT !.line = target] ELSE x
<1>1. \A x \in T : /\ F(x) \in [id : Rows, line : Nat, number : {None} \cup Numbers]
                   /\ F(x).id = x.id /\ F(x).number = x.number
                   /\ F(x).line = IF x.line \in A THEN target ELSE x.line
  OBVIOUS
<1>2. (\A y \in U : \E x \in T : y = F(x)) /\ (\A x \in T : F(x) \in U)
  BY Rebound
<1> HIDE DEF F, U
<1>3. Keyed(T) => Keyed(U)
  BY <1>1, <1>2 DEF Keyed
<1>4. U \subseteq [id : Rows, line : Nat, number : {None} \cup Numbers]
  BY <1>1, <1>2
<1>5. \A y \in U : \E x \in T : /\ x.id = y.id /\ x.number = y.number
                               /\ y.line = IF x.line \in A THEN target ELSE x.line
  BY <1>1, <1>2
<1>6. Ids(U) = Ids(T)
  BY <1>1, <1>2 DEF Ids
<1>7. QED
  BY <1>3, <1>4, <1>5, <1>6 DEF U

\* What a merge makes of the tables.
LEMMA MergeEffect ==
  ASSUME NEW tb, Whole(tb), TablesTypeOK(tb), NEW target, NEW A,
         MayMerge(tb, target, A)
  PROVE  LET d == MergeStableLines(tb, target, A)
         IN Whole(d) /\ TablesTypeOK(d) /\ MergedTo(d, tb, target, A)
<1> DEFINE d == MergeStableLines(tb, target, A)
           new == MergedMetadata(tb, target, A)
<1>1. CASE A = {}
  <2>1. d = tb
    BY <1>1 DEF MergeStableLines
  <2>2. MergedTo(tb, tb, target, A)
    <3>1. \A x \in tb.lines, y \in tb.lines :
            x.id \in A /\ y.id = target /\ x.policy = "set" => y.policy = "set"
      BY <1>1
    <3>2. /\ Follows(tb.subs, tb.subs, target, A)
          /\ Follows(tb.legacy, tb.legacy, target, A)
      BY <1>1 DEF Follows
    <3>3. QED
      BY <1>1, <3>1, <3>2 DEF MergedTo
  <2>3. QED
    BY <2>1, <2>2
<1>2. CASE A # {}
  <2>1. /\ Whole(d)
        /\ d.lines = {x \in tb.lines : x.id \notin A \cup {target}} \cup {new}
        /\ d.cards = Rebind(tb.cards, target, A)
        /\ d.subs = Rebind(tb.subs, target, A)
        /\ d.legacy = Rebind(tb.legacy, target, A)
        /\ d.rows = Rebind(tb.rows, target, A)
        /\ d.devices = tb.devices /\ d.at = tb.at /\ d.last = tb.last
    BY <1>2, MergeFields
  <2>2. /\ new.id = target /\ new.policy \in {"none", "initial", "set"}
        /\ new = [id |-> target, number |-> new.number, policy |-> new.policy]
        /\ \A x \in tb.lines : x.id = target => new.number = x.number
        /\ \A x \in tb.lines :
             x.id \in A \cup {target} /\ x.policy = "set" => new.policy = "set"
    BY MergedLine
  <2> HIDE DEF d, new
  <2>3. PICK r \in tb.lines : r.id = target
    BY DEF MayMerge, Ids
  <2>4. target \in 1 .. tb.last /\ target \in Nat /\ tb.last \in Nat
    BY <2>3 DEF TablesTypeOK
  <2>5. new \in [id : 1 .. tb.last, number : {None} \cup Numbers,
                 policy : {"none", "initial", "set"}]
    <3>1. new.number \in {None} \cup Numbers
      BY <2>2, <2>3 DEF TablesTypeOK
    <3>2. QED
      BY <2>2, <2>4, <3>1
  <2>6. d.lines \subseteq [id : 1 .. d.last, number : {None} \cup Numbers,
                           policy : {"none", "initial", "set"}]
    BY <2>1, <2>5 DEF TablesTypeOK
  <2>7. Keyed(d.lines)
    BY <2>1, <2>2 DEF TablesTypeOK, Keyed
  <2>8. /\ d.cards \subseteq [id : Cards, line : Nat, at : {None} \cup Modems]
        /\ Keyed(d.cards)
        /\ \A y \in d.cards : \E x \in tb.cards :
             /\ x.id = y.id /\ x.at = y.at
             /\ y.line = IF x.line \in A THEN target ELSE x.line
        /\ \A x \in tb.cards : \E y \in d.cards :
             /\ x.id = y.id /\ x.at = y.at
             /\ y.line = IF x.line \in A THEN target ELSE x.line
    BY <2>1, <2>4, CardsRebound DEF TablesTypeOK
  <2>9. /\ d.subs \subseteq [id : Subs, line : Nat] /\ Keyed(d.subs)
        /\ Follows(d.subs, tb.subs, target, A)
    BY <2>1, <2>4, NamesRebound DEF TablesTypeOK
  <2>10. /\ d.legacy \subseteq [id : Modems, line : Nat] /\ Keyed(d.legacy)
         /\ Follows(d.legacy, tb.legacy, target, A)
    BY <2>1, <2>4, NamesRebound DEF TablesTypeOK
  <2>11. /\ d.rows \subseteq [id : Rows, line : Nat, number : {None} \cup Numbers]
         /\ Keyed(d.rows) /\ Ids(d.rows) = Ids(tb.rows)
         /\ \A y \in d.rows : \E x \in tb.rows :
              /\ x.id = y.id /\ x.number = y.number
              /\ y.line = IF x.line \in A THEN target ELSE x.line
    BY <2>1, <2>4, RowsRebound DEF TablesTypeOK
  <2>12. TablesTypeOK(d)
    BY <2>1, <2>6, <2>7, <2>8, <2>9, <2>10, <2>11 DEF TablesTypeOK
  <2>13. \A y \in d.lines : \E x \in tb.lines :
           /\ y.id = x.id /\ y.number = x.number /\ x.id \notin A
           /\ x.policy = "set" => y.policy = "set"
    <3>1. ASSUME NEW y \in d.lines, y # new
          PROVE  y \in tb.lines /\ y.id \notin A
      BY <2>1, <3>1
    <3>2. /\ new.id = r.id /\ new.number = r.number /\ r.id \notin A
          /\ r.policy = "set" => new.policy = "set"
      BY <2>2, <2>3 DEF MayMerge
    <3>3. QED
      BY <2>3, <3>1, <3>2
  <2>14. \A x \in tb.lines : x.id \notin A =>
           \E y \in d.lines : y.id = x.id /\ y.number = x.number
    <3>1. new \in d.lines
      BY <2>1
    <3>2. QED
      BY <2>1, <2>2, <3>1
  <2>15. \A x \in tb.lines, y \in d.lines :
           x.id \in A /\ y.id = target /\ x.policy = "set" => y.policy = "set"
    <3>1. \A y \in d.lines : y.id = target => y = new
      BY <2>1, <2>2
    <3>2. QED
      BY <2>2, <3>1
  <2>16. MergedTo(d, tb, target, A)
    BY <2>1, <2>8, <2>9, <2>10, <2>11, <2>13, <2>14, <2>15 DEF MergedTo
  <2>17. QED
    BY <2>1, <2>12, <2>16 DEF d
<1>3. QED
  BY <1>1, <1>2

-----------------------------------------------------------------------------
(* Lines: what a merge keeps                                               *)

\* References are of lines that remain.
LEMMA MergeResolves ==
  ASSUME NEW d, NEW tb, NEW target, NEW A, TablesTypeOK(tb), TablesTypeOK(d),
         MayMerge(tb, target, A), NamesResolve(tb), MergedTo(d, tb, target, A)
  PROVE  NamesResolve(d) /\ target \in Ids(d.lines)
<1>1. \A l \in Ids(tb.lines) : l \notin A => l \in Ids(d.lines)
  BY DEF Ids, MergedTo
<1>2. target \in Ids(d.lines)
  BY <1>1 DEF MayMerge
<1>3. \A x \in d.cards : x.line \in Ids(d.lines)
  BY <1>1, <1>2 DEF MergedTo, NamesResolve
<1>4. \A x \in d.subs : x.line \in Ids(d.lines)
  BY <1>1, <1>2 DEF MergedTo, NamesResolve, Follows
<1>5. \A x \in d.legacy : x.line \in Ids(d.lines)
  BY <1>1, <1>2 DEF MergedTo, NamesResolve, Follows
<1>6. \A x \in d.rows : x.line \in Ids(d.lines)
  BY <1>1, <1>2 DEF MergedTo, NamesResolve
<1>7. \A x, y \in d.lines : x.number = y.number => x = y \/ x.number = None
  <2>1. ASSUME NEW x \in d.lines, NEW y \in d.lines, x.number = y.number,
               x.number # None
        PROVE  x = y
    <3>1. PICK a \in tb.lines : a.id = x.id /\ a.number = x.number
      BY DEF MergedTo
    <3>2. PICK b \in tb.lines : b.id = y.id /\ b.number = y.number
      BY DEF MergedTo
    <3>3. a = b
      BY <2>1, <3>1, <3>2 DEF NamesResolve
    <3>4. QED
      BY <3>1, <3>2, <3>3 DEF TablesTypeOK, Keyed
  <2>2. QED
    BY <2>1
<1>8. \A x \in d.rows, y \in d.lines :
        x.number # None /\ y.id = x.line => y.number = x.number
  <2>1. ASSUME NEW x \in d.rows, NEW y \in d.lines, x.number # None, y.id = x.line
        PROVE  y.number = x.number
    <3>1. PICK w \in tb.rows : /\ w.id = x.id /\ w.number = x.number
                               /\ x.line = IF w.line \in A THEN target ELSE w.line
      BY DEF MergedTo
    <3>2. PICK b \in tb.lines : b.id = y.id /\ b.number = y.number
      BY DEF MergedTo
    <3>3. w.line \notin A
      <4>1. SUFFICES ASSUME w.line \in A PROVE FALSE
        OBVIOUS
      <4>2. PICK z \in tb.lines : z.id = w.line /\ z.number = None
        BY <4>1 DEF MayMerge
      <4>3. QED
        BY <2>1, <3>1, <4>2 DEF NamesResolve
    <3>4. QED
      BY <2>1, <3>1, <3>2, <3>3 DEF NamesResolve
  <2>2. QED
    BY <2>1
<1>9. QED
  BY <1>2, <1>3, <1>4, <1>5, <1>6, <1>7, <1>8 DEF NamesResolve

\* Where cards are does not change.
LEMMA MergePlaces ==
  ASSUME NEW d, NEW tb, NEW target, NEW A, TablesTypeOK(tb), TablesTypeOK(d),
         MayMerge(tb, target, A), MergedTo(d, tb, target, A),
         PlacesAgree(tb), OnePlaceBut(tb, target)
  PROVE  PlacesAgree(d) /\ OnePlaceBut(d, target)
<1>1. \A x \in d.devices : \E y \in d.cards : y.id = x.card /\ y.at = x.id
  <2>1. ASSUME NEW x \in d.devices
        PROVE  \E y \in d.cards : y.id = x.card /\ y.at = x.id
    <3>1. PICK z \in tb.cards : z.id = x.card /\ z.at = x.id
      BY DEF MergedTo, PlacesAgree
    <3>2. QED
      BY <3>1 DEF MergedTo
  <2>2. QED
    BY <2>1
<1>2. \A y \in d.cards :
        y.at # None => \E x \in d.devices : x.id = y.at /\ x.card = y.id
  <2>1. ASSUME NEW y \in d.cards, y.at # None
        PROVE  \E x \in d.devices : x.id = y.at /\ x.card = y.id
    <3>1. PICK z \in tb.cards : z.id = y.id /\ z.at = y.at
      BY DEF MergedTo
    <3>2. QED
      BY <2>1, <3>1 DEF MergedTo, PlacesAgree
  <2>2. QED
    BY <2>1
<1>3. OnePlaceBut(d, target)
  <2>1. ASSUME NEW x \in d.cards, NEW y \in d.cards,
               x.line = y.line, x.line # target, x # y
        PROVE  None \in {x.at, y.at}
    <3>1. PICK a \in tb.cards : /\ a.id = x.id /\ a.at = x.at
                                /\ x.line = IF a.line \in A THEN target ELSE a.line
      BY DEF MergedTo
    <3>2. PICK b \in tb.cards : /\ b.id = y.id /\ b.at = y.at
                                /\ y.line = IF b.line \in A THEN target ELSE b.line
      BY DEF MergedTo
    <3>3. a # b
      BY <2>1, <3>1, <3>2 DEF TablesTypeOK, Keyed
    <3>4. QED
      BY <2>1, <3>1, <3>2, <3>3 DEF OnePlaceBut
  <2>2. QED
    BY <2>1 DEF OnePlaceBut
<1>4. QED
  BY <1>1, <1>2, <1>3 DEF PlacesAgree

\* Nor do the subscriptions of the other lines.
LEMMA MergeOwn ==
  ASSUME NEW d, NEW tb, NEW target, NEW A, MergedTo(d, tb, target, A),
         NEW l, l \notin A, l # target, NEW s, OwnedBy(tb, l, s)
  PROVE  OwnedBy(d, l, s)
<1>1. \A y \in d.cards : y.line = l => \E x \in tb.cards : x.id = y.id /\ x.line = l
  BY DEF MergedTo
<1>2. \A y \in d.subs : y.line = l => \E x \in tb.subs : x.id = y.id /\ x.line = l
  BY DEF MergedTo, Follows
<1>3. QED
  BY <1>1, <1>2 DEF OwnedBy

\* A merge mixes no subscriptions on a line that has no number.
LEMMA MergeSubscriptions ==
  ASSUME NEW d, NEW tb, NEW target, NEW A, MergedTo(d, tb, target, A),
         OneSubscriptionBut(tb, target)
  PROVE  OneSubscriptionBut(d, target)
<1>1. SUFFICES ASSUME NEW l \in d.lines, l.number = None, l.id # target
      PROVE  \E s \in {None} \cup Subs : OwnedBy(d, l.id, s)
  BY DEF OneSubscriptionBut
<1>2. PICK k \in tb.lines : k.id = l.id /\ k.number = None /\ k.id \notin A
  BY <1>1 DEF MergedTo
<1>3. PICK s \in {None} \cup Subs : OwnedBy(tb, l.id, s)
  BY <1>1, <1>2 DEF OneSubscriptionBut
<1>4. QED
  BY <1>1, <1>2, <1>3, MergeOwn

\* The merged line is of a subscription if all it is made of are.
LEMMA MergeIntoOwn ==
  ASSUME NEW d, NEW tb, NEW target, NEW A, MergedTo(d, tb, target, A),
         NEW s, OwnedBy(tb, target, s), \A l \in A : OwnedBy(tb, l, s)
  PROVE  OwnedBy(d, target, s)
<1>1. \A y \in d.cards : y.line = target =>
        \E x \in tb.cards : x.id = y.id /\ (x.line = target \/ x.line \in A)
  BY DEF MergedTo
<1>2. \A y \in d.subs : y.line = target =>
        \E x \in tb.subs : x.id = y.id /\ (x.line = target \/ x.line \in A)
  BY DEF MergedTo, Follows
<1>3. QED
  BY <1>1, <1>2 DEF OwnedBy

\* Settings made by hand go with the rows.
LEMMA MergeSettings ==
  ASSUME NEW d, NEW tb, NEW target, NEW A, TablesTypeOK(tb), TablesTypeOK(d),
         MayMerge(tb, target, A), MergedTo(d, tb, target, A)
  PROVE  SettingsKept(tb, d)
<1>1. ASSUME NEW x \in tb.rows, NEW y \in d.rows, NEW k \in tb.lines, NEW l \in d.lines,
             x.id = y.id, k.id = x.line, l.id = y.line, k.policy = "set"
      PROVE  l.policy = "set"
  <2>1. PICK z \in tb.rows :
          z.id = y.id /\ y.line = IF z.line \in A THEN target ELSE z.line
    BY DEF MergedTo
  <2>2. z = x
    BY <1>1, <2>1 DEF TablesTypeOK, Keyed
  <2>3. CASE x.line \in A
    BY <1>1, <2>1, <2>2, <2>3 DEF MergedTo
  <2>4. CASE x.line \notin A
    <3>1. PICK j \in tb.lines : /\ l.id = j.id
                                /\ j.policy = "set" => l.policy = "set"
      BY DEF MergedTo
    <3>2. j = k
      BY <1>1, <2>1, <2>2, <2>4, <3>1 DEF TablesTypeOK, Keyed
    <3>3. QED
      BY <1>1, <3>1, <3>2
  <2>5. QED
    BY <2>3, <2>4
<1>2. QED
  BY <1>1 DEF SettingsKept, MergedTo

\* A merge keeps what a step on the tables keeps.
LEMMA MergePart ==
  ASSUME NEW d, Whole(d), TablesTypeOK(d), NEW tb, NEW target, NEW A,
         MayMerge(tb, target, A), Part(tb, target), MergedTo(d, tb, target, A)
  PROVE  Part(d, target) /\ target \in Ids(d.lines) /\ SettingsKept(tb, d)
<1>1. NamesResolve(d) /\ target \in Ids(d.lines)
  BY MergeResolves DEF Part
<1>2. PlacesAgree(d) /\ OnePlaceBut(d, target)
  BY MergePlaces DEF Part
<1>3. OneSubscriptionBut(d, target) /\ SettingsKept(tb, d)
  BY MergeSubscriptions, MergeSettings DEF Part
<1>4. QED
  BY <1>1, <1>2, <1>3 DEF Part

\* A merge keeps the lines the snapshot has attached.
LEMMA MergeAttached ==
  ASSUME NEW d, TablesTypeOK(d), NEW tb, TablesTypeOK(tb), NEW target, NEW A,
         MayMerge(tb, target, A), MergedTo(d, tb, target, A),
         NEW seen, AttachedStay(tb, seen), AttachedElsewhere(tb, target, A)
  PROVE  AttachedStay(d, seen) /\ AttachedElsewhere(d, target, {})
<1>1. d.at = tb.at
  BY DEF MergedTo
<1>2. ASSUME NEW a \in tb.at
      PROVE  \E l \in d.lines :
               /\ l.id = a.line
               /\ l.number = None => OwnedBy(d, l.id, seen[a.id].imsi)
  <2>1. PICK k \in tb.lines :
          k.id = a.line /\ (k.number = None => OwnedBy(tb, k.id, seen[a.id].imsi))
    BY <1>2 DEF AttachedStay
  <2>2. k.id \notin A /\ (k.id = target => k.number # None)
    BY <1>2, <2>1 DEF AttachedElsewhere
  <2>3. PICK l \in d.lines : l.id = k.id /\ l.number = k.number
    BY <2>2 DEF MergedTo
  <2>4. l.number = None => OwnedBy(d, l.id, seen[a.id].imsi)
    BY <2>1, <2>2, <2>3, MergeOwn
  <2>5. QED
    BY <2>1, <2>3, <2>4
<1>3. AttachedStay(d, seen)
  BY <1>1, <1>2 DEF AttachedStay
<1>4. ASSUME NEW a \in d.at, NEW l \in d.lines, a.line = target, l.id = target
      PROVE  l.number # None
  <2>1. PICK x \in tb.lines : x.id = l.id /\ x.number = l.number
    BY DEF MergedTo
  <2>2. QED
    BY <1>1, <1>4, <2>1 DEF AttachedElsewhere
<1>5. QED
  BY <1>3, <1>4 DEF AttachedElsewhere

\* The lines of an upgrade are neither the line nor merged into it.
LEMMA MergeLegacy ==
  ASSUME NEW d, TablesTypeOK(d), NEW tb, NEW target, NEW A,
         MergedTo(d, tb, target, A), LegacyIsAlone(tb),
         \A x \in tb.legacy : x.line # target,
         \A x \in tb.legacy : x.line \notin A
            \/ ~ \E y \in d.legacy : y.id = x.id
  PROVE  LegacyIsAlone(d) /\ \A x \in d.legacy : x.line # target
<1>1. \A y \in d.legacy : \E x \in tb.legacy : x.id = y.id /\ x.line = y.line
  BY DEF MergedTo, Follows
<1>2. \A y \in d.lines : \E x \in tb.lines : y.id = x.id /\ y.number = x.number
  BY DEF MergedTo
<1>3. \A y \in d.cards : \E x \in tb.cards : y.line = x.line \/ y.line = target
  BY DEF MergedTo
<1>4. \A y \in d.subs : \E x \in tb.subs : y.line = x.line \/ y.line = target
  BY DEF MergedTo, Follows
<1>5. d.at = tb.at
  BY DEF MergedTo
<1>6. \A x \in d.legacy, y \in d.lines : y.id = x.line => y.number = None
  BY <1>1, <1>2 DEF LegacyIsAlone
<1>7. \A x \in d.legacy : x.line # target
  BY <1>1
<1>8. \A x \in d.legacy : \A y \in d.cards : y.line # x.line
  BY <1>1, <1>3, <1>7 DEF LegacyIsAlone
<1>9. \A x \in d.legacy : \A y \in d.subs : y.line # x.line
  BY <1>1, <1>4, <1>7 DEF LegacyIsAlone
<1>10. \A x, y \in d.legacy : x.line = y.line => x = y
  <2>1. ASSUME NEW x \in d.legacy, NEW y \in d.legacy, x.line = y.line
        PROVE  x = y
    <3>1. PICK a \in tb.legacy : a.id = x.id /\ a.line = x.line
      BY <1>1
    <3>2. PICK b \in tb.legacy : b.id = y.id /\ b.line = y.line
      BY <1>1
    <3>3. a = b
      BY <2>1, <3>1, <3>2 DEF LegacyIsAlone
    <3>4. QED
      BY <3>1, <3>2, <3>3 DEF TablesTypeOK, Keyed
  <2>2. QED
    BY <2>1
<1>11. \A x \in d.legacy, a \in d.at : x.line # a.line
  BY <1>1, <1>5 DEF LegacyIsAlone
<1>12. QED
  BY <1>6, <1>7, <1>8, <1>9, <1>10, <1>11 DEF LegacyIsAlone

\* The matches of an observation are true of the tables.
LEMMA MatchesAre ==
  ASSUME LinesAssumption, NEW tb, TablesTypeOK(tb), NEW o
  PROVE  MatchesTrue(tb, o, Matches(tb, o))
<1> DEFINE M == Matches(tb, o)
           same == {x \in tb.lines : o.number # None /\ x.number = o.number}
<1>1. /\ M.iccid = LineOf(tb.cards, o.iccid) /\ M.imsi = LineOf(tb.subs, o.imsi)
      /\ M.number = IF \E x \in tb.lines : o.number # None /\ x.number = o.number
                    THEN (CHOOSE x \in tb.lines : x.number = o.number).id ELSE None
  BY DEF Matches
<1> HIDE DEF M
<1>2. M.iccid # None => \E x \in tb.cards : x.id = o.iccid /\ x.line = M.iccid
  BY <1>1, GetIn DEF LineOf
<1>3. M.imsi # None => \E x \in tb.subs : x.id = o.imsi /\ x.line = M.imsi
  BY <1>1, GetIn DEF LineOf
<1>4. M.number # None => /\ o.number # None
                         /\ \E x \in tb.lines : x.id = M.number /\ x.number = o.number
  BY <1>1
<1>5. M.number = None /\ o.number # None => \A x \in tb.lines : x.number # o.number
  <2>1. SUFFICES ASSUME M.number = None, o.number # None, NEW x \in tb.lines,
                        x.number = o.number
                 PROVE  FALSE
    OBVIOUS
  <2>2. PICK y \in tb.lines : M.number = y.id
    BY <1>1, <2>1
  <2>3. y.id \in Nat /\ None \notin Nat
    BY DEF TablesTypeOK, LinesAssumption
  <2>4. QED
    BY <2>1, <2>2, <2>3
<1>6. QED
  BY <1>2, <1>3, <1>4, <1>5 DEF MatchesTrue, M

\* A line without a number found by a card is of the card's subscription.
LEMMA TouchedOwn ==
  ASSUME LinesAssumption, NEW tb, Consistent(tb), NEW o \in Observations, o # Empty,
         NEW l \in tb.lines, l.number = None, Touched(tb, o, l.id)
  PROVE  OwnedBy(tb, l.id, o.imsi)
<1>1. l.id # None
  BY DEF Consistent, TablesTypeOK, LinesAssumption
<1>2. PICK s \in {None} \cup Subs : OwnedBy(tb, l.id, s)
  BY <1>1 DEF Consistent, OneSubscriptionBut
<1>3. o.imsi = s
  BY <1>2, ObservationKinds DEF OwnedBy, Touched
<1>4. QED
  BY <1>2, <1>3

\* No modem seen before has it.
LEMMA TouchedApart ==
  ASSUME LinesAssumption, NEW tb, Consistent(tb), NEW seen \in [Modems -> Observations],
         NEW m \in Modems, seen[m] # Empty, Distinct(seen),
         AttachedStay(tb, seen), \A a \in tb.at : a.id # m,
         NEW l \in tb.lines, l.number = None, Touched(tb, seen[m], l.id)
  PROVE  /\ \A a \in tb.at : a.line # l.id
         /\ \A x \in tb.legacy : x.line # l.id
<1>1. ASSUME NEW a \in tb.at, a.line = l.id
      PROVE  FALSE
  <2>1. PICK k \in tb.lines :
          k.id = a.line /\ (k.number = None => OwnedBy(tb, k.id, seen[a.id].imsi))
    BY DEF AttachedStay
  <2>2. k = l
    BY <1>1, <2>1 DEF Consistent, TablesTypeOK, Keyed
  <2>3. seen[m].imsi = Sub[seen[m].iccid] /\ seen[m].imsi # None
    BY ObservationKinds
  <2>4. seen[a.id].imsi = seen[m].imsi
    BY <2>1, <2>2, <2>3 DEF OwnedBy, Touched
  <2>5. a.id \in Modems /\ a.id # m
    BY DEF AttachedStay
  <2>6. QED
    BY <2>3, <2>4, <2>5 DEF Distinct
<1>2. \A x \in tb.legacy : x.line # l.id
  BY DEF Consistent, LegacyIsAlone, Touched
<1>3. QED
  BY <1>1, <1>2

\* The line of an observation is one that was found, or a new one.
LEMMA Chosen ==
  ASSUME LinesAssumption, NEW tb, Consistent(tb), NEW o \in Observations, o # Empty,
         NEW M, MatchesTrue(tb, o, M)
  PROVE  ChosenOK(tb, o, LineFor(tb, o, M))
<1> DEFINE found == ChooseStableLineCanonical(tb, M, o.number)
           target == LineFor(tb, o, M)
<1>1. target = FirstOf(found, tb.last + 1)
  BY ObservationKinds DEF LineFor
<1>2. Keyed(tb.lines) /\ tb.last \in Nat /\ None \notin Nat
      /\ (\A l \in tb.lines : l.id \in 1 .. tb.last)
  BY DEF Consistent, TablesTypeOK, LinesAssumption
<1>3. \A l \in tb.lines : NumberOf(tb, l.id) = l.number
  BY <1>2, GetIs DEF NumberOf
<1>4. \A k \in {M.iccid, M.imsi} : k # None =>
        Touched(tb, o, k) /\ \E l \in tb.lines : l.id = k
  <2>1. \A x \in tb.cards : \E l \in tb.lines : l.id = x.line
    BY DEF Consistent, NamesResolve, Ids
  <2>2. \A x \in tb.subs : \E l \in tb.lines : l.id = x.line
    BY DEF Consistent, NamesResolve, Ids
  <2>3. QED
    BY <2>1, <2>2 DEF MatchesTrue, Touched
<1>5. CASE found = None
  <2>1. target = tb.last + 1
    BY <1>1, <1>5 DEF FirstOf
  <2>2. \A l \in tb.lines : l.id # target
    BY <1>2, <2>1
  <2>3. o.number # None => M.number = None
    BY <1>5 DEF ChooseStableLineCanonical
  <2>4. o.number # None => \A l \in tb.lines : l.number # o.number
    BY <2>3 DEF MatchesTrue
  <2>5. QED
    BY <1>2, <2>1, <2>2, <2>4 DEF ChosenOK
<1>6. CASE found # None /\ o.number = None
  <2>1. target = found /\ found \in {M.iccid, M.imsi}
    BY <1>1, <1>6 DEF FirstOf, ChooseStableLineCanonical
  <2>2. PICK k \in tb.lines : k.id = target /\ Touched(tb, o, target)
    BY <1>4, <1>6, <2>1
  <2>3. QED
    BY <1>2, <1>6, <2>2 DEF ChosenOK, Ids
<1>7. CASE found # None /\ o.number # None /\ M.number # None
  <2>1. target = M.number
    BY <1>1, <1>7 DEF FirstOf, ChooseStableLineCanonical
  <2>2. PICK k \in tb.lines : k.id = target /\ k.number = o.number
    BY <1>7, <2>1 DEF MatchesTrue
  <2>3. \A l \in tb.lines : l.id = target => l = k
    BY <1>2, <2>2 DEF Keyed
  <2>4. \A l \in tb.lines : l.number = o.number => l = k
    BY <1>7, <2>2 DEF Consistent, NamesResolve
  <2>5. QED
    BY <1>2, <1>7, <2>2, <2>3, <2>4 DEF ChosenOK, Ids
<1>8. CASE found # None /\ o.number # None /\ M.number = None
  <2>1. target = found /\ found \in {M.iccid, M.imsi} /\ NumberOf(tb, found) = None
    BY <1>1, <1>8 DEF FirstOf, ChooseStableLineCanonical
  <2>2. PICK k \in tb.lines : k.id = target /\ Touched(tb, o, target)
    BY <1>4, <1>8, <2>1
  <2>3. \A l \in tb.lines : l.id = target => l = k
    BY <1>2, <2>2 DEF Keyed
  <2>4. k.number = None
    BY <1>3, <2>1, <2>2
  <2>5. \A l \in tb.lines : l.number # o.number
    BY <1>8 DEF MatchesTrue
  <2>6. QED
    BY <1>2, <2>2, <2>3, <2>4, <2>5 DEF ChosenOK, Ids
<1>9. QED
  BY <1>5, <1>6, <1>7, <1>8

\* A line that is made is ready for its merge.
LEMMA MadeReady ==
  ASSUME LinesAssumption, NEW tb, Whole(tb), Consistent(tb),
         NEW seen \in [Modems -> Observations], NEW m \in Modems, seen[m] # Empty,
         Distinct(seen), AttachedStay(tb, seen), \A a \in tb.at : a.id # m,
         NEW target, ChosenOK(tb, seen[m], target)
  PROVE  LET d == Made(tb, seen[m], target)
         IN Ready(d, seen[m], target, seen) /\ SettingsKept(tb, d)
<1> DEFINE o == seen[m]
           d == Made(tb, o, target)
           new == [id |-> target, number |-> o.number, policy |-> "none"]
<1>1. o \in Observations /\ o # Empty /\ o.number \in {None} \cup Numbers
  BY ObservationKinds
<1>2. ChosenOK(tb, o, target)
  OBVIOUS
<1>3. TablesTypeOK(tb) /\ NamesResolve(tb) /\ PlacesAgree(tb) /\ LegacyIsAlone(tb)
      /\ OnePlaceBut(tb, None) /\ OneSubscriptionBut(tb, None) /\ None \notin Nat
  BY DEF Consistent, LinesAssumption
<1>4. target # None
  BY <1>2, <1>3 DEF ChosenOK
<1>5. OnePlaceBut(tb, target) /\ OneSubscriptionBut(tb, target)
  <2>1. \A x \in tb.cards : x.line # None
    BY <1>3 DEF TablesTypeOK
  <2>2. \A l \in tb.lines : l.id # None
    BY <1>3 DEF TablesTypeOK
  <2>3. QED
    BY <1>3, <2>1, <2>2 DEF OnePlaceBut, OneSubscriptionBut
<1>6. \A l \in tb.lines : l.number = None /\ Touched(tb, o, l.id) =>
        /\ \A a \in tb.at : a.line # l.id
        /\ \A x \in tb.legacy : x.line # l.id
        /\ OwnedBy(tb, l.id, o.imsi)
  BY TouchedApart, TouchedOwn
<1>7. /\ Whole(d)
      /\ d.lines = IF target \in Ids(tb.lines) THEN tb.lines
                   ELSE tb.lines \cup {new}
      /\ d.last = IF target \in Ids(tb.lines) THEN tb.last ELSE target
      /\ d.cards = tb.cards /\ d.subs = tb.subs /\ d.rows = tb.rows
      /\ d.legacy = tb.legacy /\ d.devices = tb.devices /\ d.at = tb.at
  BY DEF Made, Whole
<1> HIDE DEF d, o
<1>8. CASE target \in Ids(tb.lines)
  <2>1. d.lines = tb.lines /\ d.last = tb.last
    BY <1>7, <1>8
  <2>2. \A x \in tb.legacy : x.line # target
    <3>1. ASSUME NEW x \in tb.legacy, x.line = target
          PROVE  FALSE
      <4>1. PICK l \in tb.lines : l.id = target
        BY <1>8 DEF Ids
      <4>2. l.number = None
        BY <1>3, <3>1, <4>1 DEF LegacyIsAlone
      <4>3. Touched(tb, o, l.id)
        BY <1>2, <4>1, <4>2 DEF ChosenOK
      <4>4. QED
        BY <1>6, <3>1, <4>1, <4>2, <4>3
    <3>2. QED
      BY <3>1
  <2>3. AttachedElsewhere(tb, target, {})
    BY <1>2, <1>6 DEF AttachedElsewhere, ChosenOK
  <2>4. Part(d, target)
    <3>1. TablesTypeOK(d)
      BY <1>3, <1>7, <2>1 DEF TablesTypeOK
    <3>2. NamesResolve(d)
      BY <1>3, <1>7, <2>1 DEF NamesResolve
    <3>3. PlacesAgree(d) /\ OnePlaceBut(d, target)
      BY <1>3, <1>5, <1>7 DEF PlacesAgree, OnePlaceBut
    <3>4. OneSubscriptionBut(d, target)
      BY <1>5, <1>7, <2>1 DEF OneSubscriptionBut, OwnedBy
    <3>5. QED
      BY <1>7, <3>1, <3>2, <3>3, <3>4 DEF Part
  <2>5. LegacyIsAlone(d) /\ (\A x \in d.legacy : x.line # target)
    BY <1>3, <1>7, <2>1, <2>2 DEF LegacyIsAlone
  <2>6. AttachedStay(d, seen) /\ AttachedElsewhere(d, target, {})
    BY <1>7, <2>1, <2>3 DEF AttachedStay, AttachedElsewhere, OwnedBy
  <2>7. \A l \in tb.lines :
          l.id = target /\ l.number = None /\ o.number = None => OwnedBy(d, target, o.imsi)
    BY <1>2, <1>6, <1>7 DEF ChosenOK, OwnedBy
  <2>8. \A l \in tb.lines :
          /\ l.id = target /\ o.number # None => l.number \in {None, o.number}
          /\ o.number # None /\ l.number = o.number => l.id = target
    BY <1>2 DEF ChosenOK
  <2>9. Ready(d, o, target, seen)
    BY <1>8, <2>1, <2>4, <2>5, <2>6, <2>7, <2>8 DEF Ready
  <2>10. \A k \in tb.lines, l \in d.lines :
           k.id = l.id /\ k.policy = "set" => l.policy = "set"
    BY <1>3, <2>1 DEF TablesTypeOK, Keyed
  <2>11. SettingsKept(tb, d)
    BY <1>3, <1>7, <2>10, SettingsKeptSame
  <2>12. QED
    BY <2>9, <2>11 DEF d, o
<1>9. CASE target \notin Ids(tb.lines)
  <2>1. d.lines = tb.lines \cup {new} /\ d.last = target /\ target = tb.last + 1
    BY <1>2, <1>7, <1>9 DEF ChosenOK
  <2>2. \A l \in tb.lines : l.id # target
    BY <1>9 DEF Ids
  <2>3. \A l \in tb.lines : o.number # None => l.number # o.number
    BY <1>2, <2>2 DEF ChosenOK
  <2>4. TablesTypeOK(d)
    <3>1. tb.last \in Nat /\ target \in Nat
      BY <1>2, <1>3 DEF ChosenOK, TablesTypeOK
    <3>2. new \in [id : 1 .. d.last, number : {None} \cup Numbers,
                   policy : {"none", "initial", "set"}]
      BY <1>1, <2>1, <3>1 DEF o
    <3>3. tb.lines \subseteq [id : 1 .. d.last, number : {None} \cup Numbers,
                              policy : {"none", "initial", "set"}]
      BY <1>3, <2>1, <3>1 DEF TablesTypeOK
    <3>4. Keyed(d.lines)
      BY <1>3, <2>1, <2>2 DEF Keyed, TablesTypeOK
    <3>5. QED
      BY <1>3, <1>7, <2>1, <3>1, <3>2, <3>3, <3>4 DEF TablesTypeOK
  <2>5. \A k \in Ids(tb.lines) : k \in Ids(d.lines) /\ k # target
    BY <1>9, <2>1 DEF Ids
  <2>6. /\ \A x \in tb.cards : x.line # target /\ x.line \in Ids(d.lines)
        /\ \A x \in tb.subs : x.line # target /\ x.line \in Ids(d.lines)
        /\ \A x \in tb.legacy : x.line # target /\ x.line \in Ids(d.lines)
        /\ \A x \in tb.rows : x.line # target /\ x.line \in Ids(d.lines)
    BY <1>3, <2>5 DEF NamesResolve
  <2>7. NamesResolve(d)
    <3>1. \A x, y \in d.lines : x.number = y.number => x = y \/ x.number = None
      BY <1>3, <2>1, <2>3 DEF NamesResolve
    <3>2. \A x \in d.rows, y \in d.lines :
            x.number # None /\ y.id = x.line => y.number = x.number
      BY <1>3, <1>7, <2>1, <2>6 DEF NamesResolve
    <3>3. QED
      BY <1>7, <2>6, <3>1, <3>2 DEF NamesResolve
  <2>8. PlacesAgree(d) /\ OnePlaceBut(d, target) /\ OneSubscriptionBut(d, target)
    <3>1. PlacesAgree(d) /\ OnePlaceBut(d, target)
      BY <1>3, <1>5, <1>7 DEF PlacesAgree, OnePlaceBut
    <3>2. \A l \in d.lines : l.id # target => l \in tb.lines
      BY <2>1
    <3>3. QED
      BY <1>5, <1>7, <3>1, <3>2 DEF OneSubscriptionBut, OwnedBy
  <2>9. Part(d, target) /\ target \in Ids(d.lines)
    BY <1>7, <2>1, <2>4, <2>7, <2>8 DEF Part, Ids
  <2>10. LegacyIsAlone(d) /\ \A x \in d.legacy : x.line # target
    BY <1>3, <1>7, <2>1, <2>6 DEF LegacyIsAlone
  <2>11. AttachedStay(d, seen) /\ AttachedElsewhere(d, target, {})
    BY <1>7, <2>1, <2>2 DEF AttachedStay, AttachedElsewhere, OwnedBy
  <2>12. OwnedBy(d, target, o.imsi)
    BY <1>7, <2>6 DEF OwnedBy
  <2>13. Ready(d, o, target, seen)
    BY <2>1, <2>2, <2>3, <2>9, <2>10, <2>11, <2>12 DEF Ready, o
  <2>14. \A k \in tb.lines, l \in d.lines :
           k.id = l.id /\ k.policy = "set" => l.policy = "set"
    BY <1>3, <2>1, <2>2 DEF TablesTypeOK, Keyed
  <2>15. SettingsKept(tb, d)
    BY <1>3, <1>7, <2>14, SettingsKeptSame
  <2>16. QED
    BY <2>13, <2>15 DEF d, o
<1>10. QED
  BY <1>8, <1>9

\* They are found by the card or the subscription, and have no number.
LEMMA AliasesAre ==
  ASSUME LinesAssumption, NEW tb, Whole(tb), Consistent(tb), NEW o, NEW M,
         MatchesTrue(tb, o, M), NEW target, ChosenOK(tb, o, target),
         NEW k \in Aliases(Made(tb, o, target), o, M, target)
  PROVE  /\ k # target /\ Touched(tb, o, k)
         /\ \E l \in tb.lines : l.id = k /\ l.number = None
<1> DEFINE d == Made(tb, o, target)
           number == FirstOf(NumberOf(d, target), o.number)
           new == [id |-> target, number |-> o.number, policy |-> "none"]
<1>1. /\ k \in {M.iccid, M.imsi, M.number} /\ k # target /\ k # None
      /\ NumberOf(d, k) \in {None, number}
  BY DEF Aliases, MergeableStableLineAliases
<1>2. d.lines = IF target \in Ids(tb.lines) THEN tb.lines ELSE tb.lines \cup {new}
  BY DEF Made, Whole
<1>3. TablesTypeOK(tb) /\ NamesResolve(tb) /\ Keyed(tb.lines)
  BY DEF Consistent, TablesTypeOK
<1> HIDE DEF d
<1>4. Keyed(d.lines)
  BY <1>2, <1>3 DEF Keyed, Ids
<1>5. PICK l \in tb.lines : l.id = k
  <2>1. k \in {M.iccid, M.imsi} => Touched(tb, o, k)
    BY <1>1 DEF MatchesTrue, Touched
  <2>2. Touched(tb, o, k) => \E x \in tb.lines : x.id = k
    BY <1>3 DEF Touched, NamesResolve, Ids
  <2>3. k = M.number => \E x \in tb.lines : x.id = k
    BY <1>1 DEF MatchesTrue
  <2>4. QED
    BY <1>1, <2>1, <2>2, <2>3
<1>6. l \in d.lines /\ NumberOf(d, k) = l.number
  BY <1>2, <1>4, <1>5, GetIs DEF NumberOf
<1>7. l.number = None
  <2>1. SUFFICES ASSUME l.number # None PROVE FALSE
    OBVIOUS
  <2>2. l.number = number
    BY <1>1, <1>6, <2>1
  <2>3. o.number # None => l.number # o.number
    BY <1>1, <1>5 DEF ChosenOK
  <2>4. NumberOf(d, target) = l.number
    BY <2>1, <2>2, <2>3 DEF FirstOf
  <2>5. target \in Ids(d.lines)
    BY <1>2 DEF Ids
  <2>6. PICK j \in d.lines : j.id = target /\ j.number = l.number
    BY <2>4, <2>5, GetIn DEF NumberOf
  <2>7. CASE j \in tb.lines
    BY <1>1, <1>3, <1>5, <2>1, <2>6, <2>7 DEF NamesResolve
  <2>8. CASE j \notin tb.lines
    <3>1. j = new
      BY <1>2, <2>6, <2>8
    <3>2. l.number = o.number
      BY <2>6, <3>1
    <3>3. QED
      BY <2>1, <2>3, <3>2
  <2>9. QED
    BY <2>7, <2>8
<1>8. k # M.number
  <2>1. SUFFICES ASSUME k = M.number PROVE FALSE
    OBVIOUS
  <2>2. PICK x \in tb.lines : x.id = k /\ x.number = o.number /\ o.number # None
    BY <1>1, <2>1 DEF MatchesTrue
  <2>3. x = l
    BY <1>3, <1>5, <2>2 DEF Keyed
  <2>4. QED
    BY <1>7, <2>2, <2>3
<1>9. Touched(tb, o, k)
  BY <1>1, <1>8 DEF MatchesTrue, Touched
<1>10. QED
  BY <1>1, <1>5, <1>7, <1>9

\* A line is ready for the next step after a merge.
LEMMA MergeReady ==
  ASSUME NEW tb, NEW o, NEW target, NEW seen, Ready(tb, o, target, seen), NEW A,
         MayMerge(tb, target, A), AttachedElsewhere(tb, target, A),
         \A x \in tb.legacy : x.line \notin A,
         \A l \in A : OwnedBy(tb, l, o.imsi)
  PROVE  LET d == MergeStableLines(tb, target, A)
         IN Ready(d, o, target, seen) /\ SettingsKept(tb, d)
<1> DEFINE d == MergeStableLines(tb, target, A)
<1>1. Whole(d) /\ TablesTypeOK(d) /\ MergedTo(d, tb, target, A)
  BY MergeEffect DEF Ready, Part
<1> HIDE DEF d
<1>2. Part(d, target) /\ target \in Ids(d.lines) /\ SettingsKept(tb, d)
  BY <1>1, MergePart DEF Ready
<1>3. LegacyIsAlone(d) /\ \A x \in d.legacy : x.line # target
  BY <1>1, MergeLegacy DEF Ready
<1>4. AttachedStay(d, seen) /\ AttachedElsewhere(d, target, {})
  BY <1>1, MergeAttached DEF Ready, Part
<1>5. \A l \in d.lines :
        /\ l.id = target /\ o.number # None => l.number \in {None, o.number}
        /\ o.number # None /\ l.number = o.number => l.id = target
        /\ l.id = target /\ l.number = None /\ o.number = None =>
            OwnedBy(tb, target, o.imsi)
  BY <1>1 DEF Ready, MergedTo
<1>6. OwnedBy(tb, target, o.imsi) => OwnedBy(d, target, o.imsi)
  BY <1>1, MergeIntoOwn
<1>7. Ready(d, o, target, seen)
  BY <1>2, <1>3, <1>4, <1>5, <1>6 DEF Ready
<1>8. QED
  BY <1>2, <1>7 DEF d

\* The line gets the number that was seen.
LEMMA RenamedReady ==
  ASSUME LinesAssumption, NEW tb, NEW o \in Observations, o # Empty, NEW target,
         NEW seen, Ready(tb, o, target, seen)
  PROVE  LET d == Renamed(tb, o, target)
         IN /\ Ready(d, o, target, seen) /\ NamedOrOwn(d, o, target)
            /\ SettingsKept(tb, d)
<1>1. CASE o.number = None
  <2>1. Renamed(tb, o, target) = tb
    BY <1>1 DEF Renamed
  <2>2. NamedOrOwn(tb, o, target)
    BY <1>1 DEF Ready, NamedOrOwn
  <2>3. SettingsKept(tb, tb)
    <3>1. TablesTypeOK(tb) /\ NamesResolve(tb)
      BY DEF Ready, Part
    <3>2. \A k, l \in tb.lines : k.id = l.id /\ k.policy = "set" => l.policy = "set"
      BY <3>1 DEF TablesTypeOK, Keyed
    <3>3. QED
      BY <3>1, <3>2, SettingsKeptSame
  <2>4. QED
    BY <2>1, <2>2, <2>3
<1>2. CASE o.number # None
  <2> DEFINE d == Renamed(tb, o, target)
             r == Get(tb.lines, target)
             new == [r EXCEPT !.number = o.number]
  <2>1. /\ Whole(d) /\ d.lines = {x \in tb.lines : x.id # new.id} \cup {new}
        /\ d.last = tb.last /\ d.cards = tb.cards /\ d.subs = tb.subs
        /\ d.rows = tb.rows /\ d.legacy = tb.legacy /\ d.devices = tb.devices
        /\ d.at = tb.at
    BY <1>2 DEF Renamed, ReplaceRow, Whole, Ready, Part
  <2>2. r \in tb.lines /\ r.id = target
    BY GetIn DEF Ready
  <2>3. /\ TablesTypeOK(tb) /\ NamesResolve(tb) /\ PlacesAgree(tb)
        /\ OnePlaceBut(tb, target) /\ OneSubscriptionBut(tb, target)
        /\ LegacyIsAlone(tb) /\ Keyed(tb.lines)
    BY DEF Ready, Part, TablesTypeOK
  <2>4. /\ new.id = target /\ new.number = o.number /\ new.policy = r.policy
        /\ new \in [id : 1 .. tb.last, number : {None} \cup Numbers,
                    policy : {"none", "initial", "set"}]
    <3>1. r \in [id : 1 .. tb.last, number : {None} \cup Numbers,
                 policy : {"none", "initial", "set"}]
      BY <2>2, <2>3 DEF TablesTypeOK
    <3>2. o.number \in {None} \cup Numbers
      BY <1>2, ObservationKinds
    <3>3. QED
      BY <2>2, <3>1, <3>2
  <2> HIDE DEF d, r, new
  <2>5. /\ \A y \in d.lines : y = new \/ (y \in tb.lines /\ y.id # target)
        /\ \A x \in tb.lines : x.id # target => x \in d.lines
        /\ new \in d.lines
    BY <2>1, <2>4
  <2>6. r.number \in {None, o.number}
    BY <1>2, <2>2 DEF Ready
  <2>7. \A x \in tb.lines : x.number = o.number => x.id = target
    BY <1>2 DEF Ready
  <2>8. Keyed(d.lines)
    BY <2>3, <2>4, <2>5 DEF Keyed
  <2>9. TablesTypeOK(d)
    <3>1. d.lines \subseteq [id : 1 .. d.last, number : {None} \cup Numbers,
                             policy : {"none", "initial", "set"}]
      BY <2>1, <2>3, <2>4 DEF TablesTypeOK
    <3>2. QED
      BY <2>1, <2>3, <2>8, <3>1 DEF TablesTypeOK
  <2>10. Ids(d.lines) = Ids(tb.lines)
    <3>1. \A k : k \in Ids(d.lines) => k \in Ids(tb.lines)
      BY <2>2, <2>4, <2>5 DEF Ids
    <3>2. \A k : k \in Ids(tb.lines) => k \in Ids(d.lines)
      BY <2>4, <2>5 DEF Ids
    <3>3. QED
      BY <3>1, <3>2
  <2>11. NamesResolve(d)
    <3>1. \A x, y \in d.lines : x.number = y.number => x = y \/ x.number = None
      BY <2>3, <2>4, <2>5, <2>7 DEF NamesResolve
    <3>2. ASSUME NEW x \in d.rows, NEW y \in d.lines, x.number # None, y.id = x.line
          PROVE  y.number = x.number
      <4>1. x \in tb.rows
        BY <2>1
      <4>2. CASE y = new
        <5>1. r.number = x.number
          BY <2>2, <2>3, <2>4, <3>2, <4>1, <4>2 DEF NamesResolve
        <5>2. QED
          BY <2>4, <2>6, <3>2, <4>2, <5>1
      <4>3. CASE y \in tb.lines
        BY <2>3, <3>2, <4>1, <4>3 DEF NamesResolve
      <4>4. QED
        BY <2>5, <4>2, <4>3
    <3>3. QED
      BY <2>1, <2>3, <2>10, <3>1, <3>2 DEF NamesResolve
  <2>12. PlacesAgree(d) /\ OnePlaceBut(d, target)
    BY <2>1, <2>3 DEF PlacesAgree, OnePlaceBut
  <2>13. OneSubscriptionBut(d, target)
    BY <2>1, <2>3, <2>4, <2>5 DEF OneSubscriptionBut, OwnedBy
  <2>14. LegacyIsAlone(d) /\ \A x \in d.legacy : x.line # target
    <3>1. \A x \in tb.legacy : x.line # target
      BY DEF Ready
    <3>2. QED
      BY <2>1, <2>3, <2>4, <2>5, <3>1 DEF LegacyIsAlone
  <2>15. AttachedStay(d, seen)
    <3>1. ASSUME NEW a \in d.at
          PROVE  /\ a.id \in Modems /\ seen[a.id] # Empty
                 /\ \E l \in d.lines :
                      /\ l.id = a.line
                      /\ l.number = None => OwnedBy(d, l.id, seen[a.id].imsi)
      <4>1. PICK l \in tb.lines :
              /\ l.id = a.line
              /\ l.number = None => OwnedBy(tb, l.id, seen[a.id].imsi)
        BY <2>1 DEF Ready, AttachedStay
      <4>2. a.id \in Modems /\ seen[a.id] # Empty
        BY <2>1 DEF Ready, AttachedStay
      <4>3. CASE l.id = target
        BY <1>2, <2>4, <2>5, <4>1, <4>2, <4>3
      <4>4. CASE l.id # target
        BY <2>1, <2>5, <4>1, <4>2, <4>4 DEF OwnedBy
      <4>5. QED
        BY <4>3, <4>4
    <3>2. QED
      BY <3>1 DEF AttachedStay
  <2>16. \A l \in d.lines : l.id = target => l.number = o.number
    BY <2>4, <2>5
  <2>17. \A l \in d.lines : l.number = o.number => l.id = target
    BY <2>4, <2>5, <2>7
  <2>18. AttachedElsewhere(d, target, {}) /\ NamedOrOwn(d, o, target)
    BY <1>2, <2>16 DEF AttachedElsewhere, NamedOrOwn
  <2>19. Ready(d, o, target, seen)
    <3>1. Part(d, target) /\ target \in Ids(d.lines)
      BY <2>1, <2>9, <2>10, <2>11, <2>12, <2>13 DEF Part, Ready
    <3>2. QED
      BY <1>2, <2>14, <2>15, <2>16, <2>17, <2>18, <3>1 DEF Ready
  <2>20. SettingsKept(tb, d)
    <3>1. \A k \in tb.lines, l \in d.lines :
            k.id = l.id /\ k.policy = "set" => l.policy = "set"
      BY <2>2, <2>3, <2>4, <2>5 DEF Keyed
    <3>2. QED
      BY <2>1, <2>3, <3>1, SettingsKeptSame
  <2>21. QED
    BY <2>18, <2>19, <2>20 DEF d
<1>3. QED
  BY <1>1, <1>2

\* The lines an upgrade left at a modem.
LEMMA ProvisionalAre ==
  ASSUME NEW tb, TablesTypeOK(tb), NamesResolve(tb), LegacyIsAlone(tb), NEW m
  PROVE  Provisional(tb, m) = {x.line : x \in {y \in tb.legacy : y.id = m}}
<1>1. \A x \in tb.legacy : NumberOf(tb, x.line) = None
  <2>1. ASSUME NEW x \in tb.legacy
        PROVE  NumberOf(tb, x.line) = None
    <3>1. x.line \in Ids(tb.lines)
      BY DEF NamesResolve
    <3>2. QED
      BY <3>1, GetIn DEF NumberOf, LegacyIsAlone
  <2>2. QED
    BY <2>1
<1>2. QED
  BY <1>1 DEF Provisional

\* They become the line's.
LEMMA ClaimedEffect ==
  ASSUME NEW tb, NEW o, NEW target, NEW seen, Ready(tb, o, target, seen),
         NEW m, NEW P, P = {x.line : x \in {y \in tb.legacy : y.id = m}}
  PROVE  LET d == Claimed(tb, m, target, P)
         IN /\ Whole(d) /\ TablesTypeOK(d) /\ MergedTo(d, tb, target, P)
            /\ MayMerge(tb, target, P)
            /\ P # {} => \A x \in d.legacy : x.id # m
<1> DEFINE e == MergeStableLines(tb, target, P)
           d == Claimed(tb, m, target, P)
           F(x) == IF x.id = target /\ x.policy = "none"
                   THEN [x EXCEPT !.policy = "initial"] ELSE x
<1>1. /\ TablesTypeOK(tb) /\ NamesResolve(tb) /\ LegacyIsAlone(tb) /\ Whole(tb)
      /\ target \in Ids(tb.lines) /\ \A x \in tb.legacy : x.line # target
  BY DEF Ready, Part
<1>2. target \notin P /\ P \ {target} = P
  BY <1>1
<1>3. MayMerge(tb, target, P)
  <2>1. ASSUME NEW l \in P
        PROVE  \E x \in tb.lines : x.id = l /\ x.number = None
    <3>1. PICK y \in tb.legacy : y.line = l
      BY <2>1
    <3>2. PICK x \in tb.lines : x.id = l
      BY <1>1, <3>1 DEF NamesResolve, Ids
    <3>3. QED
      BY <1>1, <3>1, <3>2 DEF LegacyIsAlone
  <2>2. QED
    BY <1>1, <1>2, <2>1 DEF MayMerge
<1>4. Whole(e) /\ TablesTypeOK(e) /\ MergedTo(e, tb, target, P)
  BY <1>1, <1>3, MergeEffect
<1>5. d = [e EXCEPT !.legacy = IF P = {} THEN @ ELSE {x \in @ : x.id # m},
                    !.lines = {F(x) : x \in @}]
  BY <1>2 DEF Claimed
<1> HIDE DEF e, d, F
<1>6. /\ Whole(d)
      /\ d.legacy = IF P = {} THEN e.legacy ELSE {x \in e.legacy : x.id # m}
      /\ d.lines = {F(x) : x \in e.lines}
      /\ d.last = e.last /\ d.cards = e.cards /\ d.subs = e.subs
      /\ d.rows = e.rows /\ d.devices = e.devices /\ d.at = e.at
  BY <1>4, <1>5 DEF Whole
<1>7. \A x \in e.lines :
        /\ F(x).id = x.id /\ F(x).number = x.number
        /\ x.policy = "set" => F(x).policy = "set"
        /\ F(x) \in [id : 1 .. e.last, number : {None} \cup Numbers,
                     policy : {"none", "initial", "set"}]
  BY <1>4 DEF F, TablesTypeOK
<1>8. Keyed(d.lines)
  BY <1>4, <1>6, <1>7 DEF Keyed, TablesTypeOK
<1>9. d.legacy \subseteq e.legacy /\ (P # {} => \A x \in d.legacy : x.id # m)
  BY <1>6
<1>10. TablesTypeOK(d)
  <2>1. d.lines \subseteq [id : 1 .. d.last, number : {None} \cup Numbers,
                           policy : {"none", "initial", "set"}]
    BY <1>6, <1>7
  <2>2. d.legacy \subseteq [id : Modems, line : Nat] /\ Keyed(d.legacy)
    BY <1>4, <1>9 DEF TablesTypeOK, Keyed
  <2>3. QED
    BY <1>4, <1>6, <1>8, <2>1, <2>2 DEF TablesTypeOK
<1>11. MergedTo(d, tb, target, P)
  <2>1. \A y \in d.lines : \E x \in e.lines :
          y.id = x.id /\ y.number = x.number /\ (x.policy = "set" => y.policy = "set")
    BY <1>6, <1>7
  <2>2. \A x \in e.lines : \E y \in d.lines : y.id = x.id /\ y.number = x.number
    BY <1>6, <1>7
  <2>3. \A y \in d.lines : \E x \in tb.lines :
          /\ y.id = x.id /\ y.number = x.number /\ x.id \notin P
          /\ x.policy = "set" => y.policy = "set"
    <3>1. ASSUME NEW y \in d.lines
          PROVE  \E x \in tb.lines :
                   /\ y.id = x.id /\ y.number = x.number /\ x.id \notin P
                   /\ x.policy = "set" => y.policy = "set"
      <4>1. PICK z \in e.lines : /\ y.id = z.id /\ y.number = z.number
                                 /\ z.policy = "set" => y.policy = "set"
        BY <2>1
      <4>2. PICK x \in tb.lines : /\ z.id = x.id /\ z.number = x.number /\ x.id \notin P
                                  /\ x.policy = "set" => z.policy = "set"
        BY <1>4 DEF MergedTo
      <4>3. QED
        BY <4>1, <4>2
    <3>2. QED
      BY <3>1
  <2>4. \A x \in tb.lines : x.id \notin P =>
          \E y \in d.lines : y.id = x.id /\ y.number = x.number
    <3>1. ASSUME NEW x \in tb.lines, x.id \notin P
          PROVE  \E y \in d.lines : y.id = x.id /\ y.number = x.number
      <4>1. PICK z \in e.lines : z.id = x.id /\ z.number = x.number
        BY <1>4, <3>1 DEF MergedTo
      <4>2. QED
        BY <2>2, <4>1
    <3>2. QED
      BY <3>1
  <2>5. Follows(d.legacy, tb.legacy, target, P)
    BY <1>4, <1>9 DEF MergedTo, Follows
  <2>6. \A x \in tb.lines, y \in d.lines :
          x.id \in P /\ y.id = target /\ x.policy = "set" => y.policy = "set"
    <3>1. ASSUME NEW x \in tb.lines, NEW y \in d.lines,
                 x.id \in P, y.id = target, x.policy = "set"
          PROVE  y.policy = "set"
      <4>1. PICK z \in e.lines : /\ y.id = z.id
                                 /\ z.policy = "set" => y.policy = "set"
        BY <2>1
      <4>2. QED
        BY <1>4, <3>1, <4>1 DEF MergedTo
    <3>2. QED
      BY <3>1
  <2>7. /\ d.devices = tb.devices /\ d.at = tb.at /\ d.last = tb.last
        /\ Follows(d.subs, tb.subs, target, P) /\ Ids(d.rows) = Ids(tb.rows)
    BY <1>4, <1>6 DEF MergedTo
  <2>8. /\ \A y \in d.cards : \E x \in tb.cards :
             /\ x.id = y.id /\ x.at = y.at
             /\ y.line = IF x.line \in P THEN target ELSE x.line
        /\ \A x \in tb.cards : \E y \in d.cards :
             /\ x.id = y.id /\ x.at = y.at
             /\ y.line = IF x.line \in P THEN target ELSE x.line
    BY <1>4, <1>6 DEF MergedTo
  <2>9. \A y \in d.rows : \E x \in tb.rows :
          /\ x.id = y.id /\ x.number = y.number
          /\ y.line = IF x.line \in P THEN target ELSE x.line
    BY <1>4, <1>6 DEF MergedTo
  <2>10. QED
    BY <2>3, <2>4, <2>5, <2>6, <2>7, <2>8, <2>9 DEF MergedTo
<1>12. QED
  BY <1>3, <1>6, <1>9, <1>10, <1>11 DEF d

\* The line takes over what an upgrade left at the modem.
LEMMA ClaimedReady ==
  ASSUME NEW tb, NEW o, NEW target, NEW seen, Ready(tb, o, target, seen),
         NamedOrOwn(tb, o, target),
         NEW m, NEW P, P = {x.line : x \in {y \in tb.legacy : y.id = m}}
  PROVE  LET d == Claimed(tb, m, target, P)
         IN /\ Ready(d, o, target, seen) /\ NamedOrOwn(d, o, target)
            /\ SettingsKept(tb, d)
<1> DEFINE d == Claimed(tb, m, target, P)
<1>1. /\ Whole(d) /\ TablesTypeOK(d) /\ MergedTo(d, tb, target, P)
      /\ MayMerge(tb, target, P)
      /\ P # {} => \A x \in d.legacy : x.id # m
  BY ClaimedEffect
<1> HIDE DEF d
<1>2. Part(d, target) /\ target \in Ids(d.lines) /\ SettingsKept(tb, d)
  BY <1>1, MergePart DEF Ready
<1>3. LegacyIsAlone(tb) /\ (\A x \in tb.legacy : x.line # target) /\ TablesTypeOK(tb)
  BY DEF Ready, Part
<1>4. \A x \in tb.legacy : x.line \notin P \/ ~ \E y \in d.legacy : y.id = x.id
  <2>1. ASSUME NEW x \in tb.legacy, x.line \in P, NEW y \in d.legacy, y.id = x.id
        PROVE  FALSE
    <3>1. PICK z \in tb.legacy : z.id = m /\ z.line = x.line
      BY <2>1
    <3>2. z = x
      BY <1>3, <3>1 DEF LegacyIsAlone
    <3>3. QED
      BY <1>1, <2>1, <3>1, <3>2
  <2>2. QED
    BY <2>1
<1>5. LegacyIsAlone(d) /\ \A x \in d.legacy : x.line # target
  BY <1>1, <1>3, <1>4, MergeLegacy
<1>6. AttachedElsewhere(tb, target, P)
  <2>1. \A a \in tb.at : a.line \notin P
    BY <1>3 DEF LegacyIsAlone
  <2>2. QED
    BY <2>1 DEF Ready, AttachedElsewhere
<1>7. AttachedStay(d, seen) /\ AttachedElsewhere(d, target, {})
  BY <1>1, <1>3, <1>6, MergeAttached DEF Ready
<1>8. \A l \in P : OwnedBy(tb, l, o.imsi)
  BY <1>3 DEF LegacyIsAlone, OwnedBy
<1>9. \A l \in d.lines :
        /\ l.id = target /\ o.number # None => l.number \in {None, o.number}
        /\ o.number # None /\ l.number = o.number => l.id = target
        /\ l.id = target /\ l.number = None => OwnedBy(tb, target, o.imsi)
  BY <1>1 DEF Ready, MergedTo, NamedOrOwn
<1>10. OwnedBy(tb, target, o.imsi) => OwnedBy(d, target, o.imsi)
  BY <1>1, <1>8, MergeIntoOwn
<1>11. NamedOrOwn(d, o, target)
  BY <1>9, <1>10 DEF NamedOrOwn
<1>12. Ready(d, o, target, seen)
  BY <1>2, <1>5, <1>7, <1>9, <1>11 DEF Ready, NamedOrOwn
<1>13. QED
  BY <1>2, <1>11, <1>12 DEF d

-----------------------------------------------------------------------------
(* Lines: the card is attached                                             *)

\* The fields after an attachment.
LEMMA AttachFields ==
  ASSUME LinesAssumption, NEW tb, Whole(tb), NEW m, NEW target,
         NEW o \in Observations, o # Empty
  PROVE  LET d == Attach(tb, m, target, o)
             new == [id |-> o.iccid, line |-> target, at |-> m]
             leaving == {x \in tb.cards : \/ x.at = m /\ x.id # o.iccid
                                          \/ target # None /\ x.line = target}
             detached == {IF x \in leaving THEN [x EXCEPT !.at = None] ELSE x :
                            x \in tb.cards}
             vacated == {x \in tb.devices : x.id = m \/ x.card = o.iccid
                           \/ \E y \in leaving : y.at = x.id}
         IN /\ Whole(d)
            /\ d.cards = {x \in detached : x.id # o.iccid} \cup {new}
            /\ d.devices = (tb.devices \ vacated) \cup {[id |-> m, card |-> o.iccid]}
            /\ d.subs = {x \in tb.subs : x.id # o.imsi}
                          \cup {[id |-> o.imsi, line |-> target]}
            /\ d.lines = tb.lines /\ d.last = tb.last /\ d.rows = tb.rows
            /\ d.legacy = tb.legacy /\ d.at = tb.at
<1>1. o.iccid # None /\ o.imsi # None
  BY ObservationKinds
<1>2. QED
  BY <1>1 DEF Attach, Whole, ReplaceRow

\* A card in a modem: whoever was there is detached, in all the tables.
LEMMA AttachKeeps ==
  ASSUME LinesAssumption, NEW tb, NEW m \in Modems, NEW target,
         NEW o \in Observations, o # Empty, NEW seen,
         Ready(tb, o, target, seen), NamedOrOwn(tb, o, target)
  PROVE  LET d == Attach(tb, m, target, o)
         IN /\ Whole(d) /\ Consistent(d) /\ target \in Ids(d.lines) /\ d.at = tb.at
            /\ AttachedStay(d, seen) /\ NamedOrOwn(d, o, target)
            /\ \A x \in d.legacy : x.line # target
            /\ SettingsKept(tb, d)
<1> DEFINE d == Attach(tb, m, target, o)
           c == o.iccid
           new == [id |-> c, line |-> target, at |-> m]
           sub == [id |-> o.imsi, line |-> target]
           leaving == {x \in tb.cards : \/ x.at = m /\ x.id # c
                                        \/ target # None /\ x.line = target}
           F(x) == IF x \in leaving THEN [x EXCEPT !.at = None] ELSE x
           detached == {F(x) : x \in tb.cards}
           vacated == {x \in tb.devices : x.id = m \/ x.card = c
                         \/ \E y \in leaving : y.at = x.id}
<1>1. /\ Whole(d)
      /\ d.cards = {x \in detached : x.id # c} \cup {new}
      /\ d.devices = (tb.devices \ vacated) \cup {[id |-> m, card |-> c]}
      /\ d.subs = {x \in tb.subs : x.id # o.imsi} \cup {sub}
      /\ d.lines = tb.lines /\ d.last = tb.last /\ d.rows = tb.rows
      /\ d.legacy = tb.legacy /\ d.at = tb.at
  BY AttachFields DEF Ready, Part
<1>2. /\ TablesTypeOK(tb) /\ NamesResolve(tb) /\ PlacesAgree(tb)
      /\ OnePlaceBut(tb, target) /\ OneSubscriptionBut(tb, target)
      /\ LegacyIsAlone(tb) /\ (\A x \in tb.legacy : x.line # target)
      /\ target \in Ids(tb.lines) /\ AttachedStay(tb, seen)
      /\ AttachedElsewhere(tb, target, {})
  BY DEF Ready, Part
<1>3. c \in Cards /\ o.imsi \in Subs /\ o.imsi = Sub[c]
  BY ObservationKinds
<1>4. target \in Nat /\ target # None /\ None \notin Modems
  BY <1>2 DEF TablesTypeOK, Ids, LinesAssumption
<1> HIDE DEF d
<1>5. \A x \in tb.cards : x \in [id : Cards, line : Nat, at : {None} \cup Modems]
  BY <1>2 DEF TablesTypeOK
<1>6. \A y \in detached : \E x \in tb.cards :
        /\ y.id = x.id /\ y.line = x.line
        /\ y.at = IF x \in leaving THEN None ELSE x.at
        /\ y \in [id : Cards, line : Nat, at : {None} \cup Modems]
  BY <1>5
<1>7. \A x \in tb.cards : x \notin leaving => x \in detached
  OBVIOUS
<1>8. new \in [id : Cards, line : Nat, at : {None} \cup Modems]
      /\ new.id = c /\ new.line = target /\ new.at = m
  BY <1>3, <1>4
<1>9. sub \in [id : Subs, line : Nat] /\ sub.id = o.imsi /\ sub.line = target
  BY <1>3, <1>4
<1>10. \A x \in tb.cards :
         x \in leaving <=> (x.at = m /\ x.id # c) \/ x.line = target
  BY <1>4
<1>11. \A x \in tb.devices :
         x \in vacated <=> x.id = m \/ x.card = c \/ \E y \in leaving : y.at = x.id
  OBVIOUS
<1> HIDE DEF new, sub, detached, vacated, leaving
<1>12. /\ \A y \in d.cards : y = new \/
            (/\ y.id # c
             /\ \E x \in tb.cards : /\ y.id = x.id /\ y.line = x.line
                                    /\ y.at = IF x \in leaving THEN None ELSE x.at)
       /\ \A x \in tb.cards : x.id # c /\ x \notin leaving => x \in d.cards
       /\ new \in d.cards
       /\ d.cards \subseteq [id : Cards, line : Nat, at : {None} \cup Modems]
  BY <1>1, <1>6, <1>7, <1>8
<1>13. /\ \A y \in d.subs : y = sub \/ (y \in tb.subs /\ y.id # o.imsi)
       /\ d.subs \subseteq [id : Subs, line : Nat]
  BY <1>1, <1>2, <1>9 DEF TablesTypeOK
<1>14. /\ Keyed(tb.lines) /\ Keyed(tb.cards) /\ Keyed(tb.subs) /\ Keyed(tb.devices)
       /\ tb.devices \subseteq [id : Modems, card : Cards]
  BY <1>2 DEF TablesTypeOK
<1>15. Keyed(d.cards)
  <2>1. \A x \in tb.cards : F(x).id = x.id
    BY <1>5
  <2> HIDE DEF F
  <2>2. \A y, z \in detached : y.id = z.id => y = z
    BY <1>14, <2>1 DEF detached, Keyed
  <2>3. QED
    BY <1>1, <1>8, <2>2 DEF Keyed
<1>16. Keyed(d.subs)
  BY <1>9, <1>13, <1>14 DEF Keyed
<1>17. Keyed(d.devices) /\ d.devices \subseteq [id : Modems, card : Cards]
  <2>1. \A x \in tb.devices \ vacated : x.id # m
    BY <1>11
  <2>2. QED
    BY <1>1, <1>3, <1>14, <2>1 DEF Keyed
<1>18. TablesTypeOK(d)
  BY <1>1, <1>2, <1>12, <1>13, <1>15, <1>16, <1>17 DEF TablesTypeOK
<1>19. NamesResolve(d)
  <2>1. \A x \in d.cards : x.line \in Ids(d.lines)
    BY <1>1, <1>2, <1>8, <1>12 DEF NamesResolve
  <2>2. \A x \in d.subs : x.line \in Ids(d.lines)
    BY <1>1, <1>2, <1>9, <1>13 DEF NamesResolve
  <2>3. QED
    BY <1>1, <1>2, <2>1, <2>2 DEF NamesResolve
<1>20. \A x \in d.devices : \E y \in d.cards : y.id = x.card /\ y.at = x.id
  <2>1. ASSUME NEW x \in tb.devices \ vacated
        PROVE  \E y \in d.cards : y.id = x.card /\ y.at = x.id
    <3>1. PICK y \in tb.cards : y.id = x.card /\ y.at = x.id
      BY <1>2 DEF PlacesAgree
    <3>2. y \notin leaving /\ y.id # c
      BY <1>11, <3>1
    <3>3. QED
      BY <1>12, <3>1, <3>2
  <2>2. [id |-> m, card |-> c].card = new.id /\ [id |-> m, card |-> c].id = new.at
    BY <1>8
  <2>3. QED
    BY <1>1, <1>12, <2>1, <2>2
<1>21. \A y \in d.cards :
         y.at # None => \E x \in d.devices : x.id = y.at /\ x.card = y.id
  <2>1. ASSUME NEW y \in d.cards, y # new, y.at # None
        PROVE  \E x \in d.devices : x.id = y.at /\ x.card = y.id
    <3>1. y.id # c /\ \E x \in tb.cards :
            /\ y.id = x.id /\ y.line = x.line
            /\ y.at = IF x \in leaving THEN None ELSE x.at
      BY <1>12, <2>1
    <3>2. PICK x \in tb.cards : x.id = y.id /\ x.at = y.at /\ x \notin leaving
      BY <2>1, <3>1
    <3>3. PICK z \in tb.devices : z.id = x.at /\ z.card = x.id
      BY <1>2, <2>1, <3>2 DEF PlacesAgree
    <3>4. z.id # m /\ z.card # c
      BY <1>10, <3>1, <3>2, <3>3
    <3>5. ASSUME NEW w \in leaving, w.at = z.id
          PROVE  FALSE
      <4>1. w \in tb.cards
        BY DEF leaving
      <4>2. w.at # None
        BY <2>1, <3>2, <3>3, <3>5
      <4>3. PICK v \in tb.devices : v.id = w.at /\ v.card = w.id
        BY <1>2, <4>1, <4>2 DEF PlacesAgree
      <4>4. v = z
        BY <1>14, <3>5, <4>3 DEF Keyed
      <4>5. w = x
        BY <1>14, <3>3, <4>1, <4>3, <4>4 DEF Keyed
      <4>6. QED
        BY <3>2, <4>5
    <3>6. z \notin vacated
      BY <1>11, <3>4, <3>5
    <3>7. QED
      BY <1>1, <3>2, <3>3, <3>6
  <2>2. [id |-> m, card |-> c].card = new.id /\ [id |-> m, card |-> c].id = new.at
    BY <1>8
  <2>3. QED
    BY <1>1, <2>1, <2>2
<1>22. OnePlaceBut(d, None)
  <2>1. ASSUME NEW x \in d.cards, NEW y \in d.cards, x.line = y.line, x # y,
               y # new
        PROVE  None \in {x.at, y.at}
    <3>1. PICK b \in tb.cards : /\ y.id = b.id /\ y.line = b.line
                                /\ y.at = IF b \in leaving THEN None ELSE b.at
      BY <1>12, <2>1
    <3>2. CASE x.line = target
      BY <1>10, <2>1, <3>1, <3>2
    <3>3. CASE x.line # target
      <4>1. x # new
        BY <1>8, <3>3
      <4>2. PICK a \in tb.cards : /\ x.id = a.id /\ x.line = a.line
                                  /\ x.at = IF a \in leaving THEN None ELSE a.at
        BY <1>12, <4>1
      <4>3. a # b
        BY <1>15, <2>1, <3>1, <4>2 DEF Keyed
      <4>4. None \in {a.at, b.at}
        BY <1>2, <2>1, <3>1, <3>3, <4>2, <4>3 DEF OnePlaceBut
      <4>5. QED
        BY <3>1, <4>2, <4>4
    <3>4. QED
      BY <3>2, <3>3
  <2>2. QED
    BY <2>1 DEF OnePlaceBut
<1>23. \A l, s : l # target /\ OwnedBy(tb, l, s) => OwnedBy(d, l, s)
  BY <1>8, <1>9, <1>12, <1>13 DEF OwnedBy
<1>24. NamedOrOwn(d, o, target)
  <2>1. OwnedBy(tb, target, o.imsi) => OwnedBy(d, target, o.imsi)
    BY <1>3, <1>8, <1>9, <1>12, <1>13 DEF OwnedBy
  <2>2. QED
    BY <1>1, <2>1 DEF NamedOrOwn
<1>25. OneSubscriptionBut(d, None)
  <2>1. ASSUME NEW l \in d.lines, l.number = None
        PROVE  \E s \in {None} \cup Subs : OwnedBy(d, l.id, s)
    <3>1. CASE l.id = target
      BY <1>3, <1>24, <2>1, <3>1 DEF NamedOrOwn
    <3>2. CASE l.id # target
      BY <1>1, <1>2, <1>23, <2>1, <3>2 DEF OneSubscriptionBut
    <3>3. QED
      BY <3>1, <3>2
  <2>2. QED
    BY <2>1 DEF OneSubscriptionBut
<1>26. LegacyIsAlone(d) /\ \A x \in d.legacy : x.line # target
  <2>1. \A x \in d.legacy : \A y \in d.cards : y.line # x.line
    BY <1>1, <1>2, <1>8, <1>12 DEF LegacyIsAlone
  <2>2. \A x \in d.legacy : \A y \in d.subs : y.line # x.line
    BY <1>1, <1>2, <1>9, <1>13 DEF LegacyIsAlone
  <2>3. QED
    BY <1>1, <1>2, <2>1, <2>2 DEF LegacyIsAlone
<1>27. Consistent(d)
  BY <1>18, <1>19, <1>20, <1>21, <1>22, <1>25, <1>26 DEF Consistent, PlacesAgree
<1>28. AttachedStay(d, seen)
  <2>1. ASSUME NEW a \in d.at
        PROVE  /\ a.id \in Modems /\ seen[a.id] # Empty
               /\ \E l \in d.lines :
                    /\ l.id = a.line
                    /\ l.number = None => OwnedBy(d, l.id, seen[a.id].imsi)
    <3>1. PICK l \in tb.lines :
            l.id = a.line /\ (l.number = None => OwnedBy(tb, l.id, seen[a.id].imsi))
      BY <1>1, <1>2 DEF AttachedStay
    <3>2. a.id \in Modems /\ seen[a.id] # Empty
      BY <1>1, <1>2 DEF AttachedStay
    <3>3. l.number = None => l.id # target
      BY <1>1, <1>2, <3>1 DEF AttachedElsewhere
    <3>4. QED
      BY <1>1, <1>23, <3>1, <3>2, <3>3
  <2>2. QED
    BY <2>1 DEF AttachedStay
<1>29. SettingsKept(tb, d)
  <2>1. \A k \in tb.lines, l \in d.lines :
          k.id = l.id /\ k.policy = "set" => l.policy = "set"
    BY <1>1, <1>14 DEF Keyed
  <2>2. QED
    BY <1>1, <1>2, <2>1, SettingsKeptSame
<1>30. QED
  BY <1>1, <1>2, <1>24, <1>26, <1>27, <1>28, <1>29 DEF d

\* A modem without a card, or one that is quarantined, has none.
LEMMA AttachNothing ==
  ASSUME LinesAssumption, NEW tb, Whole(tb), Consistent(tb), NEW m \in Modems,
         NEW seen, AttachedStay(tb, seen)
  PROVE  LET d == Attach(tb, m, None, Empty)
         IN /\ Whole(d) /\ Consistent(d) /\ d.at = tb.at
            /\ AttachedStay(d, seen) /\ SettingsKept(tb, d)
<1> DEFINE d == Attach(tb, m, None, Empty)
           leaving == {x \in tb.cards : \/ x.at = m /\ x.id # None
                                        \/ None # None /\ x.line = None}
           F(x) == IF x \in leaving THEN [x EXCEPT !.at = None] ELSE x
           vacated == {x \in tb.devices : x.id = m \/ x.card = None
                         \/ \E y \in leaving : y.at = x.id}
<1>1. /\ TablesTypeOK(tb) /\ NamesResolve(tb) /\ PlacesAgree(tb)
      /\ OnePlaceBut(tb, None) /\ OneSubscriptionBut(tb, None) /\ LegacyIsAlone(tb)
      /\ None \notin Cards /\ None \notin Modems
  BY DEF Consistent, LinesAssumption
<1>2. /\ Whole(d)
      /\ d.cards = {F(x) : x \in tb.cards} /\ d.devices = tb.devices \ vacated
      /\ d.subs = tb.subs /\ d.lines = tb.lines /\ d.last = tb.last
      /\ d.rows = tb.rows /\ d.legacy = tb.legacy /\ d.at = tb.at
  BY DEF Attach, Whole, Empty
<1>3. \A x \in tb.cards : x \in [id : Cards, line : Nat, at : {None} \cup Modems]
  BY <1>1 DEF TablesTypeOK
<1>4. \A x \in tb.cards : x \in leaving <=> x.at = m
  BY <1>1, <1>3
<1>5. \A x \in tb.cards :
        /\ F(x).id = x.id /\ F(x).line = x.line
        /\ F(x).at = IF x.at = m THEN None ELSE x.at
        /\ F(x) \in [id : Cards, line : Nat, at : {None} \cup Modems]
  BY <1>3, <1>4
<1>6. \A x \in tb.devices : x \in vacated <=> x.id = m
  <2>1. \A x \in tb.devices : x.card \in Cards
    BY <1>1 DEF TablesTypeOK
  <2>2. QED
    BY <1>1, <1>4, <2>1
<1> HIDE DEF d, F, leaving, vacated
<1>7. Keyed(d.cards)
  BY <1>1, <1>2, <1>5 DEF Keyed, TablesTypeOK
<1>8. TablesTypeOK(d)
  <2>1. d.devices \subseteq [id : Modems, card : Cards] /\ Keyed(d.devices)
    BY <1>1, <1>2 DEF TablesTypeOK, Keyed
  <2>2. d.cards \subseteq [id : Cards, line : Nat, at : {None} \cup Modems]
    BY <1>2, <1>5
  <2>3. QED
    BY <1>1, <1>2, <1>7, <2>1, <2>2 DEF TablesTypeOK
<1>9. NamesResolve(d)
  <2>1. \A x \in d.cards : x.line \in Ids(d.lines)
    BY <1>1, <1>2, <1>5 DEF NamesResolve
  <2>2. QED
    BY <1>1, <1>2, <2>1 DEF NamesResolve
<1>10. PlacesAgree(d)
  <2>1. ASSUME NEW x \in d.devices
        PROVE  \E y \in d.cards : y.id = x.card /\ y.at = x.id
    <3>1. x \in tb.devices /\ x.id # m
      BY <1>2, <1>6
    <3>2. PICK y \in tb.cards : y.id = x.card /\ y.at = x.id
      BY <1>1, <3>1 DEF PlacesAgree
    <3>3. F(y) \in d.cards /\ F(y).id = x.card /\ F(y).at = x.id
      BY <1>2, <1>5, <3>1, <3>2
    <3>4. QED
      BY <3>3
  <2>2. ASSUME NEW y \in d.cards, y.at # None
        PROVE  \E x \in d.devices : x.id = y.at /\ x.card = y.id
    <3>1. PICK x \in tb.cards : y = F(x)
      BY <1>2
    <3>2. x.at = y.at /\ x.at # m /\ x.id = y.id
      BY <1>5, <2>2, <3>1
    <3>3. PICK z \in tb.devices : z.id = x.at /\ z.card = x.id
      BY <1>1, <2>2, <3>2 DEF PlacesAgree
    <3>4. QED
      BY <1>2, <1>6, <3>2, <3>3
  <2>3. QED
    BY <2>1, <2>2 DEF PlacesAgree
<1>11. OnePlaceBut(d, None)
  <2>1. ASSUME NEW x \in d.cards, NEW y \in d.cards, x.line = y.line, x # y
        PROVE  None \in {x.at, y.at}
    <3>1. PICK a \in tb.cards : x = F(a)
      BY <1>2
    <3>2. PICK b \in tb.cards : y = F(b)
      BY <1>2
    <3>3. a # b /\ a.line = b.line /\ a.line # None
      BY <1>3, <1>5, <2>1, <3>1, <3>2 DEF LinesAssumption
    <3>4. None \in {a.at, b.at}
      BY <1>1, <3>3 DEF OnePlaceBut
    <3>5. QED
      BY <1>5, <3>1, <3>2, <3>4
  <2>2. QED
    BY <2>1 DEF OnePlaceBut
<1>12. \A l, s : OwnedBy(tb, l, s) => OwnedBy(d, l, s)
  BY <1>2, <1>5 DEF OwnedBy
<1>13. OneSubscriptionBut(d, None)
  BY <1>1, <1>2, <1>12 DEF OneSubscriptionBut
<1>14. LegacyIsAlone(d)
  <2>1. \A x \in d.legacy : \A y \in d.cards : y.line # x.line
    BY <1>1, <1>2, <1>5 DEF LegacyIsAlone
  <2>2. QED
    BY <1>1, <1>2, <2>1 DEF LegacyIsAlone
<1>15. Consistent(d)
  BY <1>8, <1>9, <1>10, <1>11, <1>13, <1>14 DEF Consistent
<1>16. AttachedStay(d, seen)
  BY <1>2, <1>12 DEF AttachedStay
<1>17. SettingsKept(tb, d)
  <2>1. \A k \in tb.lines, l \in d.lines :
          k.id = l.id /\ k.policy = "set" => l.policy = "set"
    BY <1>1, <1>2 DEF TablesTypeOK, Keyed
  <2>2. QED
    BY <1>1, <1>2, <2>1, SettingsKeptSame
<1>18. QED
  BY <1>2, <1>15, <1>16, <1>17 DEF d

\* The tables after a card has its line and its place.
LEMMA PlacedKeeps ==
  ASSUME LinesAssumption, NEW tb, Whole(tb), Consistent(tb), NEW m \in Modems,
         NEW target \in Ids(tb.lines), NEW seen, NEW o, o = seen[m], o # Empty,
         AttachedStay(tb, seen), NamedOrOwn(tb, o, target),
         \A x \in tb.legacy : x.line # target
  PROVE  LET d == PlacedAt(tb, m, target)
         IN /\ Whole(d) /\ Consistent(d) /\ AttachedStay(d, seen)
            /\ d.at = tb.at \cup {[id |-> m, line |-> target]}
            /\ SettingsKept(tb, d)
<1> DEFINE d == PlacedAt(tb, m, target)
           new == [id |-> m, line |-> target]
<1>1. /\ Whole(d) /\ d.at = tb.at \cup {new}
      /\ d.lines = tb.lines /\ d.last = tb.last /\ d.cards = tb.cards
      /\ d.subs = tb.subs /\ d.devices = tb.devices /\ d.legacy = tb.legacy
      /\ d.rows = tb.rows
  BY DEF PlacedAt, Whole
<1>2. new.id = m /\ new.line = target
  OBVIOUS
<1> HIDE DEF d, new
<1>3. /\ TablesTypeOK(tb) /\ NamesResolve(tb) /\ PlacesAgree(tb)
      /\ OnePlaceBut(tb, None) /\ OneSubscriptionBut(tb, None) /\ LegacyIsAlone(tb)
  BY DEF Consistent
<1>4. TablesTypeOK(d)
  BY <1>1, <1>3 DEF TablesTypeOK
<1>5. NamesResolve(d) /\ PlacesAgree(d) /\ OnePlaceBut(d, None)
  BY <1>1, <1>3 DEF NamesResolve, PlacesAgree, OnePlaceBut
<1>6. OneSubscriptionBut(d, None)
  BY <1>1, <1>3 DEF OneSubscriptionBut, OwnedBy
<1>7. LegacyIsAlone(d)
  BY <1>1, <1>2, <1>3 DEF LegacyIsAlone
<1>8. AttachedStay(d, seen)
  <2>1. ASSUME NEW a \in tb.at
        PROVE  /\ a.id \in Modems /\ seen[a.id] # Empty
               /\ \E l \in d.lines :
                    /\ l.id = a.line
                    /\ l.number = None => OwnedBy(d, l.id, seen[a.id].imsi)
    BY <1>1 DEF AttachedStay, OwnedBy
  <2>2. PICK l \in tb.lines : l.id = target
    BY DEF Ids
  <2>3. l.number = None => OwnedBy(d, l.id, seen[m].imsi)
    BY <1>1, <2>2 DEF NamedOrOwn, OwnedBy
  <2>4. QED
    BY <1>1, <1>2, <2>1, <2>2, <2>3 DEF AttachedStay
<1>9. SettingsKept(tb, d)
  <2>1. \A k \in tb.lines, l \in d.lines :
          k.id = l.id /\ k.policy = "set" => l.policy = "set"
    BY <1>1, <1>3 DEF TablesTypeOK, Keyed
  <2>2. QED
    BY <1>1, <1>3, <2>1, SettingsKeptSame
<1>10. QED
  BY <1>1, <1>4, <1>5, <1>6, <1>7, <1>8, <1>9 DEF Consistent, d, new

\* What nothing names is not rebound.
LEMMA ReboundSame ==
  ASSUME NEW T, NEW target, NEW A, \A x \in T : x.line \notin A
  PROVE  Rebind(T, target, A) = T
<1>1. \A x \in T : (IF x.line \in A THEN [x EXCEPT !.line = target] ELSE x) = x
  OBVIOUS
<1>2. QED
  BY <1>1 DEF Rebind

\* A line is found or made, merged and named before it is attached.
LEMMA ResolvedReady ==
  ASSUME LinesAssumption, NEW tb, NEW seen, NEW m, Visiting(tb, seen, m),
         seen[m] # Empty, NEW M, MatchesTrue(tb, seen[m], M),
         NEW target, ChosenOK(tb, seen[m], target), target # None
  PROVE  Resolved(ResolveOrCreateStableLine(tb, seen[m], M, target), tb, seen[m],
                  target, seen)
<1> DEFINE o == seen[m]
           d1 == Made(tb, o, target)
           A == Aliases(d1, o, M, target)
           d2 == MergeStableLines(d1, target, A)
           d3 == Renamed(d2, o, target)
           r == ResolveOrCreateStableLine(tb, o, M, target)
<1>1. r.line = target /\ r.db = d3
  BY DEF ResolveOrCreateStableLine, Merged, Aliases
<1>2. /\ o \in Observations /\ o # Empty /\ Whole(tb) /\ Consistent(tb)
      /\ seen \in [Modems -> Observations] /\ m \in Modems /\ Distinct(seen)
      /\ AttachedStay(tb, seen) /\ \A a \in tb.at : a.id # m
  BY DEF Visiting
<1>3. Ready(d1, o, target, seen) /\ SettingsKept(tb, d1)
  BY <1>2, MadeReady
<1>4. /\ \A x \in tb.lines : x \in d1.lines
      /\ d1.cards = tb.cards /\ d1.subs = tb.subs
      /\ d1.legacy = tb.legacy /\ d1.at = tb.at
  BY <1>2 DEF Made, Whole
<1>5. \A k \in A : /\ k # target /\ Touched(tb, o, k)
                   /\ \E l \in tb.lines : l.id = k /\ l.number = None
  <2>1. MatchesTrue(tb, o, M) /\ ChosenOK(tb, o, target)
    OBVIOUS
  <2> HIDE DEF o
  <2>2. ASSUME NEW k \in A
        PROVE  /\ k # target /\ Touched(tb, o, k)
               /\ \E l \in tb.lines : l.id = k /\ l.number = None
    BY <1>2, <2>1, AliasesAre
  <2>3. QED
    BY <2>2
<1>6. \A l \in tb.lines : l.number = None /\ Touched(tb, o, l.id) =>
        /\ \A a \in tb.at : a.line # l.id
        /\ \A x \in tb.legacy : x.line # l.id
        /\ OwnedBy(tb, l.id, o.imsi)
  BY <1>2, TouchedApart, TouchedOwn
<1> HIDE DEF o, d1, A
<1>7. \A k \in A : /\ \A a \in tb.at : a.line # k
                   /\ \A x \in tb.legacy : x.line # k
                   /\ OwnedBy(tb, k, o.imsi)
  BY <1>5, <1>6
<1>8. MayMerge(d1, target, A)
  BY <1>3, <1>4, <1>5 DEF MayMerge, Ready
<1>9. AttachedElsewhere(d1, target, A)
  BY <1>3, <1>4, <1>7 DEF AttachedElsewhere, Ready
<1>10. \A x \in d1.legacy : x.line \notin A
  BY <1>4, <1>7
<1>11. \A k \in A : OwnedBy(d1, k, o.imsi)
  BY <1>4, <1>7 DEF OwnedBy
<1>12. Ready(d2, o, target, seen) /\ SettingsKept(d1, d2)
  BY <1>3, <1>8, <1>9, <1>10, <1>11, MergeReady
<1>13. d2.legacy = d1.legacy /\ d2.at = d1.at
  <2>1. CASE A = {}
    BY <2>1 DEF MergeStableLines
  <2>2. CASE A # {}
    BY <1>3, <1>10, <2>2, MergeFields, ReboundSame DEF Ready, Part
  <2>3. QED
    BY <2>1, <2>2
<1> HIDE DEF d2
<1>14. Ready(d3, o, target, seen) /\ NamedOrOwn(d3, o, target) /\ SettingsKept(d2, d3)
  BY <1>2, <1>12, RenamedReady
<1>15. d3.legacy = d2.legacy /\ d3.at = d2.at
  BY <1>12 DEF Renamed, Whole, Ready, Part
<1> HIDE DEF d3
<1>16. SettingsKept(tb, d3)
  <2>1. NamesResolve(d1) /\ NamesResolve(d2)
    BY <1>3, <1>12 DEF Ready, Part
  <2>2. SettingsKept(tb, d2)
    BY <1>3, <1>12, <2>1, SettingsKeptTwice
  <2>3. QED
    BY <1>14, <2>1, <2>2, SettingsKeptTwice
<1> HIDE DEF r
<1>17. QED
  <2>1. Resolved(r, tb, o, target, seen)
    BY <1>1, <1>4, <1>13, <1>14, <1>15, <1>16 DEF Resolved
  <2>2. QED
    BY <2>1 DEF r, o

\* A modem's visit.
LEMMA VisitKeeps ==
  ASSUME LinesAssumption, NEW tb, NEW seen, NEW m, Visiting(tb, seen, m)
  PROVE  LET d == UpsertHardwareLine(tb, m, seen[m])
         IN /\ Whole(d) /\ Consistent(d) /\ AttachedStay(d, seen)
            /\ SettingsKept(tb, d) /\ \A a \in d.at : a \in tb.at \/ a.id = m
<1> DEFINE o == seen[m]
           M == Matches(tb, o)
           target == LineFor(tb, o, M)
           P == Provisional(tb, m)
           r == ResolveOrCreateStableLine(tb, o, M, target)
           d == UpsertHardwareLine(tb, m, o)
<1>1. d = Settled(r, m, o, P)
  BY DEF UpsertHardwareLine, Identified
<1>2. /\ o \in Observations /\ Whole(tb) /\ Consistent(tb) /\ m \in Modems
      /\ AttachedStay(tb, seen)
  BY DEF Visiting
<1>3. TablesTypeOK(tb) /\ NamesResolve(tb) /\ LegacyIsAlone(tb)
  BY <1>2 DEF Consistent
<1>4. MatchesTrue(tb, o, M)
  BY <1>3, MatchesAre
<1> HIDE DEF M
<1>5. CASE o = Empty
  <2>1. o.iccid = None /\ o.imsi = None /\ o.number = None
    BY <1>5 DEF Empty
  <2>2. M.iccid = None /\ M.imsi = None
    <3>1. \A x \in tb.cards : x.id # None
      BY <1>3 DEF TablesTypeOK, LinesAssumption
    <3>2. \A x \in tb.subs : x.id # None
      BY <1>3 DEF TablesTypeOK, LinesAssumption
    <3>3. QED
      BY <1>4, <2>1, <3>1, <3>2 DEF MatchesTrue
  <2>3. target = None
    BY <2>1, <2>2 DEF LineFor, ChooseStableLineCanonical, FirstOf
  <2>4. r.line = None /\ r.db = tb
    BY <2>3 DEF ResolveOrCreateStableLine
  <2>5. d = Attach(tb, m, None, Empty)
    BY <1>1, <1>5, <2>4 DEF Settled
  <2>6. QED
    BY <1>2, <2>5, AttachNothing
<1>6. CASE o # Empty
  <2>1. ChosenOK(tb, o, target)
    BY <1>2, <1>4, <1>6, Chosen
  <2>2. target # None
    BY <2>1 DEF ChosenOK, LinesAssumption
  <2> HIDE DEF target
  <2>3. Resolved(r, tb, o, target, seen)
    BY <1>4, <1>6, <2>1, <2>2, ResolvedReady
  <2>4. P = {x.line : x \in {y \in r.db.legacy : y.id = m}}
    BY <1>3, <2>3, ProvisionalAre DEF Resolved
  <2> HIDE DEF r, P
  <2> DEFINE d4 == Claimed(r.db, m, target, P)
             d5 == Attach(d4, m, target, o)
             d6 == PlacedAt(d5, m, target)
  <2>5. d = d6
    BY <1>1, <2>2, <2>3 DEF Settled, Resolved
  <2>6. Ready(d4, o, target, seen) /\ NamedOrOwn(d4, o, target) /\ SettingsKept(r.db, d4)
    BY <2>3, <2>4, ClaimedReady DEF Resolved
  <2>7. d4.at = tb.at
    <3>1. MergedTo(d4, r.db, target, P)
      BY <2>3, <2>4, ClaimedEffect DEF Resolved
    <3>2. QED
      BY <2>3, <3>1 DEF MergedTo, Resolved
  <2> HIDE DEF d4
  <2>8. /\ Whole(d5) /\ Consistent(d5) /\ target \in Ids(d5.lines) /\ d5.at = d4.at
        /\ AttachedStay(d5, seen) /\ NamedOrOwn(d5, o, target)
        /\ \A x \in d5.legacy : x.line # target
        /\ SettingsKept(d4, d5)
    BY <1>2, <1>6, <2>6, AttachKeeps
  <2> HIDE DEF d5
  <2>9. /\ Whole(d6) /\ Consistent(d6) /\ AttachedStay(d6, seen)
        /\ d6.at = d5.at \cup {[id |-> m, line |-> target]}
        /\ SettingsKept(d5, d6)
    BY <1>2, <1>6, <2>8, PlacedKeeps
  <2> HIDE DEF d6
  <2>10. SettingsKept(tb, d6)
    <3>1. NamesResolve(r.db) /\ NamesResolve(d4) /\ NamesResolve(d5)
      BY <2>3, <2>6, <2>8 DEF Ready, Part, Consistent, Resolved
    <3>2. SettingsKept(tb, d4)
      BY <2>3, <2>6, <3>1, SettingsKeptTwice DEF Resolved
    <3>3. SettingsKept(tb, d5)
      BY <2>8, <3>1, <3>2, SettingsKeptTwice
    <3>4. QED
      BY <2>9, <3>1, <3>3, SettingsKeptTwice
  <2>11. \A a \in d6.at : a \in tb.at \/ a.id = m
    BY <2>7, <2>8, <2>9
  <2> HIDE DEF d
  <2>12. QED
    BY <2>5, <2>9, <2>10, <2>11 DEF d
<1>7. QED
  BY <1>5, <1>6

-----------------------------------------------------------------------------
(* Lines: a snapshot                                                       *)

\* Modems that share an identity are of one group.
LEMMA GroupOfTwo ==
  ASSUME NEW obs, NEW x \in Modems, NEW y \in Modems, Shares(obs[x], obs[y])
  PROVE  /\ Group(obs, x) = Group(obs, y)
         /\ x \in Group(obs, x) /\ y \in Group(obs, x)
         /\ Group(obs, x) \subseteq Modems
<1> DEFINE Closed(S) == \A u \in S, v \in Modems : Shares(obs[u], obs[v]) => v \in S
           C(m) == {S \in SUBSET Modems : m \in S /\ Closed(S)}
<1>1. \A m : Group(obs, m) = {u \in Modems : \A S \in C(m) : u \in S}
  BY DEF Group
<1>2. Shares(obs[y], obs[x])
  BY DEF Shares
<1>3. C(x) = C(y)
  BY <1>2
<1>4. \A S \in C(x) : x \in S /\ y \in S
  BY <1>3
<1> HIDE DEF C
<1>5. QED
  BY <1>1, <1>3, <1>4

\* Two members of a group make it one of several.
LEMMA TwoOfGroup ==
  ASSUME LinesAssumption, NEW G \in SUBSET Modems, NEW x \in G, NEW y \in G, x # y
  PROVE  ~ (Cardinality(G) < 2)
<1>1. IsFiniteSet(G)
  BY FS_Subset DEF LinesAssumption
<1>2. IsFiniteSet({x}) /\ Cardinality({x}) = 1
  BY FS_Singleton
<1>3. IsFiniteSet({x} \cup {y}) /\ Cardinality({x} \cup {y}) = 2
  <2>1. y \notin {x}
    OBVIOUS
  <2>2. /\ IsFiniteSet({x} \cup {y})
        /\ Cardinality({x} \cup {y}) =
             IF y \in {x} THEN Cardinality({x}) ELSE Cardinality({x}) + 1
    BY <1>2, FS_AddElement
  <2>3. QED
    BY <1>2, <2>1, <2>2
<1>4. {x} \cup {y} \subseteq G
  OBVIOUS
<1>5. Cardinality({x} \cup {y}) <= Cardinality(G)
  BY <1>1, <1>4, FS_Subset
<1>6. Cardinality(G) \in Nat
  BY <1>1, FS_CardinalityType
<1>7. QED
  BY <1>3, <1>5, <1>6

\* No two modems claim one subscription after the quarantine.
LEMMA QuarantineDistinct ==
  ASSUME LinesAssumption, NEW obs \in [Modems -> Observations]
  PROVE  /\ Quarantine(obs) \in [Modems -> Observations]
         /\ Distinct(Quarantine(obs))
<1> DEFINE seen == Quarantine(obs)
           registered(m) == {x \in Group(obs, m) : obs[x].registered}
           present(m) == {x \in Group(obs, m) : obs[x].present}
           kept(m) == \/ Cardinality(Group(obs, m)) < 2
                      \/ Only(registered(m), m)
                      \/ registered(m) = {} /\ Only(present(m), m)
<1>1. seen = [m \in Modems |-> IF kept(m) THEN obs[m] ELSE Empty]
  BY DEF Quarantine
<1> HIDE DEF seen, kept
<1>2. seen \in [Modems -> Observations]
  BY <1>1 DEF Observations
<1>3. ASSUME NEW x \in Modems, NEW y \in Modems, seen[x].imsi = seen[y].imsi,
             seen[x].imsi # None, x # y
      PROVE  FALSE
  <2>1. Empty.imsi = None
    BY DEF Empty
  <2>2. kept(x) /\ kept(y) /\ seen[x] = obs[x] /\ seen[y] = obs[y]
    BY <1>1, <1>3, <2>1
  <2>3. Shares(obs[x], obs[y])
    BY <1>3, <2>2 DEF Shares
  <2>4. /\ Group(obs, x) = Group(obs, y) /\ Group(obs, x) \subseteq Modems
        /\ x \in Group(obs, x) /\ y \in Group(obs, x)
    BY <2>3, GroupOfTwo
  <2>5. registered(x) = registered(y) /\ present(x) = present(y)
    BY <2>4
  <2>6. ~ (Cardinality(Group(obs, x)) < 2)
    BY <1>3, <2>4, TwoOfGroup
  <2> HIDE DEF registered, present
  <2>7. QED
    BY <1>3, <2>2, <2>4, <2>5, <2>6 DEF kept, Only
<1>4. QED
  BY <1>2, <1>3 DEF Distinct, seen

\* The tables a transaction begins with.
LEMMA TablesAreWhole ==
  /\ Whole(Tables) /\ Tables.at = {} /\ Tables.lines = lines /\ Tables.last = last
  /\ Tables.cards = cards /\ Tables.subs = subs /\ Tables.devices = devices
  /\ Tables.legacy = legacy /\ Tables.rows = stored
BY DEF Tables, Whole

\* The tables are consistent after every modem of a snapshot.
LEMMA VisitsKeep ==
  ASSUME LinesAssumption, LinesInv, NEW seen \in [Modems -> Observations],
         Distinct(seen), NEW order, Len(order) \in Nat,
         \A n \in 1 .. Len(order) : order[n] \in Modems,
         \A i, j \in 1 .. Len(order) : i # j => order[i] # order[j]
  PROVE  VisitedOK(Visits(seen, order)[Len(order)], seen, order, Len(order))
<1> DEFINE v == Visits(seen, order)
           T == {n \in Nat : n <= Len(order) => VisitedOK(v[n], seen, order, n)}
<1>1. v = [n \in 0 .. Len(order) |->
             IF n = 0 THEN Tables
             ELSE UpsertHardwareLine(v[n - 1], order[n], seen[order[n]])]
  BY VisitsExist
<1> HIDE DEF v
<1>2. 0 \in T
  <2>1. v[0] = Tables
    BY <1>1
  <2>2. Consistent(Tables) /\ TablesTypeOK(Tables) /\ NamesResolve(Tables)
    BY DEF LinesInv, Consistent
  <2>3. \A k, l \in Tables.lines : k.id = l.id /\ k.policy = "set" => l.policy = "set"
    BY <2>2 DEF TablesTypeOK, Keyed
  <2>4. SettingsKept(Tables, Tables)
    BY <2>2, <2>3, SettingsKeptSame
  <2>5. VisitedOK(Tables, seen, order, 0)
    BY <2>2, <2>4, TablesAreWhole DEF VisitedOK, AttachedStay
  <2>6. QED
    BY <2>1, <2>5
<1>3. ASSUME NEW n \in T
      PROVE  n + 1 \in T
  <2>1. SUFFICES ASSUME n + 1 <= Len(order)
                 PROVE  VisitedOK(v[n + 1], seen, order, n + 1)
    OBVIOUS
  <2> DEFINE tb == v[n]
             m == order[n + 1]
             d == UpsertHardwareLine(tb, m, seen[m])
  <2>2. v[n + 1] = d
    BY <1>1, <2>1
  <2>3. VisitedOK(tb, seen, order, n) /\ n + 1 \in 1 .. Len(order) /\ m \in Modems
    BY <2>1
  <2>4. \A a \in tb.at : a.id # m
    BY <2>3 DEF VisitedOK
  <2>5. Visiting(tb, seen, m)
    BY <2>3, <2>4 DEF Visiting, VisitedOK
  <2> HIDE DEF m, tb
  <2>6. /\ Whole(d) /\ Consistent(d) /\ AttachedStay(d, seen)
        /\ SettingsKept(tb, d) /\ \A a \in d.at : a \in tb.at \/ a.id = m
    BY <2>5, VisitKeeps
  <2> HIDE DEF d
  <2>7. SettingsKept(Tables, d)
    <3>1. NamesResolve(tb) /\ SettingsKept(Tables, tb)
      BY <2>3 DEF VisitedOK, Consistent
    <3>2. QED
      BY <2>6, <3>1, SettingsKeptTwice
  <2>8. \A a \in d.at : \E k \in 1 .. n + 1 : a.id = order[k]
    <3>1. \A a \in tb.at : \E k \in 1 .. n : a.id = order[k]
      BY <2>3 DEF VisitedOK
    <3>2. n + 1 \in 1 .. n + 1 /\ \A k \in 1 .. n : k \in 1 .. n + 1
      OBVIOUS
    <3>3. QED
      BY <2>6, <3>1, <3>2 DEF m
  <2>9. QED
    BY <2>2, <2>6, <2>7, <2>8 DEF VisitedOK
<1>4. T = Nat
  <2> HIDE DEF T
  <2>1. T \in SUBSET Nat
    BY DEF T
  <2>2. QED
    BY <1>2, <1>3, <2>1, CountUp
<1>5. Len(order) \in T
  BY <1>4
<1>6. QED
  BY <1>5 DEF v

\* A row of a line that exists.
LEMMA StoredKeeps ==
  ASSUME LinesAssumption, NEW tb, Consistent(tb), NEW l \in Ids(tb.lines),
         NEW r \in Rows, r \notin Ids(tb.rows), NEW d,
         d.lines = tb.lines, d.last = tb.last, d.cards = tb.cards, d.subs = tb.subs,
         d.devices = tb.devices, d.legacy = tb.legacy, d.at = {},
         d.rows = tb.rows \cup {Stored(r, l, tb)}
  PROVE  Consistent(d)
<1> DEFINE new == Stored(r, l, tb)
<1>1. PICK x \in tb.lines : x.id = l
  BY DEF Ids
<1>2. /\ TablesTypeOK(tb) /\ NamesResolve(tb) /\ PlacesAgree(tb)
      /\ OnePlaceBut(tb, None) /\ OneSubscriptionBut(tb, None) /\ LegacyIsAlone(tb)
      /\ Keyed(tb.lines)
  BY DEF Consistent, TablesTypeOK
<1>3. NumberOf(tb, l) = x.number
  BY <1>1, <1>2, GetIs DEF NumberOf
<1>4. /\ new.id = r /\ new.line = l /\ new.number = x.number
      /\ new \in [id : Rows, line : Nat, number : {None} \cup Numbers]
  BY <1>1, <1>2, <1>3 DEF Stored, TablesTypeOK
<1> HIDE DEF new
<1>5. d.rows = tb.rows \cup {new}
  BY DEF new
<1>6. Keyed(d.rows)
  BY <1>2, <1>4, <1>5 DEF Keyed, TablesTypeOK, Ids
<1>7. TablesTypeOK(d)
  BY <1>2, <1>4, <1>5, <1>6 DEF TablesTypeOK
<1>8. NamesResolve(d)
  <2>1. \A y \in d.rows : y.line \in Ids(d.lines)
    BY <1>2, <1>4, <1>5 DEF NamesResolve
  <2>2. \A y \in d.rows, k \in d.lines :
          y.number # None /\ k.id = y.line => k.number = y.number
    <3>1. \A k \in tb.lines : k.id = l => k = x
      BY <1>1, <1>2 DEF Keyed
    <3>2. QED
      BY <1>2, <1>4, <1>5, <3>1 DEF NamesResolve
  <2>3. QED
    BY <1>2, <2>1, <2>2 DEF NamesResolve
<1>9. PlacesAgree(d) /\ OnePlaceBut(d, None)
  BY <1>2 DEF PlacesAgree, OnePlaceBut
<1>10. OneSubscriptionBut(d, None) /\ LegacyIsAlone(d)
  BY <1>2 DEF OneSubscriptionBut, LegacyIsAlone, OwnedBy
<1>11. QED
  BY <1>7, <1>8, <1>9, <1>10 DEF Consistent

-----------------------------------------------------------------------------
(* Lines: every step keeps the invariant                                   *)

\* After an upgrade there is at most one line, without a number.
LEMMA LinesInvInit ==
  ASSUME LinesAssumption, LinesInit
  PROVE  LinesInv
<1>1. PICK old \in SUBSET Modems :
        /\ Cardinality(old) <= 1
        /\ legacy = {[id |-> m, line |-> 1] : m \in old}
        /\ lines = {[id |-> 1, number |-> None, policy |-> "set"] : m \in old}
        /\ last = Cardinality(old)
  BY DEF LinesInit
<1>2. cards = {} /\ subs = {} /\ devices = {} /\ stored = {}
  BY DEF LinesInit
<1>3. IsFiniteSet(old) /\ Cardinality(old) \in Nat
      /\ (Cardinality(old) = 0 <=> old = {})
  <2>1. IsFiniteSet(old)
    BY FS_Subset DEF LinesAssumption
  <2>2. QED
    BY <2>1, FS_CardinalityType, FS_EmptySet
<1>4. /\ \A x, y \in old : x = y
      /\ last \in Nat /\ (old # {} => last = 1)
  <2>1. ASSUME NEW x \in old, NEW y \in old, x # y
        PROVE  FALSE
    <3>1. ~ (Cardinality(old) < 2)
      BY <2>1, TwoOfGroup
    <3>2. QED
      BY <1>1, <1>3, <3>1
  <2>2. QED
    BY <1>1, <1>3, <2>1
<1>5. TablesTypeOK(Tables)
  BY <1>1, <1>2, <1>4, TablesAreWhole DEF TablesTypeOK, Keyed
<1>6. NamesResolve(Tables)
  <2>1. ASSUME NEW x \in legacy
        PROVE  x.line \in Ids(lines)
    <3>1. PICK m \in old : x = [id |-> m, line |-> 1]
      BY <1>1
    <3>2. [id |-> 1, number |-> None, policy |-> "set"] \in lines
      BY <1>1, <3>1
    <3>3. \A y \in lines : y.id \in Ids(lines)
      BY DEF Ids
    <3>4. [id |-> 1, number |-> None, policy |-> "set"].id \in Ids(lines)
      BY <3>2, <3>3
    <3>5. QED
      BY <3>1, <3>4
  <2>2. \A x, y \in lines : x.number = None
    BY <1>1
  <2>3. QED
    BY <1>2, <2>1, <2>2, TablesAreWhole DEF NamesResolve
<1>7. PlacesAgree(Tables) /\ OnePlaceBut(Tables, None)
  BY <1>2, TablesAreWhole DEF PlacesAgree, OnePlaceBut
<1>8. OneSubscriptionBut(Tables, None)
  BY <1>2, TablesAreWhole DEF OneSubscriptionBut, OwnedBy
<1>9. LegacyIsAlone(Tables)
  BY <1>1, <1>2, <1>4, TablesAreWhole DEF LegacyIsAlone
<1>10. LinesTypeOK
  BY DEF LinesInit, LinesTypeOK, LinesAssumption
<1>11. QED
  BY <1>5, <1>6, <1>7, <1>8, <1>9, <1>10 DEF LinesInv, Consistent

\* The properties, of the tables.
LEMMA LinesInvImplies ==
  ASSUME LinesAssumption, LinesInv
  PROVE  LinesAreTrue
<1>1. /\ TablesTypeOK(Tables) /\ NamesResolve(Tables) /\ PlacesAgree(Tables)
      /\ OnePlaceBut(Tables, None)
  BY DEF LinesInv, Consistent
<1>2. AttachmentIsExclusive
  <2>1. \A x \in devices : \E y \in cards : y.id = x.card /\ y.at = x.id /\ y.at # None
    <3>1. \A x \in devices : x.id # None
      BY <1>1, TablesAreWhole DEF TablesTypeOK, LinesAssumption
    <3>2. QED
      BY <1>1, <3>1, TablesAreWhole DEF PlacesAgree
  <2>2. \A y \in cards : y.at # None => \E x \in devices : x.id = y.at /\ x.card = y.id
    BY <1>1, TablesAreWhole DEF PlacesAgree
  <2>3. {<<x.id, x.card>> : x \in devices} =
          {<<x.at, x.id>> : x \in {y \in cards : y.at # None}}
    BY <2>1, <2>2
  <2>4. \A x \in cards : x.line # None
    BY <1>1, TablesAreWhole DEF TablesTypeOK, LinesAssumption
  <2>5. \A x, y \in cards : x.line = y.line /\ x # y => None \in {x.at, y.at}
    BY <1>1, <2>4, TablesAreWhole DEF OnePlaceBut
  <2>6. QED
    BY <2>3, <2>5 DEF AttachmentIsExclusive
<1>3. ReferencesResolve
  BY <1>1, TablesAreWhole DEF ReferencesResolve, NamesResolve
<1>4. HistoryKeepsNumber
  <2>1. ASSUME NEW x \in stored, x.number # None
        PROVE  Get(lines, x.line).number = x.number
    <3>1. x.line \in Ids(lines)
      BY <1>1, TablesAreWhole DEF NamesResolve
    <3>2. QED
      BY <1>1, <2>1, <3>1, TablesAreWhole, GetIn DEF NamesResolve
  <2>2. QED
    BY <2>1 DEF HistoryKeepsNumber
<1>5. QED
  BY <1>2, <1>3, <1>4 DEF LinesAreTrue

\* Rows of one key keep the settings, where the tables before and after do.
LEMMA SettingsFollow ==
  ASSUME NEW a, NEW b, TablesTypeOK(a), NamesResolve(a), NamesResolve(b),
         SettingsKept(a, b), NEW x \in a.rows, NEW y \in b.rows, x.id = y.id,
         Get(a.lines, x.line).policy = "set"
  PROVE  Get(b.lines, y.line).policy = "set"
<1>1. x.line \in Ids(a.lines) /\ y.line \in Ids(b.lines)
  BY DEF NamesResolve
<1>2. /\ Get(a.lines, x.line) \in a.lines /\ Get(a.lines, x.line).id = x.line
      /\ Get(b.lines, y.line) \in b.lines /\ Get(b.lines, y.line).id = y.line
  BY <1>1, GetIn
<1>3. QED
  BY <1>2 DEF SettingsKept

\* A step that leaves the tables alone.
LEMMA TablesStay ==
  ASSUME LinesInv, LinesTypeOK',
         UNCHANGED <<lines, last, cards, subs, devices, legacy, stored>>
  PROVE  LinesInv' /\ SettingsFollowHistory
<1>1. Tables' = Tables
  BY DEF Tables
<1>2. Consistent(Tables) /\ TablesTypeOK(Tables)
  BY DEF LinesInv, Consistent
<1>3. Consistent(Tables')
  BY <1>1, <1>2
<1>4. \A x, y \in stored : x.id = y.id => x = y
  BY <1>2, TablesAreWhole DEF TablesTypeOK, Keyed
<1>5. SettingsFollowHistory
  BY <1>4 DEF SettingsFollowHistory
<1>6. QED
  BY <1>3, <1>5 DEF LinesInv

\* What happens to the cards changes no table.
LEMMA WorldKeeps ==
  ASSUME LinesAssumption, LinesInv,
         NEW c \in Cards, NEW m \in Modems, NEW n \in Numbers,
         MoveCard(c, m) \/ Renumber(c, n)
  PROVE  LinesInv' /\ SettingsFollowHistory
<1>1. LinesTypeOK
  BY DEF LinesInv
<1>2. LinesTypeOK' /\ UNCHANGED <<lines, last, cards, subs, devices, legacy, stored>>
  BY <1>1 DEF MoveCard, Renumber, LinesTypeOK
<1>3. QED
  BY <1>2, TablesStay

\* A command that is begun changes no table.
LEMMA SendFromKeeps ==
  ASSUME LinesAssumption, LinesInv, NEW x \in cards, SendFrom(x)
  PROVE  LinesInv' /\ SettingsFollowHistory
<1>1. LinesTypeOK /\ TablesTypeOK(Tables)
  BY DEF LinesInv, Consistent
<1>2. x.line \in Nat /\ x.id \in Cards
  BY <1>1, TablesAreWhole DEF TablesTypeOK
<1>3. LinesTypeOK' /\ UNCHANGED <<lines, last, cards, subs, devices, legacy, stored>>
  BY <1>1, <1>2 DEF SendFrom, LinesTypeOK, world
<1>4. QED
  BY <1>3, TablesStay

\* A setting made by hand touches nothing else.
LEMMA SetPolicyKeeps ==
  ASSUME LinesAssumption, LinesInv, NEW x \in lines, SetPolicy(x)
  PROVE  LinesInv' /\ SettingsFollowHistory
<1> DEFINE new == [x EXCEPT !.policy = "set"]
           d == Tables'
<1>1. /\ LinesTypeOK /\ TablesTypeOK(Tables) /\ NamesResolve(Tables)
      /\ PlacesAgree(Tables) /\ OnePlaceBut(Tables, None)
      /\ OneSubscriptionBut(Tables, None) /\ LegacyIsAlone(Tables)
      /\ Keyed(lines)
  BY TablesAreWhole DEF LinesInv, Consistent, TablesTypeOK
<1>2. /\ lines' = {y \in lines : y.id # new.id} \cup {new}
      /\ UNCHANGED <<slot, num, last, cards, subs, devices, legacy, stored, unstored>>
  BY DEF SetPolicy, ReplaceRow, world
<1>3. /\ new.id = x.id /\ new.number = x.number /\ new.policy = "set"
      /\ new \in [id : 1 .. last, number : {None} \cup Numbers,
                  policy : {"none", "initial", "set"}]
  BY <1>1, TablesAreWhole DEF TablesTypeOK
<1>4. /\ Whole(d) /\ d.at = {} /\ d.lines = lines' /\ d.last = last
      /\ d.cards = cards /\ d.subs = subs /\ d.devices = devices
      /\ d.legacy = legacy /\ d.rows = stored
  BY <1>2 DEF Tables, Whole
<1> HIDE DEF new, d
<1>5. /\ \A y \in lines' : \E z \in lines :
           y.id = z.id /\ y.number = z.number /\ (z.policy = "set" => y.policy = "set")
      /\ \A z \in lines : \E y \in lines' : y.id = z.id /\ y.number = z.number
      /\ \A y \in lines' : y \in [id : 1 .. last, number : {None} \cup Numbers,
                                  policy : {"none", "initial", "set"}]
  <2>1. \A y \in lines' : y = new \/ y \in lines
    BY <1>2
  <2>2. new \in lines' /\ \A z \in lines : z.id = x.id \/ z \in lines'
    BY <1>2, <1>3
  <2>3. \A z \in lines : z.id = x.id => z = x
    BY <1>1 DEF Keyed
  <2>4. QED
    BY <1>1, <1>3, <2>1, <2>2, <2>3, TablesAreWhole DEF TablesTypeOK
<1>6. Keyed(lines')
  BY <1>1, <1>2, <1>3 DEF Keyed
<1>7. TablesTypeOK(d)
  BY <1>1, <1>4, <1>5, <1>6, TablesAreWhole DEF TablesTypeOK
<1>8. MergedTo(d, Tables, x.id, {})
  <2>1. /\ Follows(d.subs, Tables.subs, x.id, {})
        /\ Follows(d.legacy, Tables.legacy, x.id, {})
    BY <1>4, TablesAreWhole DEF Follows
  <2>2. \A y \in d.lines : \E z \in Tables.lines :
          /\ y.id = z.id /\ y.number = z.number /\ z.id \notin {}
          /\ z.policy = "set" => y.policy = "set"
    BY <1>4, <1>5, TablesAreWhole
  <2>3. QED
    BY <1>4, <1>5, <2>1, <2>2, TablesAreWhole DEF MergedTo
<1>9. MayMerge(Tables, x.id, {})
  BY TablesAreWhole DEF MayMerge, Ids
<1>10. NamesResolve(d)
  BY <1>1, <1>7, <1>8, <1>9, MergeResolves
<1>11. SettingsKept(Tables, d)
  BY <1>1, <1>7, <1>8, <1>9, MergeSettings
<1>12. PlacesAgree(d) /\ OnePlaceBut(d, None)
  BY <1>1, <1>4, TablesAreWhole DEF PlacesAgree, OnePlaceBut
<1>13. OneSubscriptionBut(d, None)
  BY <1>1, <1>4, <1>5, TablesAreWhole DEF OneSubscriptionBut, OwnedBy
<1>14. LegacyIsAlone(d)
  <2>1. \A z \in legacy, y \in lines' : y.id = z.line => y.number = None
    BY <1>1, <1>5, TablesAreWhole DEF LegacyIsAlone
  <2>2. QED
    BY <1>1, <1>4, <2>1, TablesAreWhole DEF LegacyIsAlone
<1>15. Consistent(d)
  BY <1>7, <1>10, <1>12, <1>13, <1>14 DEF Consistent
<1>16. LinesInv'
  <2>1. LinesTypeOK'
    BY <1>1, <1>2 DEF LinesTypeOK
  <2>2. QED
    BY <1>15, <2>1 DEF LinesInv, d
<1>17. SettingsFollowHistory
  <2>1. ASSUME NEW u \in stored, NEW y \in stored', u.id = y.id,
               Get(lines, u.line).policy = "set"
        PROVE  Get(lines', y.line).policy = "set"
    <3>1. u \in Tables.rows /\ y \in d.rows
      BY <1>2, <1>4, TablesAreWhole
    <3>2. Get(Tables.lines, u.line).policy = "set"
      BY <2>1, TablesAreWhole
    <3>3. Get(d.lines, y.line).policy = "set"
      BY <1>1, <1>10, <1>11, <2>1, <3>1, <3>2, SettingsFollow
    <3>4. QED
      BY <1>4, <3>3
  <2>2. QED
    BY <2>1 DEF SettingsFollowHistory
<1>18. QED
  BY <1>16, <1>17

\* A sent message is stored.
LEMMA StoreSentKeeps ==
  ASSUME LinesAssumption, LinesInv, StoreSent
  PROVE  LinesInv' /\ SettingsFollowHistory
<1> DEFINE M == Matches(Tables, [Empty EXCEPT !.iccid = unstored.card,
                                              !.imsi = Sub[unstored.card]])
           l == IF unstored.line \in Ids(lines) THEN unstored.line
                ELSE FirstOf(M.iccid, M.imsi)
           r == CHOOSE x \in Rows : x \notin Ids(stored)
<1>1. /\ unstored # None /\ Ids(stored) # Rows
      /\ stored' = stored \cup (IF l = None THEN {} ELSE {Stored(r, l, Tables)})
      /\ unstored' = None
      /\ UNCHANGED <<slot, num, lines, last, cards, subs, devices, legacy>>
  BY DEF StoreSent, world
<1>2. /\ LinesTypeOK /\ Consistent(Tables) /\ TablesTypeOK(Tables)
      /\ NamesResolve(Tables)
  BY DEF LinesInv, Consistent
<1>3. r \in Rows /\ r \notin Ids(stored)
  <2>1. Ids(stored) \subseteq Rows
    BY <1>2, TablesAreWhole DEF TablesTypeOK, Ids
  <2>2. \E x \in Rows : x \notin Ids(stored)
    BY <1>1, <2>1
  <2>3. QED
    BY <2>2
<1>4. l # None => l \in Ids(lines)
  <2>1. M.iccid = LineOf(cards, [Empty EXCEPT !.iccid = unstored.card,
                                              !.imsi = Sub[unstored.card]].iccid)
    BY TablesAreWhole DEF Matches
  <2>2. M.imsi = LineOf(subs, [Empty EXCEPT !.iccid = unstored.card,
                                            !.imsi = Sub[unstored.card]].imsi)
    BY TablesAreWhole DEF Matches
  <2>3. \A k : LineOf(cards, k) # None => LineOf(cards, k) \in Ids(lines)
    BY <1>2, TablesAreWhole, GetIn DEF LineOf, NamesResolve
  <2>4. \A k : LineOf(subs, k) # None => LineOf(subs, k) \in Ids(lines)
    BY <1>2, TablesAreWhole, GetIn DEF LineOf, NamesResolve
  <2> HIDE DEF M
  <2>5. QED
    BY <2>1, <2>2, <2>3, <2>4 DEF FirstOf
<1> HIDE DEF l, r, M
<1>5. CASE l = None
  <2>1. stored' = stored
    BY <1>1, <1>5
  <2>2. LinesTypeOK'
    BY <1>1, <1>2 DEF LinesTypeOK
  <2>3. QED
    BY <1>1, <2>1, <2>2, TablesStay
<1>6. CASE l # None
  <2> DEFINE d == Tables'
  <2>1. /\ d.at = {} /\ d.lines = lines /\ d.last = last
        /\ d.cards = cards /\ d.subs = subs /\ d.devices = devices
        /\ d.legacy = legacy /\ d.rows = stored \cup {Stored(r, l, Tables)}
    BY <1>1, <1>6 DEF Tables
  <2> HIDE DEF d
  <2>2. Consistent(d)
    BY <1>2, <1>3, <1>4, <1>6, <2>1, TablesAreWhole, StoredKeeps
  <2>3. LinesTypeOK'
    BY <1>1, <1>2 DEF LinesTypeOK
  <2>4. LinesInv'
    BY <2>2, <2>3 DEF LinesInv, d
  <2>5. \A x \in stored, y \in stored' : x.id = y.id => x = y
    <3>1. Stored(r, l, Tables).id = r
      BY DEF Stored
    <3>2. Keyed(stored) /\ \A x \in stored : x.id \in Ids(stored)
      BY <1>2, TablesAreWhole DEF TablesTypeOK, Ids
    <3>3. QED
      BY <1>1, <1>3, <1>6, <3>1, <3>2 DEF Keyed
  <2>6. QED
    BY <1>1, <2>4, <2>5 DEF SettingsFollowHistory
<1>7. QED
  BY <1>5, <1>6

\* What a modem says of its card is an observation.
LEMMA ReportsAreObservations ==
  ASSUME LinesAssumption, LinesTypeOK, NEW m \in Modems
  PROVE  Reports(m) \subseteq Observations
<1> DEFINE c == slot[m]
           Said(n, r) == [iccid |-> c, imsi |-> Sub[c], number |-> n,
                          registered |-> r, present |-> TRUE]
<1>1. c = None \/ c \in Cards
  BY DEF LinesTypeOK
<1>2. CASE c = None
  BY <1>2 DEF Reports, Observations
<1>3. CASE c # None
  <2>1. c \in Cards /\ Sub[c] \in Subs /\ num[c] \in Numbers
    BY <1>1, <1>3 DEF LinesTypeOK, LinesAssumption
  <2>2. \A n \in {None} \cup Numbers, r \in BOOLEAN : Said(n, r) \in Observations
    BY <2>1 DEF Observations
  <2>3. Reports(m) = {Said(None, FALSE)} \cup {Said(num[c], r) : r \in BOOLEAN}
    BY <1>3 DEF Reports
  <2>4. QED
    BY <2>1, <2>2, <2>3
<1>4. QED
  BY <1>2, <1>3

\* A list of different modems.
LEMMA ListsAreDistinct ==
  ASSUME LinesAssumption, NEW plugged \in SUBSET Modems,
         NEW order \in SetToSeqs(plugged)
  PROVE  /\ Len(order) \in Nat
         /\ \A n \in 1 .. Len(order) : order[n] \in Modems
         /\ \A i, j \in 1 .. Len(order) : i # j => order[i] # order[j]
<1> DEFINE k == Cardinality(plugged)
<1>1. k \in Nat
  <2>1. IsFiniteSet(plugged)
    BY FS_Subset DEF LinesAssumption
  <2>2. QED
    BY <2>1, FS_CardinalityType
<1>2. /\ order \in [1 .. k -> plugged]
      /\ \A i, j \in 1 .. k : i # j => order[i] # order[j]
  BY DEF SetToSeqs
<1> HIDE DEF k
<1>3. order \in Seq(plugged)
  BY <1>1, <1>2, SeqDef
<1>4. Len(order) \in Nat /\ DOMAIN order = 1 .. Len(order)
  BY <1>3, LenProperties
<1>5. 1 .. Len(order) = 1 .. k
  BY <1>2, <1>4
<1>6. QED
  BY <1>2, <1>4, <1>5

\* What a snapshot commits, with a new row or without.
LEMMA CommitKeeps ==
  ASSUME LinesAssumption, LinesInv, NEW seen, NEW order, NEW tb, NEW n,
         VisitedOK(tb, seen, order, n), NEW new, Commit(tb, new)
  PROVE  LinesInv' /\ SettingsFollowHistory
<1> DEFINE r == CHOOSE x \in Rows : x \notin Ids(stored)
           l == LineOf(tb.at, new)
           d == Tables'
<1>1. /\ new # None => new \in Ids(tb.at) /\ Ids(stored) # Rows
      /\ lines' = tb.lines /\ last' = tb.last /\ cards' = tb.cards
      /\ subs' = tb.subs /\ devices' = tb.devices /\ legacy' = tb.legacy
      /\ stored' = IF new = None THEN tb.rows ELSE tb.rows \cup {Stored(r, l, tb)}
      /\ UNCHANGED <<slot, num, unstored>>
  BY DEF Commit, world
<1>2. /\ Consistent(tb) /\ TablesTypeOK(tb) /\ NamesResolve(tb)
      /\ AttachedStay(tb, seen) /\ SettingsKept(Tables, tb)
  BY DEF VisitedOK, Consistent
<1>3. LinesTypeOK /\ TablesTypeOK(Tables) /\ NamesResolve(Tables)
  BY DEF LinesInv, Consistent
<1>4. /\ d.at = {} /\ d.lines = tb.lines /\ d.last = tb.last
      /\ d.cards = tb.cards /\ d.subs = tb.subs /\ d.devices = tb.devices
      /\ d.legacy = tb.legacy
      /\ d.rows = IF new = None THEN tb.rows ELSE tb.rows \cup {Stored(r, l, tb)}
  BY <1>1 DEF Tables
<1> HIDE DEF d, l, r
<1>5. Ids(tb.rows) = Ids(stored) /\ Ids(stored) \subseteq Rows
  BY <1>2, <1>3, TablesAreWhole DEF SettingsKept, TablesTypeOK, Ids
<1>6. new # None => r \in Rows /\ r \notin Ids(tb.rows)
  <2>1. new # None => \E x \in Rows : x \notin Ids(stored)
    BY <1>1, <1>5
  <2>2. QED
    BY <1>5, <2>1 DEF r
<1>7. new # None => l \in Ids(tb.lines)
  <2>1. SUFFICES ASSUME new # None PROVE l \in Ids(tb.lines)
    OBVIOUS
  <2>2. Get(tb.at, new) \in tb.at /\ l = Get(tb.at, new).line
    BY <1>1, <2>1, GetIn DEF l, LineOf
  <2>3. QED
    BY <1>2, <2>2 DEF AttachedStay, Ids
<1>8. Consistent(d)
  <2>1. CASE new = None
    <3>1. d.rows = tb.rows
      BY <1>4, <2>1
    <3>2. TablesTypeOK(d) /\ NamesResolve(d)
      BY <1>2, <1>4, <3>1 DEF TablesTypeOK, NamesResolve
    <3>3. QED
      BY <1>2, <1>4, <3>2
         DEF Consistent, PlacesAgree, OnePlaceBut, OneSubscriptionBut,
             LegacyIsAlone, OwnedBy
  <2>2. CASE new # None
    BY <1>2, <1>4, <1>6, <1>7, <2>2, StoredKeeps
  <2>3. QED
    BY <2>1, <2>2
<1>9. LinesInv'
  <2>1. LinesTypeOK'
    BY <1>1, <1>3 DEF LinesTypeOK
  <2>2. QED
    BY <1>8, <2>1 DEF LinesInv, d
<1>10. ASSUME NEW x \in stored, NEW y \in stored', x.id = y.id,
              Get(lines, x.line).policy = "set"
       PROVE  Get(lines', y.line).policy = "set"
  <2>1. y \in tb.rows
    <3>1. Stored(r, l, tb).id = r
      BY DEF Stored
    <3>2. x.id \in Ids(tb.rows)
      BY <1>5 DEF Ids
    <3>3. QED
      BY <1>1, <1>6, <1>10, <3>1, <3>2
  <2>2. x \in Tables.rows /\ Get(Tables.lines, x.line).policy = "set"
    BY <1>10, TablesAreWhole
  <2>3. Get(tb.lines, y.line).policy = "set"
    BY <1>2, <1>3, <1>10, <2>1, <2>2, SettingsFollow
  <2>4. QED
    BY <1>1, <2>3
<1>11. QED
  BY <1>9, <1>10 DEF SettingsFollowHistory

\* A snapshot of any modems, listed in any order.
LEMMA TakeSnapshotKeeps ==
  ASSUME LinesAssumption, LinesInv, TakeSnapshot
  PROVE  LinesInv' /\ SettingsFollowHistory
<1>1. PICK plugged \in SUBSET Modems :
        \E obs \in [Modems -> {Empty} \cup UNION {Reports(m) : m \in plugged}] :
          /\ \A m \in Modems :
               obs[m] \in IF m \in plugged THEN Reports(m) ELSE {Empty}
          /\ \E order \in SetToSeqs(plugged) :
               \E tb \in {Visited(obs, order)} :
                 \E new \in {None} \cup Modems : Commit(tb, new)
  BY DEF TakeSnapshot
<1>2. PICK obs \in [Modems -> {Empty} \cup UNION {Reports(m) : m \in plugged}] :
        \E order \in SetToSeqs(plugged) :
          \E tb \in {Visited(obs, order)} :
            \E new \in {None} \cup Modems : Commit(tb, new)
  BY <1>1
<1>3. obs \in [Modems -> Observations]
  <2>1. \A m \in plugged : Reports(m) \subseteq Observations
    BY ReportsAreObservations DEF LinesInv
  <2>2. {Empty} \cup UNION {Reports(m) : m \in plugged} \subseteq Observations
    BY <2>1 DEF Observations
  <2>3. QED
    BY <1>2, <2>2
<1>4. PICK order \in SetToSeqs(plugged) :
        \E new \in {None} \cup Modems : Commit(Visited(obs, order), new)
  BY <1>2
<1>5. PICK new \in {None} \cup Modems : Commit(Visited(obs, order), new)
  BY <1>4
<1> DEFINE seen == Quarantine(obs)
           tb == Visited(obs, order)
<1>6. tb = Visits(seen, order)[Len(order)]
  BY DEF Visited
<1>7. seen \in [Modems -> Observations] /\ Distinct(seen)
  BY <1>3, QuarantineDistinct
<1>8. /\ Len(order) \in Nat
      /\ \A n \in 1 .. Len(order) : order[n] \in Modems
      /\ \A i, j \in 1 .. Len(order) : i # j => order[i] # order[j]
  BY ListsAreDistinct
<1>9. Commit(tb, new)
  BY <1>5
<1> HIDE DEF seen, tb
<1>10. VisitedOK(tb, seen, order, Len(order))
  BY <1>6, <1>7, <1>8, VisitsKeep
<1>11. QED
  BY <1>9, <1>10, CommitKeeps

\* Every step keeps the invariant, and the settings of the history.
LEMMA LinesInvNext ==
  ASSUME LinesAssumption, LinesInv, [LinesNext]_lineVars
  PROVE  LinesInv' /\ SettingsFollowHistory
<1>1. CASE \E c \in Cards, m \in Modems : MoveCard(c, m)
  <2>1. First \in Numbers
    BY DEF LinesAssumption
  <2>2. QED
    BY <1>1, <2>1, WorldKeeps
<1>2. CASE \E c \in Cards, n \in Numbers : Renumber(c, n)
  <2>1. PICK c \in Cards, n \in Numbers : Renumber(c, n)
    BY <1>2
  <2>2. LinesTypeOK
    BY DEF LinesInv
  <2>3. LinesTypeOK' /\ UNCHANGED <<lines, last, cards, subs, devices, legacy, stored>>
    BY <2>1, <2>2 DEF Renumber, LinesTypeOK
  <2>4. QED
    BY <2>3, TablesStay
<1>3. CASE \E x \in lines : SetPolicy(x)
  BY <1>3, SetPolicyKeeps
<1>4. CASE TakeSnapshot
  BY <1>4, TakeSnapshotKeeps
<1>5. CASE \E x \in cards : SendFrom(x)
  BY <1>5, SendFromKeeps
<1>6. CASE StoreSent
  BY <1>6, StoreSentKeeps
<1>7. CASE UNCHANGED lineVars
  <2>1. LinesTypeOK' /\ UNCHANGED <<lines, last, cards, subs, devices, legacy, stored>>
    BY <1>7 DEF lineVars, LinesInv, LinesTypeOK
  <2>2. QED
    BY <2>1, TablesStay
<1>8. QED
  BY <1>1, <1>2, <1>3, <1>4, <1>5, <1>6, <1>7 DEF LinesNext
=============================================================================
