---------------------------- MODULE AgentMedia ----------------------------
(***************************************************************************)
(* The audio devices of the host agent (agent/internal/media/manager.go):  *)
(* one media session per call and one open device per endpoint. Opening a  *)
(* device is slow, so it runs in a goroutine of its own (the runner) while *)
(* the request (the caller) waits for it with a deadline; either may find  *)
(* the other gone, and Close may come at any moment.                       *)
(***************************************************************************)
EXTENDS Absence, Naturals, FiniteSets

CONSTANTS Opens,      \* requests to open media
          ModemCalls, \* calls of the modem
          Endpoints   \* backend and endpoint of an audio port

VARIABLES
  closed,       \* Close was called
  active,       \* activeCalls
  leased,       \* activeEndpoints
  pending,      \* pendingOpens: the open a call waits for, or None
  mediaSession, \* sessions: the open a call's session came from, or None
  open,         \* the opens, see OpenRecord
  openDevice,   \* endpoint of the device an open has open, or None
  closing       \* opens whose device a goroutine is about to close

agentMediaVars == <<closed, active, leased, pending, mediaSession, open,
                    openDevice, closing>>

OpenRecord ==
  [call : ModemCalls \cup {None},
   caller : {"idle", "wait", "session", "release", "left"},
   runner : {"idle", "resolve", "open", "finish", "done"},
   endpoint : Endpoints \cup {None},    \* endpointLease
   cancelled : BOOLEAN, opening : BOOLEAN, completed : BOOLEAN,
   abandoned : BOOLEAN]

Unused == [call |-> None, caller |-> "idle", runner |-> "idle", endpoint |-> None,
           cancelled |-> FALSE, opening |-> FALSE, completed |-> FALSE,
           abandoned |-> FALSE]

AgentMediaTypeOK ==
  /\ closed \in BOOLEAN
  /\ active \subseteq ModemCalls /\ leased \subseteq Endpoints
  /\ pending \in [ModemCalls -> Opens \cup {None}]
  /\ mediaSession \in [ModemCalls -> Opens \cup {None}]
  /\ open \in [Opens -> OpenRecord]
  /\ openDevice \in [Opens -> Endpoints \cup {None}]
  /\ closing \subseteq Opens

AgentMediaInit ==
  /\ closed = FALSE /\ active = {} /\ leased = {}
  /\ pending = [c \in ModemCalls |-> None]
  /\ mediaSession = [c \in ModemCalls |-> None]
  /\ open = [o \in Opens |-> Unused]
  /\ openDevice = [o \in Opens |-> None]
  /\ closing = {}

Owned(o) == open[o].call # None /\ pending[open[o].call] = o

\* releasePendingLeaseLocked, for the opens that leave pendingOpens; their
\* devices are closed after the mutex is released.
Released(gone) ==
  /\ active' = active \ {open[o].call : o \in gone}
  /\ leased' = leased \ {open[o].endpoint : o \in gone}
  /\ pending' = [c \in ModemCalls |-> IF pending[c] \in gone THEN None
                                      ELSE pending[c]]

Closable(gone) == {o \in gone : openDevice[o] # None /\ open[o].completed}

-----------------------------------------------------------------------------
(* The caller.                                                             *)

\* Open, beginPendingOpen: one open or session per call.
BeginOpen(o, c) ==
  /\ open[o] = Unused /\ ~closed /\ c \notin active
  /\ active' = active \cup {c}
  /\ pending' = [pending EXCEPT ![c] = o]
  /\ open' = [open EXCEPT ![o] = [Unused EXCEPT
                !.call = c, !.caller = "wait", !.runner = "resolve"]]
  /\ UNCHANGED <<closed, leased, mediaSession, openDevice, closing>>

\* The deadline passes or the client goes away.
Cancel(o) ==
  /\ open[o].caller = "wait" /\ ~open[o].cancelled
  /\ open' = [open EXCEPT ![o].cancelled = TRUE]
  /\ UNCHANGED <<closed, active, leased, pending, mediaSession, openDevice,
                 closing>>

\* Mutant: an open that is under way is given up like any other.
RemovableAlways(o) == TRUE

\* While the backend opens the device, the lease stays until the runner ends.
Removable(o) == ~open[o].opening \/ open[o].completed

\* abandonPendingOpen.
Abandon(o) ==
  /\ open[o].caller = "wait" /\ open[o].cancelled
  /\ open' = [open EXCEPT ![o].caller = "left",
                          ![o].abandoned = @ \/ Owned(o)]
  /\ IF Owned(o) /\ Removable(o)
       THEN /\ Released({o})
            /\ closing' = closing \cup Closable({o})
       ELSE UNCHANGED <<active, leased, pending, closing>>
  /\ UNCHANGED <<closed, mediaSession, openDevice>>

\* claimPendingOpen, once the runner is done: the open was given up, came too
\* late, failed, or becomes the session of its call.
Claim(o) ==
  /\ open[o].caller = "wait" /\ open[o].runner = "done"
  /\ LET lost == ~Owned(o) \/ open[o].abandoned \/ closed
         kept == ~lost /\ ~open[o].cancelled /\ openDevice[o] # None
     IN /\ open' = [open EXCEPT ![o].caller = IF kept THEN "session" ELSE "left"]
        /\ IF lost
             THEN UNCHANGED <<active, leased, pending, mediaSession, closing>>
             ELSE IF kept
               THEN /\ mediaSession' = [mediaSession EXCEPT ![open[o].call] = o]
                    /\ pending' = [pending EXCEPT ![open[o].call] = None]
                    /\ UNCHANGED <<active, leased, closing>>
               ELSE /\ Released({o})
                    /\ closing' = closing \cup Closable({o})
                    /\ UNCHANGED mediaSession
  /\ UNCHANGED <<closed, openDevice>>

\* Session.Close closes the device, then the lease is released.
CloseSession(o) ==
  /\ open[o].caller = "session"
  /\ openDevice' = [openDevice EXCEPT ![o] = None]
  /\ open' = [open EXCEPT ![o].caller = "release"]
  /\ UNCHANGED <<closed, active, leased, pending, mediaSession, closing>>

ReleaseSession(o) ==
  /\ open[o].caller = "release"
  /\ LET c == open[o].call IN
       /\ active' = active \ {c}
       /\ leased' = leased \ {open[o].endpoint}
       /\ mediaSession' = [mediaSession EXCEPT ![c] = IF @ = o THEN None ELSE @]
  /\ open' = [open EXCEPT ![o].caller = "left"]
  /\ UNCHANGED <<closed, pending, openDevice, closing>>

-----------------------------------------------------------------------------
(* The runner.                                                             *)

\* openBackend up to beginBackendOpen: the call is resolved to an endpoint,
\* which is leased if the open is still owned and the endpoint is free.
Resolve(o) ==
  /\ open[o].runner = "resolve"
  /\ \/ \E e \in Endpoints \ leased :
          /\ Owned(o) /\ ~open[o].abandoned /\ ~closed /\ ~open[o].cancelled
          /\ leased' = leased \cup {e}
          /\ open' = [open EXCEPT ![o].endpoint = e, ![o].opening = TRUE,
                                  ![o].runner = "open"]
     \/ /\ open' = [open EXCEPT ![o].runner = "finish"]
        /\ UNCHANGED leased
  /\ UNCHANGED <<closed, active, pending, mediaSession, openDevice, closing>>

\* backend.Open, with or without a device.
OpenDevice(o) ==
  /\ open[o].runner = "open"
  /\ open' = [open EXCEPT ![o].runner = "finish"]
  /\ \/ openDevice' = [openDevice EXCEPT ![o] = open[o].endpoint]
     \/ UNCHANGED openDevice
  /\ UNCHANGED <<closed, active, leased, pending, mediaSession, closing>>

\* finishPendingOpen: the result is kept for the caller, unless nobody waits.
FinishOpen(o) ==
  /\ open[o].runner = "finish"
  /\ LET unwanted == Owned(o) /\ (open[o].abandoned \/ closed) IN
       /\ open' = [open EXCEPT ![o].runner = "done", ![o].opening = FALSE,
                               ![o].completed = Owned(o)]
       /\ IF unwanted THEN Released({o}) ELSE UNCHANGED <<active, leased, pending>>
       /\ closing' = IF openDevice[o] # None /\ (unwanted \/ ~Owned(o))
                       THEN closing \cup {o} ELSE closing
  /\ UNCHANGED <<closed, mediaSession, openDevice>>

CloseDevice(o) ==
  /\ o \in closing
  /\ closing' = closing \ {o}
  /\ openDevice' = [openDevice EXCEPT ![o] = None]
  /\ UNCHANGED <<closed, active, leased, pending, mediaSession, open>>

-----------------------------------------------------------------------------
\* Close: every pending open is abandoned and cancelled, those that are not
\* opening are removed; the sessions are closed after the mutex is released.
CloseManager ==
  /\ ~closed /\ closed' = TRUE
  /\ LET waiting == {o \in Opens : Owned(o)}
         gone    == {o \in waiting : Removable(o)}
     IN /\ open' = [o \in Opens |->
                      IF o \in waiting
                        THEN [open[o] EXCEPT !.abandoned = TRUE, !.cancelled = TRUE]
                        ELSE open[o]]
        /\ Released(gone)
        /\ closing' = closing \cup Closable(gone)
  /\ UNCHANGED <<mediaSession, openDevice>>

\* The request has returned and its goroutines are gone: the slot of the model
\* serves another request.
Forget(o) ==
  /\ open[o].caller = "left" /\ open[o].runner = "done" /\ o \notin closing
  /\ open' = [open EXCEPT ![o] = Unused]
  /\ UNCHANGED <<closed, active, leased, pending, mediaSession, openDevice,
                 closing>>

AgentMediaNext ==
  \/ \E o \in Opens :
       \/ \E c \in ModemCalls : BeginOpen(o, c)
       \/ Cancel(o) \/ Abandon(o) \/ Claim(o) \/ CloseSession(o)
       \/ ReleaseSession(o) \/ Resolve(o) \/ OpenDevice(o) \/ FinishOpen(o)
       \/ CloseDevice(o) \/ Forget(o)
  \/ CloseManager

AgentMediaSpec == AgentMediaInit /\ [][AgentMediaNext]_agentMediaVars

-----------------------------------------------------------------------------
\* The opens that hold the lease of their endpoint.
Holders == {o \in Opens : /\ open[o].endpoint # None
                          /\ \/ Owned(o)
                             \/ open[o].caller \in {"session", "release"}}

\* A lease is held by exactly one pending open or session, and a call is
\* active for exactly one: nothing is leaked, whoever came late.
LeasesAreHeld ==
  /\ leased = {open[o].endpoint : o \in Holders}
  /\ \A o, p \in Holders : open[o].endpoint = open[p].endpoint => o = p
  /\ active = {c \in ModemCalls : pending[c] # None \/ mediaSession[c] # None}

\* An open device belongs to a runner at work, to the result a caller will
\* find, to a session, or is about to be closed; and two devices of one
\* endpoint are open only while one of them is about to be closed.
DevicesAreOwned ==
  \A o \in Opens : openDevice[o] # None =>
    /\ \/ open[o].runner = "finish" \/ open[o].caller = "session"
       \/ (Owned(o) /\ open[o].runner = "done") \/ o \in closing
    /\ \A p \in Opens \ {o} :
         openDevice[p] = openDevice[o] => closing \cap {o, p} # {}

OneDevicePerEndpoint == LeasesAreHeld /\ DevicesAreOwned
=============================================================================
