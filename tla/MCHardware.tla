----------------------------- MODULE MCHardware -----------------------------
(***************************************************************************)
(* The components around the modems, in the application and in the agent.  *)
(* As in MCServices a behaviour is one component's, `service`, and the     *)
(* components take turns over the same variables.                          *)
(***************************************************************************)
EXTENDS Naturals, TLC

CONSTANTS
  Services,     \* the components a run is about
  Opens, ModemCalls, Endpoints,         \* AgentMedia
  MaxCalls, MaxRadio, MaxEpoch,         \* Synchronizer
  Modems, Cards, Numbers, First, Rows, MaxLine, MaxMoves, \* LineIdentity
  Sends, Incoming, MaxRev,              \* MessageExchange
  RingingCalls, Limit, MaxChanges, MaxHidden, \* IncomingPolicy
  Methods, IPs, MaxBearers,             \* DataPlane
  None

VARIABLES
  service, v1, v2, v3, v4, v5, v6, v7, v8, v9, v10, v11, v12, v13, v14, v15

M == INSTANCE ModemProofs WITH
       \* AgentMedia
       closed <- v1, active <- v2, leased <- v3, pending <- v4,
       mediaSession <- v5, open <- v6, openDevice <- v7, closing <- v8,
       \* Synchronizer
       calls <- v1, radio <- v2, agent <- v3, buffer <- v4,
       watcher <- v5, changed <- v6, coalescing <- v7, run <- v8,
       sample <- v9, refresh <- v10, db <- v11, status <- v12, digest <- v13,
       shown <- v14, control <- v15,
       \* MessageExchange
       MaxRestarts <- MaxEpoch, modem <- v1, epoch <- v2, arrived <- v3,
       handler <- v4, sent <- v5, journal <- v6, app <- v7, policy <- v8,
       snap <- v9, rows <- v10, cleanup <- v11,
       \* IncomingPolicy
       phases <- v1, answered <- v2, rejects <- v3, history <- v4,
       decided <- v5, action <- v6, events <- v7, receives <- v8, line <- v9,
       lock <- v10,
       \* DataPlane
       MaxReplaced <- MaxChanges, mm <- v1, knownEpoch <- v2, owned <- v3,
       net <- v4, kernel <- v5, host <- v6, runtime <- v7, op <- v8, dp <- v9,
       orphans <- v10,
       \* LineIdentity: a card has the IMSI of its name
       Sub <- [c \in Cards |-> c], Subs <- Cards, slot <- v1, num <- v2,
       moves <- v3, lines <- v4, last <- v5, cards <- v6, subs <- v7,
       devices <- v8, legacy <- v9, stored <- v10, unstored <- v11

\* The variables from the n-th on, which a component with fewer leaves None.
From15 == <<v15>>
From14 == <<v14, From15>>
From13 == <<v13, From14>>
From12 == <<v12, From13>>
From11 == <<v11, From12>>
From10 == <<v10, From11>>
From9 == <<v9, From10>>

Unused15 == v15 = None
Unused14 == v14 = None /\ Unused15
Unused13 == v13 = None /\ Unused14
Unused12 == v12 = None /\ Unused13
Unused11 == v11 = None /\ Unused12
Unused10 == v10 = None /\ Unused11
Unused9 == v9 = None /\ Unused10

Init ==
  /\ service \in Services
  /\ \/ /\ service = "agent_media" /\ M!AgentMediaInit /\ Unused9
     \/ /\ service = "synchronizer" /\ M!SyncInit
     \/ /\ service = "lines" /\ M!LinesInit /\ Unused12
     \/ /\ service = "messages" /\ M!MessagesInit /\ Unused12
     \/ /\ service = "incoming" /\ M!IncomingInit /\ Unused11
     \/ /\ service = "data_plane" /\ M!DataPlaneInit /\ Unused11

Next ==
  \/ /\ service = "agent_media" /\ M!AgentMediaNext
     /\ UNCHANGED <<service, From9>>
  \/ /\ service = "synchronizer" /\ M!SyncNext
     /\ UNCHANGED service
  \/ /\ service = "lines" /\ M!LinesNext
     /\ UNCHANGED <<service, From12>>
  \/ /\ service = "messages" /\ M!MessagesNext
     /\ UNCHANGED <<service, From12>>
  \/ /\ service = "incoming" /\ M!IncomingNext
     /\ UNCHANGED <<service, From11>>
  \/ /\ service = "data_plane" /\ M!DataPlaneNext
     /\ UNCHANGED <<service, From11>>

vars == <<service, v1, v2, v3, v4, v5, v6, v7, v8, v9, v10, v11, v12, v13,
          v14, v15>>

Spec == Init /\ [][Next]_vars

\* Values the components do not tell apart.
Symmetry == Permutations(Opens)

\* What the proofs need of the constants.
ASSUME HardwareAssumption ==
  /\ M!AgentMediaAssumption /\ M!MessagesAssumption
  /\ M!PlaneAssumption /\ M!LinesAssumption

-----------------------------------------------------------------------------
\* Pages and the digests agree and the lease is kept only under a watched agent;
\* no message is lost or sent twice; calls are announced or rejected as the
\* policy says; and what the agent put on a host is in its files.
ViewIsTrue ==
  /\ service = "synchronizer" => M!SyncIsOrdered
  /\ service = "messages" => M!MessagesAreTrue
  /\ service = "incoming" => M!IncomingIsTrue
  /\ service = "data_plane" => M!DataPlaneIsOwned

\* An endpoint is leased by one open at a time and no device is forgotten.
OneDevicePerEndpoint == service = "agent_media" => M!OneDevicePerEndpoint

\* No observation is taken back, an answered call is not rejected by a policy,
\* and nobody else's bearer is ended, nor one whose network is still recorded.
StepsKeepOrder ==
  [][/\ service = "synchronizer" => M!ObservationsAdvance
     /\ service = "incoming" => M!AnsweredIsKept
     /\ service = "data_plane" => M!EndsOwnBearers]_vars

\* Lines, cards and history agree about who is whose, and a merge keeps the
\* settings made by hand.
LinesStayTrue ==
  /\ [](service = "lines" => M!LinesAreTrue)
  /\ [][service = "lines" => M!SettingsFollowHistory]_vars
=============================================================================
