--------------------------- MODULE HardwareProofs ---------------------------
(***************************************************************************)
(* The components of MCHardware: the invariant of the component whose turn *)
(* it is holds of the variables it shares with the others.                 *)
(***************************************************************************)
EXTENDS MCHardware, TLAPS

AgentMediaPart == service = "agent_media" => M!AgentMediaInv
SynchronizerPart == service = "synchronizer" => M!SyncInv
MessagesPart == service = "messages" => M!MessagesInv
IncomingPart == service = "incoming" => M!IncomingInv
DataPlanePart == service = "data_plane" => M!DataPlaneInv
LinesPart == service = "lines" => M!LinesInv

\* The agent's media: the first state.
LEMMA AgentMediaStart ==
  ASSUME Init
  PROVE  AgentMediaPart
<1>1. service = "agent_media" => M!AgentMediaInit
  BY DEF Init
<1>2. QED
  BY <1>1, HardwareAssumption, M!AgentMediaInvInit DEF AgentMediaPart

\* The agent's media: a step of this module is one of the component or none.
LEMMA AgentMediaStep ==
  ASSUME AgentMediaPart, [Next]_vars
  PROVE  AgentMediaPart'
<1>1. UNCHANGED service
  BY DEF Next, vars
<1>2. service = "agent_media" =>
        [M!AgentMediaNext]_<<v1, v2, v3, v4, v5, v6, v7, v8>>
  BY DEF Next, vars
<1>3. service = "agent_media" => [M!AgentMediaNext]_(M!agentMediaVars)
  BY <1>2 DEF M!agentMediaVars
<1>4. QED
  BY <1>1, <1>3, HardwareAssumption, M!AgentMediaInvNext DEF AgentMediaPart

\* The refreshes: the first state.
LEMMA SynchronizerStart ==
  ASSUME Init
  PROVE  SynchronizerPart
<1>1. service = "synchronizer" => M!SyncInit
  BY DEF Init
<1>2. QED
  BY <1>1, M!SyncInvInit DEF SynchronizerPart

\* The refreshes: a step of this module is one of the component or none.
LEMMA SynchronizerStep ==
  ASSUME SynchronizerPart, [Next]_vars
  PROVE  SynchronizerPart'
<1>1. UNCHANGED service
  BY DEF Next, vars
<1>2. service = "synchronizer" =>
        [M!SyncNext]_<<v1, v2, v3, v4, v5, v6, v7, v8,
                          v9, v10, v11, v12, v13, v14, v15>>
  BY DEF Next, vars
<1>3. service = "synchronizer" => [M!SyncNext]_(M!syncVars)
  BY <1>2 DEF M!syncVars
<1>4. QED
  BY <1>1, <1>3, M!SyncInvNext DEF SynchronizerPart

\* Messages: the first state.
LEMMA MessagesStart ==
  ASSUME Init
  PROVE  MessagesPart
<1>1. service = "messages" => M!MessagesInit
  BY DEF Init
<1>2. QED
  BY <1>1, HardwareAssumption, M!MessagesInvInit DEF MessagesPart

\* Messages: a step of this module is one of the component or none.
LEMMA MessagesStep ==
  ASSUME MessagesPart, [Next]_vars
  PROVE  MessagesPart'
<1>1. UNCHANGED service
  BY DEF Next, vars
<1>2. service = "messages" =>
        [M!MessagesNext]_<<v1, v2, v3, v4, v5, v6, v7, v8, v9, v10, v11>>
  BY DEF Next, vars
<1>3. service = "messages" => [M!MessagesNext]_(M!mxVars)
  BY <1>2 DEF M!mxVars
<1>4. QED
  BY <1>1, <1>3, HardwareAssumption, M!MessagesInvNext DEF MessagesPart

\* Incoming calls: the first state.
LEMMA IncomingStart ==
  ASSUME Init
  PROVE  IncomingPart
<1>1. service = "incoming" => M!IncomingInit
  BY DEF Init
<1>2. QED
  BY <1>1, M!IncomingInvInit DEF IncomingPart

\* Incoming calls: a step of this module is one of the component or none.
LEMMA IncomingStep ==
  ASSUME IncomingPart, [Next]_vars
  PROVE  IncomingPart'
<1>1. UNCHANGED service
  BY DEF Next, vars
<1>2. service = "incoming" =>
        [M!IncomingNext]_<<v1, v2, v3, v4, v5, v6, v7, v8, v9, v10>>
  BY DEF Next, vars
<1>3. service = "incoming" => [M!IncomingNext]_(M!icVars)
  BY <1>2 DEF M!icVars
<1>4. QED
  BY <1>1, <1>3, M!IncomingInvNext DEF IncomingPart

\* The data plane: the first state.
LEMMA DataPlaneStart ==
  ASSUME Init
  PROVE  DataPlanePart
<1>1. service = "data_plane" => M!DataPlaneInit
  BY DEF Init
<1>2. QED
  BY <1>1, HardwareAssumption, M!DataPlaneInvInit DEF DataPlanePart

\* The data plane: a step of this module is one of the component or none.
LEMMA DataPlaneStep ==
  ASSUME DataPlanePart, [Next]_vars
  PROVE  DataPlanePart'
<1>1. UNCHANGED service
  BY DEF Next, vars
<1>2. service = "data_plane" =>
        [M!DataPlaneNext]_<<v1, v2, v3, v4, v5, v6, v7, v8, v9, v10>>
  BY DEF Next, vars
<1>3. service = "data_plane" => [M!DataPlaneNext]_(M!dpVars)
  BY <1>2 DEF M!dpVars
<1>4. QED
  BY <1>1, <1>3, HardwareAssumption, M!DataPlaneInvNext DEF DataPlanePart

\* The lines: the first state.
LEMMA LinesStart ==
  ASSUME Init
  PROVE  LinesPart
<1>1. service = "lines" => M!LinesInit
  BY DEF Init
<1>2. QED
  BY <1>1, HardwareAssumption, M!LinesInvInit DEF LinesPart

\* The lines: a step of this module is one of the component or none.
LEMMA LinesStep ==
  ASSUME LinesPart, [Next]_vars
  PROVE  LinesPart'
<1>1. UNCHANGED service
  BY DEF Next, vars
<1>2. service = "lines" =>
        [M!LinesNext]_<<v1, v2, v3, v4, v5, v6, v7, v8, v9, v10, v11>>
  BY DEF Next, vars
<1>3. service = "lines" => [M!LinesNext]_(M!lineVars)
  BY <1>2 DEF M!lineVars
<1>4. QED
  BY <1>1, <1>3, HardwareAssumption, M!LinesInvNext DEF LinesPart

\* An endpoint's lease belongs to one open at a time, and a device that was
\* opened is closed or still owned, however opens, closes and calls overlap.
THEOREM EndpointsAreExclusive == Spec => []OneDevicePerEndpoint
<1>1. Spec => []AgentMediaPart
  BY AgentMediaStart, AgentMediaStep, PTL DEF Spec
<1>2. AgentMediaPart => OneDevicePerEndpoint
  BY HardwareAssumption, M!AgentMediaInvImplies
  DEF AgentMediaPart, OneDevicePerEndpoint
<1>3. QED
  BY <1>1, <1>2, PTL

\* What the application believes of the hardware is true whichever of the
\* components runs: its digests are of states pages were told of, its rows are of
\* messages and calls that exist, and what it did to them was asked for.  What the
\* agent put on a host is in its files, wherever it died.
THEOREM ViewIsAlwaysTrue == Spec => []ViewIsTrue
<1>1. Spec => []SynchronizerPart
  BY SynchronizerStart, SynchronizerStep, PTL DEF Spec
<1>2. Spec => []MessagesPart
  BY MessagesStart, MessagesStep, PTL DEF Spec
<1>3. Spec => []IncomingPart
  BY IncomingStart, IncomingStep, PTL DEF Spec
<1>4. Spec => []DataPlanePart
  BY DataPlaneStart, DataPlaneStep, PTL DEF Spec
<1>5. SynchronizerPart => (service = "synchronizer" => M!SyncIsOrdered)
  BY M!SyncInvImplies DEF SynchronizerPart
<1>6. MessagesPart => (service = "messages" => M!MessagesAreTrue)
  BY HardwareAssumption, M!MessagesInvImplies DEF MessagesPart
<1>7. IncomingPart => (service = "incoming" => M!IncomingIsTrue)
  BY M!IncomingInvImplies DEF IncomingPart
<1>8. DataPlanePart => (service = "data_plane" => M!DataPlaneIsOwned)
  BY M!DataPlaneInvImplies DEF DataPlanePart
<1>9. SynchronizerPart /\ MessagesPart /\ IncomingPart /\ DataPlanePart => ViewIsTrue
  BY <1>5, <1>6, <1>7, <1>8 DEF ViewIsTrue
<1>10. QED
  BY <1>1, <1>2, <1>3, <1>4, <1>9, PTL

\* No step takes an observation back, none rejects a call that was answered, and
\* none ends a bearer of somebody else or one whose network is still recorded.
THEOREM OrderIsKept == Spec => StepsKeepOrder
<1>1. Spec => []SynchronizerPart
  BY SynchronizerStart, SynchronizerStep, PTL DEF Spec
<1>2. Spec => []IncomingPart
  BY IncomingStart, IncomingStep, PTL DEF Spec
<1>3. ASSUME SynchronizerPart, [Next]_vars
      PROVE  service = "synchronizer" => M!ObservationsAdvance
  <2>1. service = "synchronizer" =>
          [M!SyncNext]_<<v1, v2, v3, v4, v5, v6, v7, v8,
                         v9, v10, v11, v12, v13, v14, v15>>
    BY <1>3 DEF Next, vars
  <2>2. service = "synchronizer" => [M!SyncNext]_(M!syncVars)
    BY <2>1 DEF M!syncVars
  <2>3. QED
    BY <1>3, <2>2, M!SyncAdvances DEF SynchronizerPart
<1>4. ASSUME IncomingPart, [Next]_vars
      PROVE  service = "incoming" => M!AnsweredIsKept
  <2>1. service = "incoming" =>
          [M!IncomingNext]_<<v1, v2, v3, v4, v5, v6, v7, v8, v9, v10>>
    BY <1>4 DEF Next, vars
  <2>2. service = "incoming" => [M!IncomingNext]_(M!icVars)
    BY <2>1 DEF M!icVars
  <2>3. QED
    BY <1>4, <2>2, M!AnsweredStays DEF IncomingPart
<1>5. Spec => []DataPlanePart
  BY DataPlaneStart, DataPlaneStep, PTL DEF Spec
<1>6. DataPlanePart => (service = "data_plane" => M!EndsOwnBearers)
  BY M!DataPlaneInvEnds DEF DataPlanePart
<1>7. SynchronizerPart /\ IncomingPart /\ DataPlanePart /\ [Next]_vars =>
        [/\ service = "synchronizer" => M!ObservationsAdvance
         /\ service = "incoming" => M!AnsweredIsKept
         /\ service = "data_plane" => M!EndsOwnBearers]_vars
  BY <1>3, <1>4, <1>6
<1>8. QED
  BY <1>1, <1>2, <1>5, <1>7, PTL DEF Spec, StepsKeepOrder

\* Cards, lines and history agree about who is whose after any number of moves,
\* snapshots and merges, and no merge loses settings made by hand.
THEOREM LinesAreStable == Spec => LinesStayTrue
<1>1. Spec => []LinesPart
  BY LinesStart, LinesStep, PTL DEF Spec
<1>2. LinesPart => (service = "lines" => M!LinesAreTrue)
  BY HardwareAssumption, M!LinesInvImplies DEF LinesPart
<1>3. ASSUME LinesPart, [Next]_vars
      PROVE  service = "lines" => M!SettingsFollowHistory
  <2>1. service = "lines" =>
          [M!LinesNext]_<<v1, v2, v3, v4, v5, v6, v7, v8, v9, v10, v11>>
    BY <1>3 DEF Next, vars
  <2>2. service = "lines" => [M!LinesNext]_(M!lineVars)
    BY <2>1 DEF M!lineVars
  <2>3. QED
    BY <1>3, <2>2, HardwareAssumption, M!LinesInvNext DEF LinesPart
<1>4. LinesPart /\ [Next]_vars =>
        [service = "lines" => M!SettingsFollowHistory]_vars
  BY <1>3
<1>5. QED
  BY <1>1, <1>2, <1>4, PTL DEF Spec, LinesStayTrue
=============================================================================
