SPECIFICATION Spec
CONSTANTS
  Holders = {h1, h2}
  Groups <- EachHolder
  Requests = {r1}
  Named = {}
  Calls = {c1, c2}
  Lines = {l1}
  Slots = {s1, s2}
  Threads = {t1}
  None = None
  RestartOrphan = RestartOrphan
  OpenPhases = {"ringing", "live"}
  Grace = 1
  PrepareWindow = 1
  MaxRelisted = 0
VIEW SafetyView
SYMMETRY Symmetric
INVARIANTS
  OneOwnerPerLine
  OneRecordPerIdentity
  OneRecordPerHolder
  ProjectionExcludes
  InheritedStayOccupied
PROPERTIES
  OwnershipIsFinal
  ImplementsContract
CHECK_DEADLOCK FALSE
