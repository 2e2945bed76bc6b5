SPECIFICATION FairSpec
CONSTANTS
  Holders = {h1}
  Groups <- EachHolder
  Requests = {r1}
  Named = {r1}
  Calls = {c1}
  Lines = {l1}
  Slots = {s1, s2}
  Threads = {t1}
  None = None
  RestartOrphan = RestartOrphan
  OpenPhases = {"ringing", "live"}
  Grace = 1
  PrepareWindow = 1
  MaxRelisted = 1
PROPERTIES
  OrphansEnd
  EndingIsHandedOver
  ReservationsLapse
CHECK_DEADLOCK FALSE
