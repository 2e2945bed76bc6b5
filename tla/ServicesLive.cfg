SPECIFICATION Spec
CONSTANTS
  None = None
  Preps = {a}  Requests = {r}  Window = 2
  Calls = {c}  Owners = {a}  Hubs = {x}
  RecCalls = {c}  Segments = {a}
  Streams = {a}  Sessions = {s}  Sections = {calls, others}
  CallSection = calls  Reassigned = {s}
  MaxSignals = 2  PerSession = 2  Global = 2
  MaxCalls = 1  MaxRadio = 0  MaxEpoch = 1
CHECK_DEADLOCK FALSE
PROPERTIES
  AbandonedPreparationEnds GoneCallIsReleased WantedIsRecorded
  RevokedStreamEnds ChangesAreShown
