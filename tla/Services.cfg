SPECIFICATION Spec
CONSTANTS
  Services = {"preparation", "media", "media_hubs", "recording", "network",
              "outbox", "telegram", "telegram_batch", "events", "accounts"}
  None = None
  Preps = {a, b}  Requests = {r}  Window = 1
  Calls = {c}  Owners = {a, b}  Hubs = {x}  LoneOwner = {t1}  TwoHubs = {a, b}
  RecCalls = {c}  Segments = {a, b}
  Proxies = {p}  MaxRev = 2  MaxEpoch = 2
  Events = {e}  MaxAttempts = 2
  Bots = {a, b}  LoneBot = {t1}
  Streams = {a, b}  Sessions = {s}  Sections = {calls, others}
  CallSection = calls  Reassigned = {}  PerSession = 2  Global = 2
  Tokens = {t1, t2, t3}  Devices = {t1, t2}  Slots = {a, b}
  MaxSessions = 2  MaxDevices = 1  MaxRevision = 2
SYMMETRY Symmetry
CHECK_DEADLOCK FALSE
INVARIANTS
  RequestDialledOnce MediaIsTrue RecordingIsTrue NetworkIsApplied
  DeliveryIsTruthful StreamsAreServed AccountsAreCurrent
PROPERTIES
  NoDialAfterCancel
