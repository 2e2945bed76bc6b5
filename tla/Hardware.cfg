SPECIFICATION Spec
CONSTANTS
  Services = {"agent_media", "synchronizer", "lines", "messages", "incoming",
              "data_plane"}
  None = None
  Opens = {a, b}  ModemCalls = {c, d}  Endpoints = {x, y}
  MaxCalls = 1  MaxRadio = 1  MaxEpoch = 1
  Modems = {a, b}  Cards = {c, d}  Numbers = {x, y}  First = x  Rows = {r}
  MaxLine = 2  MaxMoves = 1
  Sends = {s}  Incoming = {i}  MaxRev = 2
  RingingCalls = {a, b}  Limit = 1  MaxChanges = 1  MaxHidden = 1
  Methods = {"slaac"}  IPs = {x}  MaxBearers = 1
SYMMETRY Symmetry
CHECK_DEADLOCK FALSE
INVARIANTS
  ViewIsTrue OneDevicePerEndpoint
PROPERTIES
  StepsKeepOrder LinesStayTrue
