SPECIFICATION Spec
CONSTANTS
  Controllers = {a1, a2}
  Calls = {c1, c2, c3}
  Lines = {l1, l2}
  Handlers = {h1, h2}
  Ticker = Ticker
  Main = Main
  None = None
  Duration = 2
VIEW SafetyView
SYMMETRY Symmetric
INVARIANTS
  CallsUnderLease
PROPERTIES
  ImplementsLease
