SPECIFICATION Spec
CONSTANTS
  Starts = {s1}
  Hangups = {}
  Calls = {c1}
  Threads = {t1, t2}
  None = None
  Faults = {"lost", "refused"}
SYMMETRY Symmetric
INVARIANTS
  FailedIsNotPlaced
