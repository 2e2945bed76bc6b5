SPECIFICATION FairSpec
CONSTANTS
  Starts = {s1}
  Hangups = {}
  Calls = {c1}
  Threads = {t1, t2}
  None = None
  Faults = {"crash", "lost", "late", "garbled", "unseen", "quarantined"}
INVARIANTS
  FailedIsNotPlaced
  ReleasedIsResolved
  PendingMeansRunning
PROPERTIES
  CommandsSettle
  RowsConverge
