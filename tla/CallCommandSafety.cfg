SPECIFICATION Spec
CONSTANTS
  Starts = {s1, s2}
  Hangups = {h1}
  Calls = {c1}
  Threads = {t1, t2}
  None = None
  Faults = {"crash", "lost", "late", "garbled", "ghost", "unseen", "refused",
            "unsaved", "quarantined", "unreconciled", "unrecorded"}
VIEW SafetyView
SYMMETRY Symmetric
INVARIANTS
  RowsTruthful
  CompletedIsTrue
PROPERTIES
  ImplementsJournal
