--------------------------- MODULE MCCallCommand ---------------------------
(* Small instances of the call commands for TLC.                            *)
EXTENDS CallCommand, TLC

Symmetric == Permutations(Starts) \cup Permutations(Hangups)
  \cup Permutations(Calls) \cup Permutations(Threads)

\* marked and released say what the HTTP layer does; only ReleasedIsResolved
\* reads them.
SafetyView == <<journal, history, modem, up, owner, thread>>
=============================================================================
