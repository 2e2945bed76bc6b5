----------------------------- MODULE MCCallLease -----------------------------
(* Small instances of the call ownership manager for TLC.                  *)
EXTENDS CallLease, TLC

EachHolder == {{h} : h \in Holders}

\* What still matters of a record: nothing asks whether it was dispatched, nor
\* for the preparation deadline of one that is not preparing, nor for the
\* deadline, the media and the revocation of one that is ending.
Matters(r) ==
  [r EXCEPT !.dispatching = FALSE,
            !.prepareUntil = IF r.preparing THEN @ ELSE 0,
            !.orphanAt = IF r.ending THEN NoDeadline ELSE @,
            !.mediaAlive = @ /\ ~r.ending,
            !.revoked = @ /\ ~r.ending]

\* endRequested only records; no action and no safety property reads it.
SafetyView == <<[s \in Slots |-> Matters(rec[s])], initialized, calls, handler,
                coord, todo, missing, expired, inherited>>

Symmetric == Permutations(Slots) \cup Permutations(Threads)
  \cup Permutations(Holders) \cup Permutations(Requests)
  \cup Permutations(Calls) \cup Permutations(Lines)
=============================================================================
