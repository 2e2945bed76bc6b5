--------------------------- MODULE MCControlLease ---------------------------
(* Small instances of the agent's control lease for TLC.                   *)
EXTENDS ControlLease, TLC

Symmetric == Permutations(Controllers) \cup Permutations(Calls)
  \cup Permutations(Lines) \cup Permutations(Handlers)

\* fault only records; nothing but NothingSuppressed reads it.
SafetyView == <<agent, controller, left, expiring, closed, pc, who, todo, err,
                call>>
=============================================================================
