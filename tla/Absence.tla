------------------------------- MODULE Absence -------------------------------
(***************************************************************************)
(* The one value that stands for nothing: no row, no operation, no session *)
(* or message in hand.  The components that are proved about together      *)
(* declare it here once.                                                   *)
(***************************************************************************)
CONSTANT None
=============================================================================
