----------------------------- MODULE MCKytCache -----------------------------
(***************************************************************************)
(* Instances of KytCache for TLC.                                          *)
(***************************************************************************)
EXTENDS KytCache, TLC

Symmetry == Permutations(Session) \cup Permutations(Response)
=============================================================================
