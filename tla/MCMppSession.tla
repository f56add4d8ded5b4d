--------------------------- MODULE MCMppSession ---------------------------
(* Instances of MppSession for TLC. *)
EXTENDS MppSession, TLC

CallSymmetry == Permutations(Calls)
=============================================================================
