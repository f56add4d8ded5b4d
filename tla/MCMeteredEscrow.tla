-------------------------- MODULE MCMeteredEscrow --------------------------
(* Instances of MeteredEscrow for TLC. *)
EXTENDS MeteredEscrow, TLC

CallSymmetry == Permutations(Calls)
=============================================================================
