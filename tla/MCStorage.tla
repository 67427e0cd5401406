------------------------------ MODULE MCStorage ------------------------------
(* Blocks of one height differ only in their identity, so Id is symmetric. *)
EXTENDS Storage, TLC

CONSTANTS a, b

MCId == {a, b}
Symmetry == Permutations(MCId)
=============================================================================
