------------------------------- MODULE VectorMC -------------------------------
(* The instance of Vector for TLC. *)
EXTENDS Vector, TLC

CONSTANTS v1, v2

TwoVectors == {v1, v2}
Symmetry == Permutations(TwoVectors)
=============================================================================
