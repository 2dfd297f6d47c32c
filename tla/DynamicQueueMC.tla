---------------------------- MODULE DynamicQueueMC ----------------------------
(* An instance of DynamicQueue for TLC. *)
EXTENDS DynamicQueue, TLC

CONSTANTS q1, q2

TwoObjects == {q1, q2}
Symmetry == Permutations(TwoObjects)
=============================================================================
