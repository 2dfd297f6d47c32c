------------------------------- MODULE DequeMC -------------------------------
(* An instance of Deque for TLC. *)
EXTENDS Deque, TLC

CONSTANTS d1, d2

TwoObjects == {d1, d2}
Symmetry == Permutations(TwoObjects)
=============================================================================
