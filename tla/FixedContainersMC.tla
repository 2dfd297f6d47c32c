-------------------------- MODULE FixedContainersMC --------------------------
(* The instance of FixedContainers for TLC: two containers of one class.   *)
EXTENDS FixedContainers, TLC

CONSTANTS c1, c2, v1, v2

TwoContainers == {c1, c2}
TwoValues == {v1, v2}
FewCapacities == {2, 3}
Symmetry == Permutations(TwoContainers) \cup Permutations(TwoValues)
=============================================================================
