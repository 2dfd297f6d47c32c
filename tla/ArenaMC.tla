------------------------------- MODULE ArenaMC -------------------------------
(* The instance of Arena and HugePages for TLC: two arena objects, two     *)
(* places on the heap, a caller's buffer that is not aligned, or null, and *)
(* four pages that mmap may use; a size of 61 wraps in both roundings.     *)
EXTENDS HugePages, TLC

CONSTANTS a1, a2

TwoArenas == {a1, a2}
TwoBases == {8, 16}
OddBuffer == {0, 27}
FewRequests == {2, 3, 5}
FewAlignments == {1, 4}
HugeOrUnknown == {0, 8}
FourPages == {36, 40, 44, 48}
FewSizes == {0, 1, 7, 61}
Symmetry == Permutations(TwoArenas)
=============================================================================
