------------------------------ MODULE PowerOfTwo ------------------------------
(***************************************************************************)
(* The ring sizes of the library: the smallest power of two that is at     *)
(* least the requested one, and never below two.  The bit-smearing loop of *)
(* round_up_to_power_of_two is given by the number that it computes.       *)
(***************************************************************************)
EXTENDS Integers

CONSTANT MaxSize    \* bound: the largest size considered

ASSUME SizeAssumption == MaxSize \in Nat

IsPowerOfTwo(p) == \E i \in 0..MaxSize : p = 2^i

\* p is the smallest power of two that is at least n.
IsRoundUp(p, n) == /\ p >= n
                   /\ IsPowerOfTwo(p)
                   /\ \A r \in 1..MaxSize : IsPowerOfTwo(r) /\ r >= n => p <= r

\* Slip: the `n < 2` case returns n.
BugRoundUp(n) == IF n < 2 THEN n ELSE CHOOSE p \in 1..MaxSize : IsRoundUp(p, n)

\* round_up_to_power_of_two.
RoundUpToPowerOfTwo(n) == IF n < 2 THEN 2 ELSE CHOOSE p \in 1..MaxSize : IsRoundUp(p, n)
=============================================================================
