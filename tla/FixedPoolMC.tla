----------------------------- MODULE FixedPoolMC -----------------------------
(* The instance of FixedPool and NumaPool for TLC: four blocks, and a      *)
(* preferred node that is none, exists, or is beyond libnuma's mask.       *)
EXTENDS NumaPool

NodeArguments == {-1, 0, 1}
=============================================================================
