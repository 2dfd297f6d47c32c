------------------------------ MODULE SpscRingMC ------------------------------
(* Small instances of SpscRing for TLC. *)
EXTENDS SpscRing

CONSTANTS v1, v2

OneValue == {v1}
TwoValues == {v1, v2}
=============================================================================
