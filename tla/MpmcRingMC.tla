------------------------------ MODULE MpmcRingMC ------------------------------
(* A small instance of MpmcRing for TLC: one thread of each kind works in  *)
(* batches, and may load old values of the atomics.                        *)
EXTENDS MpmcRing, TLC

CONSTANTS p1, p2, c1, c2, v1, v2

TwoProducers == {p1, p2}
TwoConsumers == {c1, c2}
TwoValues == {v1, v2}

PushCalls == p1 :> {<<v1, v2>>} @@ p2 :> {<<v2>>}
PopCalls == c1 :> {2} @@ c2 :> {1}
StaleOnes == {p1, c1}
=============================================================================
