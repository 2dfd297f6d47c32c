------------------------------ MODULE ShmRingMC ------------------------------
(* Small instances of ShmRing for TLC. *)
EXTENDS ShmRing

CONSTANTS pub1, sub1, py1

OnePublisher == {pub1}
OneSubscriber == {sub1}
OneReader == {py1}

Coordinated(processes, ordered, dropOldest) ==
  [processes |-> processes, ordered |-> ordered, dropOldest |-> dropOldest,
   coordinated |-> TRUE, mayStop |-> FALSE]

AnyOrder(processes, ordered) ==
  [processes |-> processes, ordered |-> ordered, dropOldest |-> TRUE,
   coordinated |-> FALSE, mayStop |-> TRUE]

\* Orderly use, without and with reordering; the example's publisher with the
\* Python subscriber; and the uses in which everything may happen.
Uses == {Coordinated({pub1, sub1}, ordered, FALSE) : ordered \in BOOLEAN}
        \cup {Coordinated({pub1, py1}, TRUE, TRUE), AnyOrder({pub1, sub1}, FALSE), AnyOrder({pub1, py1}, TRUE)}

\* The example's publisher, started in order with one C++ subscriber.
Dropping == {Coordinated({pub1, sub1}, TRUE, TRUE)}
=============================================================================
