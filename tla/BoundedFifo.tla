----------------------------- MODULE BoundedFifo -----------------------------
(***************************************************************************)
(* What a bounded queue of this library promises its callers: elements are *)
(* accepted while fewer than Capacity of them wait, each accepted element  *)
(* is handed to one consumer, in the order of acceptance, and the value a  *)
(* consumer returns is the value that was accepted.                        *)
(*                                                                         *)
(* Accepting an element and handing it over are the two linearization      *)
(* points; Return is the later moment at which the consumer has the value  *)
(* in its own variable.                                                    *)
(***************************************************************************)
EXTENDS Naturals, Sequences

CONSTANTS Consumers, Values, Capacity, None

VARIABLES q,      \* the accepted elements nobody was handed yet, oldest first
          hand,   \* what each consumer was handed and has not returned
          ret     \* the value each consumer returned last

fifoVars == <<q, hand, ret>>

Init == /\ q = <<>>
        /\ hand = [c \in Consumers |-> None]
        /\ ret = [c \in Consumers |-> None]

\* An element is accepted, and only below the capacity.
Enqueue == /\ Len(q) < Capacity
           /\ \E v \in Values : q' = Append(q, v)
           /\ UNCHANGED <<hand, ret>>

\* The oldest element is handed to one consumer.
Dequeue(c) == /\ q # <<>>
              /\ hand[c] = None
              /\ hand' = [hand EXCEPT ![c] = Head(q)]
              /\ q' = Tail(q)
              /\ UNCHANGED ret

\* The consumer returns exactly the value it was handed.
Return(c) == /\ hand[c] # None
             /\ ret' = [ret EXCEPT ![c] = hand[c]]
             /\ hand' = [hand EXCEPT ![c] = None]
             /\ UNCHANGED q

\* The consumer fails while taking over the value: the value is lost.
Fail(c) == /\ hand[c] # None
           /\ hand' = [hand EXCEPT ![c] = None]
           /\ UNCHANGED <<q, ret>>

Next == \/ Enqueue
        \/ \E c \in Consumers : Dequeue(c) \/ Return(c) \/ Fail(c)

Spec == Init /\ [][Next]_fifoVars
=============================================================================
