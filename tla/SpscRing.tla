------------------------------- MODULE SpscRing -------------------------------
(***************************************************************************)
(* hpc::core::spsc_ring_buffer<T>: one producer thread, one consumer       *)
(* thread, masked indices, one slot meant to stay empty.                   *)
(*                                                                         *)
(* Each operation is split at its accesses to shared state: the check (the *)
(* load of the other side's index), the access to the slot, and the store  *)
(* of its own index.  Both ways in are modelled: try_push / try_pop, and   *)
(* the zero-copy calls between which the client itself fills or empties    *)
(* the slot.  The batch calls repeat try_push / try_pop until one fails.   *)
(***************************************************************************)
EXTENDS PowerOfTwo, Sequences

CONSTANTS
  Values,             \* the values of T
  Raw,                \* storage that holds no T
  RequestedCapacity,  \* the constructor's argument
  WordBits,           \* width of size_t
  MaxBatch,           \* bound: longest batch
  MaxPushes,          \* bound: no push call starts after so many pushes
  StaleLoads          \* a load may return an older value of the index

ASSUME ValuesAssumption == Raw \notin Values
ASSUME FlagsAssumption == StaleLoads \in BOOLEAN
ASSUME BoundsAssumption == MaxPushes \in Nat /\ MaxBatch \in Nat
ASSUME RequestAssumption ==
  /\ RequestedCapacity \in Nat
  /\ \E p \in 1..MaxSize : IsRoundUp(p, RequestedCapacity + 1)

\* storage_capacity_: one slot more than the request, rounded up.
StorageCapacity == RoundUpToPowerOfTwo(RequestedCapacity + 1)

\* size_t holds the storage size with room to spare.
ASSUME WordAssumption == WordBits \in Nat /\ 2^WordBits \in Nat /\ 2 * StorageCapacity <= 2^WordBits

\* capacity().
Capacity == StorageCapacity - 1

Slots == 0..(StorageCapacity - 1)

\* idx & mask_, for a power-of-two size.
Masked(idx) == idx % StorageCapacity

\* Slip: the mask is one bit short.
BugShortMask(idx) == (idx + 1) % (StorageCapacity \div 2)

\* next().
NextIndex(idx) == Masked(idx + 1)

\* distance(): the difference as a size_t; masking with -1 changes nothing.
Distance(t, h) == (t - h) % 2^WordBits

\* Slip: off by one against the usable capacity.
BugIsFull(t, h) == Distance(t, h) = Capacity - 1

\* The test of try_push, try_acquire_producer_slot and full().
IsFull(t, h) == Distance(t, h) = Capacity

\* Slip: the emptiness test is dropped.
BugIsEmpty(h, t) == FALSE

\* Slip: compares with the slot after head_, so the last element stays.
BugKeepsOne(h, t) == h = t \/ NextIndex(h) = t

\* The test of try_pop, try_acquire_consumer_slot and empty().
IsEmpty(h, t) == h = t

VARIABLES
  paced,   \* the kind of client: a paced one never lets more than capacity()
           \* elements be in the ring, the other relies on try_push's test
  head,    \* head_, written by the consumer
  tail,    \* tail_, written by the producer
  data,    \* storage_
  ppc,     \* where the producer is
  args,    \* what the producer's call has still to push
  cpc,     \* where the consumer is
  want,    \* how many elements the consumer's call has still to pop
  out,     \* what try_pop moved into its argument, or the client took
  ret,     \* the last element the consumer got
  log,     \* history: every element pushed, in order
  pops,    \* history: how many elements were popped
  pSeen,   \* how many pops the producer has observed
  cSeen    \* how many pushes the consumer has observed

vars == <<paced, head, tail, data, ppc, args, cpc, want, out, ret, log, pops, pSeen, cSeen>>

pushes == Len(log)

Init == /\ paced \in BOOLEAN
        /\ head = 0
        /\ tail = 0
        /\ data = [i \in Slots |-> Raw]
        /\ ppc = "idle"
        /\ args = <<>>
        /\ cpc = "idle"
        /\ want = 0
        /\ out = Raw
        /\ ret = Raw
        /\ log = <<>>
        /\ pops = 0
        /\ pSeen = 0
        /\ cSeen = 0

\* Observing an atomic that took the values 0, 1, ... (masked): loads by one
\* thread never go back.
Observed(last, current) == IF StaleLoads THEN last..current ELSE {current}

consumerVars == <<paced, head, cpc, want, out, ret, pops, cSeen>>
producerVars == <<paced, tail, ppc, args, log, pSeen>>

-----------------------------------------------------------------------------
(* The producer.                                                           *)

Batches == UNION {[1..n -> Values] : n \in 1..MaxBatch}

\* The client calls try_push, try_push_batch or the zero-copy pair.  A paced
\* client first learns of enough finished pops by other means than the ring.
PushCall(n) == /\ pushes < MaxPushes
               /\ IF paced THEN \E k \in pSeen..pops : pushes + n - k <= Capacity /\ pSeen' = k
                           ELSE UNCHANGED pSeen

\* try_push (a batch of one) and try_push_batch.
TryPush == /\ ppc = "idle"
           /\ \E src \in Batches : args' = src /\ PushCall(Len(src))
           /\ ppc' = "check"
           /\ UNCHANGED <<tail, data, log, consumerVars>>

\* The zero-copy call.
AcquireCall == /\ ppc = "idle"
               /\ PushCall(1)
               /\ ppc' = "acquire"
               /\ UNCHANGED <<tail, args, data, log, consumerVars>>

\* The loads of tail_ (the producer's own) and head_: there is room.
PushHasRoom == /\ ppc = "check"
               /\ \E k \in Observed(pSeen, pops) : pSeen' = k /\ ~IsFull(tail, Masked(k))
               /\ ppc' = "construct"
               /\ UNCHANGED <<tail, args, data, log, consumerVars>>

\* The same loads say full: return false, ending a batch as well.
PushRejected == /\ ppc = "check"
                /\ \E k \in Observed(pSeen, pops) : pSeen' = k /\ IsFull(tail, Masked(k))
                /\ ppc' = "idle"
                /\ args' = <<>>
                /\ UNCHANGED <<tail, data, log, consumerVars>>

\* Placement new into element_at(tail).
Construct == /\ ppc = "construct"
             /\ data' = [data EXCEPT ![Masked(tail)] = args[1]]
             /\ ppc' = "store"
             /\ UNCHANGED <<tail, args, log, pSeen, consumerVars>>

\* T's constructor throws: tail_ is not moved, the slot stays raw.
ConstructThrows == /\ ppc = "construct"
                   /\ ppc' = "idle"
                   /\ args' = <<>>
                   /\ UNCHANGED <<tail, data, log, pSeen, consumerVars>>

\* tail_.store(next(tail), release); a batch goes on with the next element.
StoreTail == /\ ppc = "store"
             /\ tail' = NextIndex(tail)
             /\ log' = Append(log, args[1])
             /\ args' = Tail(args)
             /\ ppc' = IF Len(args) = 1 THEN "idle" ELSE "check"
             /\ UNCHANGED <<data, pSeen, consumerVars>>

\* try_acquire_producer_slot returns the slot.
AcquireProducerSlot == /\ ppc = "acquire"
                       /\ \E k \in Observed(pSeen, pops) : pSeen' = k /\ ~IsFull(tail, Masked(k))
                       /\ ppc' = "slot"
                       /\ UNCHANGED <<tail, args, data, log, consumerVars>>

\* try_acquire_producer_slot returns nullptr.
AcquireProducerFails == /\ ppc = "acquire"
                        /\ \E k \in Observed(pSeen, pops) : pSeen' = k /\ IsFull(tail, Masked(k))
                        /\ ppc' = "idle"
                        /\ UNCHANGED <<tail, args, data, log, consumerVars>>

\* The client builds an element in the slot it acquired.
FillSlot == /\ ppc = "slot"
            /\ \E v \in Values : args' = <<v>> /\ data' = [data EXCEPT ![Masked(tail)] = v]
            /\ ppc' = "filled"
            /\ UNCHANGED <<tail, log, pSeen, consumerVars>>

\* The client gives the slot up without filling it: there is nothing to call.
AbandonProducerSlot == /\ ppc = "slot"
                       /\ ppc' = "idle"
                       /\ UNCHANGED <<tail, args, data, log, pSeen, consumerVars>>

\* commit_producer_slot: the slot is the one at the current tail_.
CommitProducerSlot == /\ ppc = "filled"
                      /\ tail' = NextIndex(tail)
                      /\ log' = Append(log, args[1])
                      /\ args' = <<>>
                      /\ ppc' = "idle"
                      /\ UNCHANGED <<data, pSeen, consumerVars>>

-----------------------------------------------------------------------------
(* The consumer.                                                           *)

\* try_pop (a batch of one) and try_pop_batch.
TryPop == /\ cpc = "idle"
          /\ want' \in 1..MaxBatch
          /\ cpc' = "check"
          /\ UNCHANGED <<head, data, out, ret, pops, cSeen, producerVars>>

\* The loads of head_ (the consumer's own) and tail_: there is an element.
PopHasElement == /\ cpc = "check"
                 /\ \E k \in Observed(cSeen, pushes) : cSeen' = k /\ ~IsEmpty(head, Masked(k))
                 /\ cpc' = "move"
                 /\ UNCHANGED <<head, data, want, out, ret, pops, producerVars>>

\* The same loads say empty: return false.
PopRejected == /\ cpc = "check"
               /\ \E k \in Observed(cSeen, pushes) : cSeen' = k /\ IsEmpty(head, Masked(k))
               /\ cpc' = "idle"
               /\ want' = 0
               /\ UNCHANGED <<head, data, out, ret, pops, producerVars>>

\* out = std::move(*slot); slot->~T().
MoveOut == /\ cpc = "move"
           /\ out' = data[Masked(head)]
           /\ data' = [data EXCEPT ![Masked(head)] = Raw]
           /\ cpc' = "store"
           /\ UNCHANGED <<head, want, ret, pops, cSeen, producerVars>>

\* T's move assignment throws: head_ is not moved, the element stays.
MoveThrows == /\ cpc = "move"
              /\ cpc' = "idle"
              /\ want' = 0
              /\ UNCHANGED <<head, data, out, ret, pops, cSeen, producerVars>>

\* head_.store(next(head), release); a batch goes on.
StoreHead == /\ cpc = "store"
             /\ head' = NextIndex(head)
             /\ pops' = pops + 1
             /\ ret' = out
             /\ want' = want - 1
             /\ cpc' = IF want = 1 THEN "idle" ELSE "check"
             /\ UNCHANGED <<data, out, cSeen, producerVars>>

\* try_acquire_consumer_slot returns the slot.
AcquireConsumerSlot == /\ cpc = "idle"
                       /\ \E k \in Observed(cSeen, pushes) : cSeen' = k /\ ~IsEmpty(head, Masked(k))
                       /\ cpc' = "slot"
                       /\ UNCHANGED <<head, data, want, out, ret, pops, producerVars>>

\* try_acquire_consumer_slot returns nullptr.
AcquireConsumerFails == /\ cpc = "idle"
                        /\ \E k \in Observed(cSeen, pushes) : cSeen' = k /\ IsEmpty(head, Masked(k))
                        /\ UNCHANGED <<head, data, cpc, want, out, ret, pops, producerVars>>

\* The client moves the element out of the slot and destroys it.
EmptySlot == /\ cpc = "slot"
             /\ out' = data[Masked(head)]
             /\ data' = [data EXCEPT ![Masked(head)] = Raw]
             /\ cpc' = "emptied"
             /\ UNCHANGED <<head, want, ret, pops, cSeen, producerVars>>

\* The client only looked at the element: it stays in the ring.
AbandonConsumerSlot == /\ cpc = "slot"
                       /\ cpc' = "idle"
                       /\ UNCHANGED <<head, data, want, out, ret, pops, cSeen, producerVars>>

\* release_consumer_slot: the slot is the one at the current head_.
ReleaseConsumerSlot == /\ cpc = "emptied"
                       /\ head' = NextIndex(head)
                       /\ pops' = pops + 1
                       /\ ret' = out
                       /\ cpc' = "idle"
                       /\ UNCHANGED <<data, want, out, cSeen, producerVars>>

-----------------------------------------------------------------------------
PushStep == \/ PushHasRoom \/ PushRejected \/ Construct \/ ConstructThrows \/ StoreTail
            \/ AcquireProducerSlot \/ AcquireProducerFails
            \/ FillSlot \/ AbandonProducerSlot \/ CommitProducerSlot

PopStep == \/ PopHasElement \/ PopRejected \/ MoveOut \/ MoveThrows \/ StoreHead
           \/ AcquireConsumerSlot \/ AcquireConsumerFails
           \/ EmptySlot \/ AbandonConsumerSlot \/ ReleaseConsumerSlot

Next == TryPush \/ AcquireCall \/ PushStep \/ TryPop \/ PopStep

Spec == Init /\ [][Next]_vars

(***************************************************************************)
(* The consumer thread keeps running and keeps calling try_pop, a store of *)
(* tail_ does not stay invisible to it for ever, and moving an element out *)
(* does not throw for ever.  The producer may stop.                        *)
(***************************************************************************)
Fairness == WF_vars(PopStep) /\ SF_vars(TryPop) /\ SF_vars(PopHasElement) /\ SF_vars(MoveOut)

FairSpec == Spec /\ Fairness

-----------------------------------------------------------------------------
(* Correctness.                                                            *)

ProducerInSlot == ppc \in {"construct", "store", "slot", "filled"}
ConsumerInSlot == cpc \in {"move", "store", "slot", "emptied"}

\* "usable capacity is storage_capacity_-1": the ring never holds more
\* elements than capacity(), so one slot always tells full from empty.
NeverOverfilled == pushes <= pops + Capacity

\* With a paced client a slot changes hands only through an observed index:
\* the producer has observed the pop that freed its slot, the consumer the
\* push that filled its slot.  So plain accesses to one slot never race.
SlotHandover ==
  paced => /\ ProducerInSlot => pushes < pSeen + StorageCapacity
           /\ ConsumerInSlot => pops < cSeen
           /\ ProducerInSlot /\ ConsumerInSlot => Masked(tail) # Masked(head)

\* With a paced client placement new only meets raw storage, and a consumer
\* only takes the live element that is next in push order.
SlotLifetime ==
  paced => /\ ppc \in {"construct", "slot"} => data[Masked(tail)] = Raw
           /\ cpc \in {"move", "slot"} => data[Masked(head)] = log[pops + 1]

\* A paced client's push is never turned down, however old the head_ that
\* try_push loads.  Another client's is turned down at one place only, as
\* distance() subtracts masked indices as full-width words: the producer at
\* the last slot having seen the consumer at the first.
PushRejection ==
  [][ppc' = "idle" /\ ppc \in {"check", "acquire"} =>
       ~paced /\ tail = Capacity /\ Masked(pSeen') = 0]_vars

\* The oldest element has left its slot, its pop is not finished.
Taken == IF cpc \in {"store", "emptied"} THEN 1 ELSE 0

\* The ring of a paced client implements the bounded FIFO of capacity()
\* elements: the store of tail_ accepts, taking the element out of its slot
\* is the hand-over, and the store of head_ ends the pop.
Fifo == INSTANCE BoundedFifo WITH
  Consumers <- {"consumer"},
  None <- Raw,
  q <- [i \in 1..(IF paced THEN pushes - pops - Taken ELSE 0) |-> log[pops + Taken + i]],
  hand <- [c \in {"consumer"} |-> IF paced /\ Taken = 1 THEN out ELSE Raw],
  ret <- [c \in {"consumer"} |-> IF paced THEN ret ELSE Raw]

ImplementsFifo == Fifo!Spec

\* Every element that a paced client pushes is popped.
EveryElementPopped ==
  \A x \in 0..(MaxPushes + MaxBatch - 2) : paced /\ pushes > x ~> pops > x
=============================================================================
