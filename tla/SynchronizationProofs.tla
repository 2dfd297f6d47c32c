------------------------ MODULE SynchronizationProofs ------------------------
(***************************************************************************)
(* The two primitives that rest on acquire and release alone.              *)
(*                                                                         *)
(* spsc_ring_buffer, for every capacity and batch length, with stale or    *)
(* fresh loads and throwing elements: what a paced client gets, and where  *)
(* the full test fires for the other one.                                  *)
(*                                                                         *)
(* ttas_spinlock, for any number of threads, stale tests included.         *)
(***************************************************************************)
EXTENDS SpscRing, TtasSpinlock, Arithmetic


-----------------------------------------------------------------------------
(* The ring's geometry.                                                    *)

\* round_up_to_power_of_two never returns less than two slots.
LEMMA StorageFact == /\ StorageCapacity \in Nat /\ StorageCapacity >= 2
                     /\ Capacity \in Nat /\ StorageCapacity = Capacity + 1
<1>1. StorageCapacity \in Nat /\ StorageCapacity >= 2
  <2>1. CASE RequestedCapacity + 1 < 2
    BY <2>1, RequestAssumption DEF StorageCapacity, RoundUpToPowerOfTwo
  <2>2. CASE ~(RequestedCapacity + 1 < 2)
    <3> DEFINE c == CHOOSE p \in 1..MaxSize : IsRoundUp(p, RequestedCapacity + 1)
    <3>1. c \in 1..MaxSize /\ IsRoundUp(c, RequestedCapacity + 1)
      BY RequestAssumption
    <3>2. StorageCapacity = c
      BY <2>2 DEF StorageCapacity, RoundUpToPowerOfTwo
    <3> HIDE DEF c
    <3>3. c \in Nat /\ c >= RequestedCapacity + 1
      BY <3>1, SizeAssumption, RequestAssumption DEF IsRoundUp
    <3> QED  BY <2>2, <3>2, <3>3, RequestAssumption
  <2> QED  BY <2>1, <2>2
<1> QED  BY <1>1 DEF Capacity

\* idx & mask_ is a slot, names the same slot again one lap later only, and
\* next() of a masked index is the masked next index.
LEMMA MaskFacts ==
  /\ \A x \in Nat : Masked(x) \in Slots
  /\ \A x \in Nat : Masked(Masked(x)) = Masked(x)
  /\ \A x, y \in Nat : Masked(x) = Masked(y) /\ x < y => x + StorageCapacity <= y
  /\ \A x \in Nat : Masked(x + StorageCapacity) = Masked(x)
  /\ \A x \in Nat : NextIndex(Masked(x)) = Masked(x + 1)
<1>0. StorageCapacity \in Nat /\ StorageCapacity >= 1
  BY StorageFact
<1>1. ASSUME NEW x \in Nat  PROVE Masked(x) \in Slots
  BY <1>0, DivMod, Zenon DEF Masked, Slots
<1>2. ASSUME NEW x \in Nat  PROVE Masked(Masked(x)) = Masked(x)
  BY <1>0, <1>1, FirstLap, Zenon DEF Masked, Slots
<1>3. ASSUME NEW x \in Nat, NEW y \in Nat, Masked(x) = Masked(y), x < y
      PROVE x + StorageCapacity <= y
  BY <1>0, <1>3, SameCell, Zenon DEF Masked
<1>4. ASSUME NEW x \in Nat  PROVE Masked(x + StorageCapacity) = Masked(x)
  BY <1>0, NextLap, Zenon DEF Masked
<1>5. ASSUME NEW x \in Nat  PROVE NextIndex(Masked(x)) = Masked(x + 1)
  BY <1>0, StepMod, Zenon DEF Masked, NextIndex
<1> QED  BY <1>1, <1>2, <1>3, <1>4, <1>5

\* Two indices less than a lap apart are in different slots.
LEMMA Apart ==
  ASSUME NEW x \in Nat, NEW y \in Nat, x < y, y < x + StorageCapacity
  PROVE  Masked(x) # Masked(y)
  BY MaskFacts, StorageFact

\* What a load of the other side's index may return.
LEMMA ObservedBound ==
  ASSUME NEW last \in Nat, NEW current \in Nat, last <= current, NEW k \in Observed(last, current)
  PROVE  k \in Nat /\ last <= k /\ k <= current
  BY DEF Observed

\* A batch has an element.
LEMMA BatchFacts == ASSUME NEW src \in Batches  PROVE src \in Seq(Values) /\ src # <<>>
<1>1. PICK n \in 1..MaxBatch : src \in [1..n -> Values]
  BY DEF Batches
<1>2. n \in Nat /\ n >= 1
  BY <1>1, BoundsAssumption
<1> QED  BY <1>1, <1>2

\* What is left of a batch after its first element.
LEMMA BatchRest ==
  ASSUME NEW V, NEW s \in Seq(V), s # <<>>
  PROVE  /\ s[1] \in V /\ Tail(s) \in Seq(V) /\ Len(Tail(s)) = Len(s) - 1
         /\ Len(s) # 1 => Tail(s) # <<>>
<1>1. Len(s) \in Nat /\ Len(s) >= 1 /\ s[1] \in V
  OBVIOUS
<1>2. Tail(s) \in Seq(V) /\ Len(Tail(s)) = Len(s) - 1
  OBVIOUS
<1>3. ASSUME Len(s) # 1  PROVE Tail(s) # <<>>
  <2>1. Len(Tail(s)) # 0
    BY <1>1, <1>2, <1>3
  <2>2. Len(<<>>) = 0
    OBVIOUS
  <2> QED  BY <2>1, <2>2, Zenon
<1> QED  BY <1>1, <1>2, <1>3

-----------------------------------------------------------------------------
(***************************************************************************)
(* The inductive invariant.  Indices are the numbers of pushes and pops,   *)
(* masked; each side's view of the other is behind it; and a paced client  *)
(* keeps the two within one lap, so that the slots from pops to pushes     *)
(* hold the log and all others are raw.                                    *)
(***************************************************************************)
ProducerLabels == {"idle", "check", "construct", "store", "acquire", "slot", "filled"}
ConsumerLabels == {"idle", "check", "move", "store", "slot", "emptied"}

\* Types, and what the labels say of the call's arguments.
TypeOK ==
  /\ paced \in BOOLEAN
  /\ data \in [Slots -> Values \cup {Raw}]
  /\ ppc \in ProducerLabels
  /\ args \in Seq(Values)
  /\ ppc \in {"check", "construct", "store", "filled"} => args # <<>>
  /\ cpc \in ConsumerLabels
  /\ want \in Nat
  /\ cpc \in {"check", "move", "store"} => want > 0
  /\ out \in Values \cup {Raw}
  /\ log \in Seq(Values)
  /\ pops \in Nat
  /\ pSeen \in Nat
  /\ cSeen \in Nat

\* head_ and tail_ are the masked counts; each side has seen no more of the
\* other than there is, and a consumer in a slot has seen its push.
IndexInv ==
  /\ head = Masked(pops)
  /\ tail = Masked(pushes)
  /\ pSeen <= pops
  /\ pops <= cSeen
  /\ cSeen <= pushes
  /\ ConsumerInSlot => pops < cSeen

\* How many elements the producer's call may still push.
PushLeft == CASE ppc = "idle" -> 0
              [] ppc \in {"check", "construct", "store"} -> Len(args)
              [] ppc \in {"acquire", "slot", "filled"} -> 1

\* The producer has filled its slot and not stored tail_.
Placed == IF ppc \in {"store", "filled"} THEN 1 ELSE 0

\* A paced client counts on the pops it has observed only.
PaceInv == paced => pushes + PushLeft <= pSeen + Capacity

\* With a paced client: the slots in use hold the log, the others nothing,
\* and the element in flight on either side is the right one.
DataInv ==
  paced => /\ \A x \in (pops + Taken)..(pushes - 1) : data[Masked(x)] = log[x + 1]
           /\ \A x \in (pushes + Placed)..(pops + Taken + Capacity) : data[Masked(x)] = Raw
           /\ Placed = 1 => data[Masked(pushes)] = args[1]
           /\ Taken = 1 => out = log[pops + 1]

\* All parts together: inductive for every capacity and both kinds of client.
IInv == TypeOK /\ IndexInv /\ PaceInv /\ DataInv

LEMMA IInvInit == Init => IInv
<1> SUFFICES ASSUME Init  PROVE IInv
  OBVIOUS
<1>1. Masked(0) = 0
  BY StorageFact, FirstLap DEF Masked
<1>2. TypeOK /\ IndexInv
  BY <1>1 DEF Init, TypeOK, IndexInv, ProducerLabels, ConsumerLabels, ConsumerInSlot, pushes
<1>3. PaceInv
  BY StorageFact DEF Init, PaceInv, PushLeft, pushes
<1>4. DataInv
  BY MaskFacts, StorageFact DEF Init, DataInv, Placed, Taken, pushes
<1> QED  BY <1>2, <1>3, <1>4 DEF IInv

\* A step after which the same elements are in the same slots.
LEMMA DataKept ==
  ASSUME IInv, UNCHANGED <<paced, data, log, pops, out>>,
         Placed' = Placed, Taken' = Taken, Placed = 1 => args' = args
  PROVE  DataInv'
  BY DEF IInv, DataInv, pushes

\* With a paced client less than a lap lies between pops and pushes, and
\* there is room for what the producer's call has still to push.
LEMMA PacedLap ==
  ASSUME IInv, paced
  PROVE  /\ pushes \in Nat /\ pops \in Nat /\ pops <= pushes /\ pushes <= pops + Capacity
         /\ ppc # "idle" => pushes < pSeen + Capacity /\ pushes < pops + Capacity
         /\ ConsumerInSlot => pops < pushes
         /\ Taken \in {0, 1} /\ Placed \in {0, 1}
<1>1. pushes \in Nat /\ pops \in Nat /\ pSeen \in Nat /\ cSeen \in Nat
  BY DEF IInv, TypeOK, pushes
<1>2. PushLeft \in Nat /\ (ppc # "idle" => PushLeft >= 1)
  <2>1. CASE ppc = "idle"
    BY <2>1 DEF PushLeft
  <2>2. CASE ppc \in {"check", "construct", "store"}
    BY <2>2 DEF PushLeft, IInv, TypeOK
  <2>3. CASE ppc \in {"acquire", "slot", "filled"}
    BY <2>3 DEF PushLeft
  <2> QED  BY <2>1, <2>2, <2>3 DEF IInv, TypeOK, ProducerLabels
<1>3. pushes + PushLeft <= pSeen + Capacity
  BY DEF IInv, PaceInv
<1>4. pSeen <= pops /\ pops <= cSeen /\ cSeen <= pushes /\ (ConsumerInSlot => pops < cSeen)
  BY DEF IInv, IndexInv
<1>5. Taken \in {0, 1} /\ Placed \in {0, 1}
  BY DEF Taken, Placed
<1> QED  BY <1>1, <1>2, <1>3, <1>4, <1>5, StorageFact

\* The producer fills the slot at tail_: it was raw, and no slot of the log.
LEMMA DataPlaced ==
  ASSUME IInv, NEW v \in Values, ppc \in {"construct", "slot"}, Placed' = 1,
         data' = [data EXCEPT ![Masked(tail)] = v], args'[1] = v,
         UNCHANGED <<paced, log, pops, out>>, Taken' = Taken
  PROVE  DataInv'
<1> SUFFICES ASSUME paced
             PROVE  /\ \A x \in (pops + Taken)..(pushes - 1) : data'[Masked(x)] = log[x + 1]
                    /\ \A x \in (pushes + 1)..(pops + Taken + Capacity) : data'[Masked(x)] = Raw
                    /\ data'[Masked(pushes)] = v
                    /\ Taken = 1 => out = log[pops + 1]
  BY DEF DataInv, pushes
<1>0. Placed = 0 /\ Masked(tail) = Masked(pushes) /\ data \in [Slots -> Values \cup {Raw}]
  BY PacedLap, MaskFacts DEF Placed, IInv, IndexInv, TypeOK
<1>1. pushes \in Nat /\ pops \in Nat /\ pushes < pops + Capacity /\ Taken \in {0, 1} /\ pops + Taken <= pushes
  BY PacedLap DEF Taken, ConsumerInSlot
<1>2. ASSUME NEW x \in (pops + Taken)..(pushes - 1)  PROVE data'[Masked(x)] = log[x + 1]
  <2>1. x \in Nat /\ Masked(x) # Masked(pushes)
    BY <1>1, Apart, StorageFact
  <2>2. data[Masked(x)] = log[x + 1]
    BY DEF IInv, DataInv
  <2> QED  BY <1>0, <2>1, <2>2, MaskFacts
<1>3. ASSUME NEW x \in (pushes + 1)..(pops + Taken + Capacity)  PROVE data'[Masked(x)] = Raw
  <2>1. x \in Nat /\ Masked(x) # Masked(pushes)
    BY <1>1, Apart, StorageFact
  <2>2. data[Masked(x)] = Raw
    BY <1>0, <1>1, StorageFact DEF IInv, DataInv
  <2> QED  BY <1>0, <2>1, <2>2, MaskFacts
<1>4. data'[Masked(pushes)] = v
  BY <1>0, <1>1, MaskFacts
<1> QED  BY <1>2, <1>3, <1>4 DEF IInv, DataInv

\* tail_ moves on: the filled slot is the newest of the log.
LEMMA DataPushed ==
  ASSUME IInv, ppc \in {"store", "filled"}, Placed' = 0, log' = Append(log, args[1]),
         UNCHANGED <<paced, data, pops, out>>, Taken' = Taken
  PROVE  DataInv'
<1> SUFFICES ASSUME paced  PROVE DataInv'
  BY DEF DataInv
<1>0. Placed = 1 /\ args[1] \in Values /\ log \in Seq(Values)
  BY DEF Placed, IInv, TypeOK
<1>1. pushes \in Nat /\ pops \in Nat /\ Taken \in {0, 1} /\ pops + Taken <= pushes
  BY PacedLap DEF Taken, ConsumerInSlot
<1>2. pushes' = pushes + 1 /\ log'[pushes + 1] = args[1] /\ \A i \in 1..pushes : log'[i] = log[i]
  BY <1>0 DEF pushes
<1>3. ASSUME NEW x \in (pops + Taken)..(pushes' - 1)  PROVE data[Masked(x)] = log'[x + 1]
  <2>1. CASE x = pushes
    BY <1>0, <1>2, <2>1 DEF IInv, DataInv
  <2>2. CASE x # pushes
    <3>1. x \in (pops + Taken)..(pushes - 1) /\ x + 1 \in 1..pushes
      BY <1>1, <1>2, <2>2
    <3> QED  BY <1>2, <3>1 DEF IInv, DataInv
  <2> QED  BY <2>1, <2>2
<1>4. ASSUME NEW x \in (pushes' + Placed')..(pops + Taken + Capacity)  PROVE data[Masked(x)] = Raw
  <2>1. pushes' + Placed' = pushes + Placed
    BY <1>0, <1>1, <1>2
  <2> QED  BY <2>1 DEF IInv, DataInv
<1>5. ASSUME Taken = 1  PROVE out = log'[pops + 1]
  <2>1. out = log[pops + 1]
    BY <1>5, Zenon DEF IInv, DataInv
  <2>2. pops + 1 \in 1..pushes
    BY <1>1, <1>5
  <2> QED  BY <1>2, <2>1, <2>2
<1>6. pops' + Taken' = pops + Taken /\ pops' + Taken' + Capacity = pops + Taken + Capacity
  OBVIOUS
<1>7. (\A x \in (pops + Taken)..(pushes - 1) : data[Masked(x)] = log[x + 1])'
  BY <1>3, <1>6, Zenon
<1>8. (\A x \in (pushes + Placed)..(pops + Taken + Capacity) : data[Masked(x)] = Raw)'
  BY <1>4, <1>6, Zenon
<1>9. (Taken = 1 => out = log[pops + 1])'
  BY <1>5
<1>10. Placed' # 1
  OBVIOUS
<1> QED  BY <1>7, <1>8, <1>9, <1>10, Zenon DEF DataInv

\* The consumer takes the oldest element: its slot is raw again.
LEMMA DataTaken ==
  ASSUME IInv, cpc \in {"move", "slot"}, Taken' = 1,
         out' = data[Masked(head)], data' = [data EXCEPT ![Masked(head)] = Raw],
         UNCHANGED <<paced, log, pops, args>>, Placed' = Placed
  PROVE  DataInv'
<1> SUFFICES ASSUME paced
             PROVE  /\ \A x \in (pops + 1)..(pushes - 1) : data'[Masked(x)] = log[x + 1]
                    /\ \A x \in (pushes + Placed)..(pops + 1 + Capacity) : data'[Masked(x)] = Raw
                    /\ Placed = 1 => data'[Masked(pushes)] = args[1]
                    /\ out' = log[pops + 1]
  BY DEF DataInv, pushes
<1>0. Taken = 0 /\ Masked(head) = Masked(pops) /\ data \in [Slots -> Values \cup {Raw}]
  BY PacedLap, MaskFacts DEF Taken, IInv, IndexInv, TypeOK
<1>1. pushes \in Nat /\ pops \in Nat /\ Placed \in {0, 1} /\ pops < pushes /\ pushes <= pops + Capacity
      /\ (Placed = 1 => pushes < pops + Capacity)
  BY PacedLap DEF ConsumerInSlot, Placed
<1>2. ASSUME NEW x \in (pops + 1)..(pushes - 1)  PROVE data'[Masked(x)] = log[x + 1]
  <2>1. x \in Nat /\ Masked(x) # Masked(pops)
    BY <1>1, Apart, StorageFact
  <2>2. data[Masked(x)] = log[x + 1]
    BY <1>0, <1>1 DEF IInv, DataInv
  <2> QED  BY <1>0, <2>1, <2>2, MaskFacts
<1>3. ASSUME NEW x \in (pushes + Placed)..(pops + 1 + Capacity)  PROVE data'[Masked(x)] = Raw
  <2>1. CASE x = pops + StorageCapacity
    BY <1>0, <1>1, <2>1, MaskFacts
  <2>2. CASE x # pops + StorageCapacity
    <3>1. x \in Nat /\ x \in (pushes + Placed)..(pops + Taken + Capacity)
      BY <1>0, <1>1, <2>2, StorageFact
    <3>2. data[Masked(x)] = Raw
      BY <3>1 DEF IInv, DataInv
    <3> QED  BY <1>0, <3>1, <3>2, MaskFacts
  <2> QED  BY <2>1, <2>2
<1>4. Placed = 1 => data'[Masked(pushes)] = args[1]
  <2> SUFFICES ASSUME Placed = 1  PROVE data'[Masked(pushes)] = args[1]
    OBVIOUS
  <2>1. Masked(pops) # Masked(pushes)
    BY <1>1, Apart, StorageFact
  <2> QED  BY <1>0, <1>1, <2>1, MaskFacts DEF IInv, DataInv
<1>5. out' = log[pops + 1]
  BY <1>0, <1>1 DEF IInv, DataInv
<1> QED  BY <1>2, <1>3, <1>4, <1>5

\* head_ moves on over the slot that was emptied.
LEMMA DataPopped ==
  ASSUME IInv, cpc \in {"store", "emptied"}, Taken' = 0, pops' = pops + 1,
         UNCHANGED <<paced, data, log, args>>, Placed' = Placed
  PROVE  DataInv'
<1>1. Taken = 1 /\ pops \in Nat /\ Capacity \in Nat
  BY StorageFact DEF Taken, IInv, TypeOK
<1>2. pops + Taken = pops' + Taken'
  BY <1>1
<1> QED  BY <1>1, <1>2 DEF IInv, DataInv, pushes

\* The values every step leaves typed.
LEMMA TypeNext == IInv /\ [Next]_vars => TypeOK'
<1> SUFFICES ASSUME IInv, [Next]_vars  PROVE TypeOK'
  OBVIOUS
<1> USE DEF IInv, TypeOK, ProducerLabels, ConsumerLabels, consumerVars, producerVars
<1>0. /\ pushes \in Nat /\ pSeen <= pops /\ pops <= cSeen /\ cSeen <= pushes
      /\ Masked(head) \in Slots /\ Masked(tail) \in Slots
  BY MaskFacts DEF IndexInv, pushes
<1>p. ASSUME NEW k \in Observed(pSeen, pops)  PROVE k \in Nat
  BY <1>0, <1>p, ObservedBound
<1>c. ASSUME NEW k \in Observed(cSeen, pushes)  PROVE k \in Nat
  BY <1>0, <1>c, ObservedBound
<1>e. <<>> \in Seq(Values)
  OBVIOUS
<1>1. CASE TryPush
  <2>1. pSeen' \in Nat
    BY <1>1, <1>0 DEF TryPush, PushCall
  <2>2. args' \in Seq(Values) /\ args' # <<>>
    BY <1>1, BatchFacts DEF TryPush
  <2> QED  BY <1>1, <2>1, <2>2 DEF TryPush
<1>2. CASE AcquireCall
  BY <1>2, <1>0 DEF AcquireCall, PushCall
<1>3. CASE PushHasRoom \/ PushRejected \/ AcquireProducerSlot \/ AcquireProducerFails
  <2>1. pSeen' \in Nat
    BY <1>3, <1>p DEF PushHasRoom, PushRejected, AcquireProducerSlot, AcquireProducerFails
  <2>2. CASE PushHasRoom \/ AcquireProducerSlot \/ AcquireProducerFails
    BY <2>1, <2>2 DEF PushHasRoom, AcquireProducerSlot, AcquireProducerFails
  <2>3. CASE PushRejected
    BY <2>1, <2>3, <1>e DEF PushRejected
  <2> QED  BY <1>3, <2>2, <2>3
<1>4. CASE Construct \/ FillSlot
  <2>1. CASE Construct
    BY <2>1, <1>0 DEF Construct
  <2>2. CASE FillSlot
    <3>1. PICK v \in Values : args' = <<v>> /\ data' = [data EXCEPT ![Masked(tail)] = v]
      BY <2>2 DEF FillSlot
    <3>2. <<v>> \in Seq(Values) /\ <<v>> # <<>>
      OBVIOUS
    <3> QED  BY <2>2, <3>1, <3>2, <1>0 DEF FillSlot
  <2> QED  BY <1>4, <2>1, <2>2
<1>5. CASE ConstructThrows \/ AbandonProducerSlot
  <2>1. CASE ConstructThrows
    BY <2>1, <1>e DEF ConstructThrows
  <2>2. CASE AbandonProducerSlot
    BY <2>2 DEF AbandonProducerSlot
  <2> QED  BY <1>5, <2>1, <2>2
<1>6. CASE StoreTail \/ CommitProducerSlot
  <2>1. args \in Seq(Values) /\ args # <<>>
    BY <1>6 DEF StoreTail, CommitProducerSlot
  <2>2. args[1] \in Values /\ Tail(args) \in Seq(Values) /\ (Len(args) # 1 => Tail(args) # <<>>)
    BY <2>1, BatchRest
  <2>3. Append(log, args[1]) \in Seq(Values)
    BY <2>2
  <2>4. CASE StoreTail
    BY <2>2, <2>3, <2>4 DEF StoreTail
  <2>5. CASE CommitProducerSlot
    BY <2>3, <2>5, <1>e DEF CommitProducerSlot
  <2> QED  BY <1>6, <2>4, <2>5
<1>7. CASE TryPop
  BY <1>7, BoundsAssumption DEF TryPop
<1>8. CASE PopHasElement \/ PopRejected \/ AcquireConsumerSlot \/ AcquireConsumerFails
  BY <1>8, <1>c DEF PopHasElement, PopRejected, AcquireConsumerSlot, AcquireConsumerFails
<1>9. CASE MoveOut \/ EmptySlot
  BY <1>9, <1>0 DEF MoveOut, EmptySlot
<1>10. CASE MoveThrows \/ AbandonConsumerSlot
  BY <1>10 DEF MoveThrows, AbandonConsumerSlot
<1>11. CASE StoreHead \/ ReleaseConsumerSlot
  BY <1>11 DEF StoreHead, ReleaseConsumerSlot
<1>12. CASE UNCHANGED vars
  BY <1>12 DEF vars
<1> QED  BY <1>1, <1>2, <1>3, <1>4, <1>5, <1>6, <1>7, <1>8, <1>9, <1>10, <1>11, <1>12 DEF Next, PushStep, PopStep

\* The indices stay the masked counts, and each view behind its index.
LEMMA IndexNext == IInv /\ [Next]_vars => IndexInv'
<1> SUFFICES ASSUME IInv, [Next]_vars  PROVE IndexInv'
  OBVIOUS
<1> USE DEF consumerVars, producerVars, ConsumerInSlot, pushes
<1>0. /\ IndexInv
      /\ pushes \in Nat /\ pops \in Nat /\ pSeen \in Nat /\ cSeen \in Nat /\ log \in Seq(Values)
      /\ NextIndex(head) = Masked(pops + 1) /\ NextIndex(tail) = Masked(pushes + 1)
  BY MaskFacts DEF IInv, TypeOK, IndexInv
<1> USE DEF IndexInv
<1>1. CASE TryPush \/ AcquireCall
  <2>1. pSeen' <= pops
    BY <1>1, <1>0 DEF TryPush, AcquireCall, PushCall
  <2> QED  BY <1>1, <1>0, <2>1 DEF TryPush, AcquireCall
<1>2. CASE PushHasRoom \/ PushRejected \/ AcquireProducerSlot \/ AcquireProducerFails
  <2>1. \A k \in Observed(pSeen, pops) : k <= pops
    BY <1>0, ObservedBound
  <2> QED  BY <1>2, <1>0, <2>1 DEF PushHasRoom, PushRejected, AcquireProducerSlot, AcquireProducerFails
<1>3. CASE Construct \/ FillSlot \/ ConstructThrows \/ AbandonProducerSlot
  BY <1>3, <1>0 DEF Construct, FillSlot, ConstructThrows, AbandonProducerSlot
<1>4. CASE StoreTail \/ CommitProducerSlot
  <2>1. args[1] \in Values
    BY <1>4 DEF StoreTail, CommitProducerSlot, IInv, TypeOK
  <2>2. pushes' = pushes + 1 /\ tail' = Masked(pushes + 1)
    BY <1>4, <1>0, <2>1 DEF StoreTail, CommitProducerSlot
  <2> QED  BY <1>4, <1>0, <2>2 DEF StoreTail, CommitProducerSlot
<1>5. CASE TryPop \/ MoveThrows \/ AbandonConsumerSlot \/ MoveOut \/ EmptySlot
  BY <1>5, <1>0 DEF TryPop, MoveThrows, AbandonConsumerSlot, MoveOut, EmptySlot
<1>6. CASE PopHasElement \/ PopRejected \/ AcquireConsumerSlot \/ AcquireConsumerFails
  <2>1. PICK k \in Observed(cSeen, pushes) :
          cSeen' = k /\ (PopHasElement \/ AcquireConsumerSlot => Masked(k) # head)
    BY <1>6, Zenon DEF PopHasElement, PopRejected, AcquireConsumerSlot, AcquireConsumerFails, IsEmpty
  <2>2. k \in Nat /\ cSeen <= k /\ k <= pushes
    BY <1>0, ObservedBound
  <2> QED  BY <1>6, <1>0, <2>1, <2>2 DEF PopHasElement, PopRejected, AcquireConsumerSlot, AcquireConsumerFails
<1>7. CASE StoreHead \/ ReleaseConsumerSlot
  BY <1>7, <1>0 DEF StoreHead, ReleaseConsumerSlot
<1>8. CASE UNCHANGED vars
  BY <1>8, <1>0 DEF vars
<1> QED  BY <1>1, <1>2, <1>3, <1>4, <1>5, <1>6, <1>7, <1>8 DEF Next, PushStep, PopStep

\* A paced client never counts on more than the pops it has observed.
LEMMA PaceNext == IInv /\ [Next]_vars => PaceInv'
<1> SUFFICES ASSUME IInv, [Next]_vars, paced  PROVE (pushes + PushLeft <= pSeen + Capacity)'
  BY DEF PaceInv, Next, PushStep, PopStep, TryPush, AcquireCall, PushHasRoom, PushRejected, Construct, ConstructThrows,
     StoreTail, AcquireProducerSlot, AcquireProducerFails, FillSlot, AbandonProducerSlot, CommitProducerSlot,
     TryPop, PopHasElement, PopRejected, MoveOut, MoveThrows, StoreHead, AcquireConsumerSlot, AcquireConsumerFails,
     EmptySlot, AbandonConsumerSlot, ReleaseConsumerSlot, consumerVars, producerVars, vars
<1>0. /\ pushes \in Nat /\ pops \in Nat /\ pSeen \in Nat /\ pSeen <= pops /\ Capacity \in Nat
      /\ pushes + PushLeft <= pSeen + Capacity /\ Len(args) \in Nat
      /\ log \in Seq(Values) /\ args \in Seq(Values)
  BY StorageFact DEF IInv, TypeOK, IndexInv, PaceInv, pushes
<1> USE DEF PushLeft
<1>1. CASE TryPush
  <2>1. PICK src \in Batches : args' = src /\ PushCall(Len(src))
    BY <1>1 DEF TryPush
  <2>2. src \in Seq(Values)
    BY BatchFacts
  <2>3. pushes + Len(src) - pSeen' <= Capacity /\ pSeen' \in Nat
    BY <2>1, <1>0 DEF PushCall
  <2> QED  BY <1>1, <1>0, <2>1, <2>2, <2>3 DEF TryPush, pushes
<1>2. CASE AcquireCall
  <2>1. pushes + 1 - pSeen' <= Capacity /\ pSeen' \in Nat
    BY <1>2, <1>0 DEF AcquireCall, PushCall
  <2> QED  BY <1>2, <1>0, <2>1 DEF AcquireCall, pushes
<1>3. CASE PushHasRoom \/ PushRejected \/ AcquireProducerSlot \/ AcquireProducerFails
  <2>1. \A k \in Observed(pSeen, pops) : k \in Nat /\ pSeen <= k
    BY <1>0, ObservedBound
  <2>2. pSeen' \in Nat /\ pSeen <= pSeen' /\ log' = log
    BY <1>3, <2>1 DEF PushHasRoom, PushRejected, AcquireProducerSlot, AcquireProducerFails
  <2> QED  BY <1>3, <1>0, <2>2 DEF PushHasRoom, PushRejected, AcquireProducerSlot, AcquireProducerFails, pushes
<1>4. CASE Construct \/ FillSlot \/ ConstructThrows \/ AbandonProducerSlot
  BY <1>4, <1>0 DEF Construct, FillSlot, ConstructThrows, AbandonProducerSlot, pushes
<1>5. CASE StoreTail
  <2>1. args[1] \in Values /\ Len(Tail(args)) = Len(args) - 1
    BY <1>5, <1>0 DEF StoreTail, IInv, TypeOK
  <2>2. pushes' = pushes + 1
    BY <1>5, <1>0, <2>1 DEF StoreTail, pushes
  <2> QED  BY <1>5, <1>0, <2>1, <2>2 DEF StoreTail
<1>6. CASE CommitProducerSlot
  <2>1. args[1] \in Values
    BY <1>6 DEF CommitProducerSlot, IInv, TypeOK
  <2>2. pushes' = pushes + 1
    BY <1>6, <1>0, <2>1 DEF CommitProducerSlot, pushes
  <2> QED  BY <1>6, <1>0, <2>2 DEF CommitProducerSlot
<1>7. CASE TryPop \/ PopStep \/ UNCHANGED vars
  <2>1. UNCHANGED <<ppc, args, log, pSeen>>
    BY <1>7 DEF TryPop, PopStep, PopHasElement, PopRejected, MoveOut, MoveThrows, StoreHead,
       AcquireConsumerSlot, AcquireConsumerFails, EmptySlot, AbandonConsumerSlot, ReleaseConsumerSlot,
       producerVars, vars
  <2> QED  BY <1>0, <2>1 DEF pushes
<1> QED  BY <1>1, <1>2, <1>3, <1>4, <1>5, <1>6, <1>7 DEF Next, PushStep

\* Every slot keeps holding what the log says, or nothing.
LEMMA DataNext == IInv /\ [Next]_vars => DataInv'
<1> SUFFICES ASSUME IInv, [Next]_vars  PROVE DataInv'
  OBVIOUS
<1> USE DEF consumerVars, producerVars, Taken, Placed
<1>1. CASE TryPush \/ AcquireCall \/ PushHasRoom \/ PushRejected \/ AcquireProducerSlot \/ AcquireProducerFails
  BY <1>1, DataKept DEF TryPush, AcquireCall, PushHasRoom, PushRejected, AcquireProducerSlot, AcquireProducerFails
<1>2. CASE ConstructThrows \/ AbandonProducerSlot
  BY <1>2, DataKept DEF ConstructThrows, AbandonProducerSlot
<1>3. CASE Construct
  <2>1. args[1] \in Values
    BY <1>3 DEF Construct, IInv, TypeOK
  <2> QED  BY <1>3, <2>1, DataPlaced DEF Construct
<1>4. CASE FillSlot
  <2>1. PICK v \in Values : args' = <<v>> /\ data' = [data EXCEPT ![Masked(tail)] = v]
    BY <1>4 DEF FillSlot
  <2>2. args'[1] = v
    BY <2>1
  <2> QED  BY <1>4, <2>1, <2>2, DataPlaced DEF FillSlot
<1>5. CASE StoreTail \/ CommitProducerSlot
  BY <1>5, DataPushed DEF StoreTail, CommitProducerSlot
<1>6. CASE TryPop \/ PopHasElement \/ PopRejected \/ AcquireConsumerSlot \/ AcquireConsumerFails
  BY <1>6, DataKept DEF TryPop, PopHasElement, PopRejected, AcquireConsumerSlot, AcquireConsumerFails
<1>7. CASE MoveThrows \/ AbandonConsumerSlot
  BY <1>7, DataKept DEF MoveThrows, AbandonConsumerSlot
<1>8. CASE MoveOut \/ EmptySlot
  BY <1>8, DataTaken DEF MoveOut, EmptySlot
<1>9. CASE StoreHead \/ ReleaseConsumerSlot
  BY <1>9, DataPopped DEF StoreHead, ReleaseConsumerSlot
<1>10. CASE UNCHANGED vars
  BY <1>10, DataKept DEF vars
<1> QED  BY <1>1, <1>2, <1>3, <1>4, <1>5, <1>6, <1>7, <1>8, <1>9, <1>10 DEF Next, PushStep, PopStep

\* The inductive invariant of the ring holds, for every capacity, batch length
\* and kind of client.
THEOREM IInvCorrect == Spec => []IInv
<1>1. IInv /\ [Next]_vars => IInv'
  BY TypeNext, IndexNext, PaceNext, DataNext DEF IInv
<1> QED  BY <1>1, IInvInit, PTL DEF Spec

-----------------------------------------------------------------------------
(* What a client may count on.                                             *)

\* For every capacity and batch length, with stale loads: the producer of a
\* paced client fills a slot only after it has observed the pop that freed it,
\* the consumer empties one only after it has observed the push that filled
\* it, and the two are never in the same slot.
THEOREM SlotHandoverCorrect == Spec => []SlotHandover
<1>1. ASSUME IInv, paced  PROVE /\ ProducerInSlot => pushes < pSeen + StorageCapacity
                                /\ ConsumerInSlot => pops < cSeen
                                /\ ProducerInSlot /\ ConsumerInSlot => Masked(tail) # Masked(head)
  <2>1. ProducerInSlot => pushes < pSeen + Capacity /\ pushes < pops + Capacity
    BY <1>1, PacedLap DEF ProducerInSlot
  <2>2. pushes \in Nat /\ pops \in Nat /\ pSeen \in Nat
    BY <1>1 DEF IInv, TypeOK, pushes
  <2>3. ConsumerInSlot => pops < cSeen /\ pops < pushes
    BY <1>1, PacedLap DEF IInv, IndexInv
  <2>4. Masked(tail) = Masked(pushes) /\ Masked(head) = Masked(pops)
    BY <1>1, <2>2, MaskFacts DEF IInv, IndexInv
  <2>5. ASSUME ProducerInSlot, ConsumerInSlot  PROVE Masked(tail) # Masked(head)
    BY <2>1, <2>2, <2>3, <2>4, <2>5, Apart, StorageFact
  <2> QED  BY <2>1, <2>2, <2>3, <2>5, StorageFact
<1>2. IInv => SlotHandover
  BY <1>1 DEF SlotHandover
<1> QED  BY <1>2, IInvCorrect, PTL

\* What the producer and the consumer find in the slot they go to.
LEMMA SlotState == IInv => SlotLifetime
<1>1. ASSUME IInv, paced, ppc \in {"construct", "slot"}  PROVE data[Masked(tail)] = Raw
  <2>1. pushes \in Nat /\ pops \in Nat /\ pushes < pops + Capacity /\ Taken \in {0, 1}
    BY <1>1, PacedLap
  <2>2. Placed = 0 /\ Masked(tail) = Masked(pushes)
    BY <1>1, <2>1, MaskFacts DEF Placed, IInv, IndexInv
  <2>3. pushes \in (pushes + Placed)..(pops + Taken + Capacity)
    BY <2>1, <2>2, StorageFact
  <2> QED  BY <1>1, <2>2, <2>3 DEF IInv, DataInv
<1>2. ASSUME IInv, paced, cpc \in {"move", "slot"}  PROVE data[Masked(head)] = log[pops + 1]
  <2>1. pushes \in Nat /\ pops \in Nat /\ pops < pushes
    BY <1>2, PacedLap DEF ConsumerInSlot
  <2>2. Taken = 0 /\ Masked(head) = Masked(pops)
    BY <1>2, <2>1, MaskFacts DEF Taken, IInv, IndexInv
  <2>3. pops \in (pops + Taken)..(pushes - 1)
    BY <2>1, <2>2
  <2> QED  BY <1>2, <2>2, <2>3 DEF IInv, DataInv
<1> QED  BY <1>1, <1>2 DEF SlotLifetime

\* Placement new by a paced client only meets raw storage, and its consumer
\* only takes the live element that is next in push order.
THEOREM SlotLifetimeCorrect == Spec => []SlotLifetime
  BY SlotState, IInvCorrect, PTL

\* Two masked indices whose word difference is Capacity are the last slot and
\* the first: a negative difference wraps far past Capacity.
LEMMA FullPlace ==
  ASSUME NEW x \in Nat, NEW k \in Nat, IsFull(Masked(x), Masked(k))
  PROVE  Masked(x) = Capacity /\ Masked(k) = 0
<1> DEFINE t == Masked(x)
           h == Masked(k)
           W == 2^WordBits
<1>1. t \in 0..Capacity /\ h \in 0..Capacity /\ Capacity \in Nat
  BY MaskFacts, StorageFact DEF Slots
<1>2. W \in Nat /\ 2 * (Capacity + 1) <= W
  BY WordAssumption, StorageFact
<1>3. (t - h) % W = Capacity
  BY DEF IsFull, Distance
<1> HIDE DEF t, h, W
<1>4. t - h \in Int /\ t - h < W /\ -W <= t - h /\ W >= 1
  BY <1>1, <1>2
<1>5. (t - h) % W = IF t - h >= 0 THEN t - h ELSE t - h + W
  BY <1>2, <1>4, WordDifference
<1>6. t = Capacity /\ h = 0
  BY <1>1, <1>2, <1>3, <1>5
<1> QED  BY <1>6 DEF t, h

\* For every capacity at least one word width away, and however old the head_
\* that is loaded: a paced client's push is never turned down, and another
\* client's only at the last slot, with the consumer seen at the first.
THEOREM PushRejectionCorrect == Spec => PushRejection
<1>1. ASSUME IInv, [Next]_vars, ppc' = "idle", ppc \in {"check", "acquire"}
      PROVE  ~paced /\ tail = Capacity /\ Masked(pSeen') = 0
  <2>1. PushRejected \/ AcquireProducerFails
    BY <1>1 DEF Next, PushStep, PopStep, TryPush, AcquireCall, PushHasRoom, PushRejected, Construct, ConstructThrows,
       StoreTail, AcquireProducerSlot, AcquireProducerFails, FillSlot, AbandonProducerSlot, CommitProducerSlot,
       TryPop, PopHasElement, PopRejected, MoveOut, MoveThrows, StoreHead, AcquireConsumerSlot, AcquireConsumerFails,
       EmptySlot, AbandonConsumerSlot, ReleaseConsumerSlot, consumerVars, producerVars, vars
  <2>2. PICK k \in Observed(pSeen, pops) : pSeen' = k /\ IsFull(tail, Masked(k))
    BY <2>1 DEF PushRejected, AcquireProducerFails
  <2>3. /\ pushes \in Nat /\ pops \in Nat /\ pSeen \in Nat /\ cSeen \in Nat /\ tail = Masked(pushes)
        /\ pSeen <= pops /\ pops <= cSeen /\ cSeen <= pushes
    BY <1>1 DEF IInv, TypeOK, IndexInv, pushes
  <2>4. k \in Nat /\ pSeen <= k /\ k <= pops
    BY <2>3, ObservedBound
  <2>5. Masked(pushes) = Capacity /\ Masked(k) = 0
    BY <2>2, <2>3, <2>4, FullPlace
  <2>6. ASSUME paced  PROVE FALSE
    <3>1. pushes < pSeen + Capacity
      BY <1>1, <2>6, PacedLap
    <3>2. NextIndex(Masked(pushes)) = Masked(pushes + 1) /\ Masked(pushes + 1) = 0
      <4>1. NextIndex(Masked(pushes)) = Masked(StorageCapacity)
        BY <2>5, StorageFact DEF NextIndex
      <4>2. Masked(0 + StorageCapacity) = Masked(0)
        BY MaskFacts
      <4>3. Masked(0) = 0
        BY StorageFact, FirstLap DEF Masked
      <4> QED  BY <2>3, <4>1, <4>2, <4>3, MaskFacts, StorageFact
    <3>3. k < pushes + 1 /\ pushes + 1 < k + StorageCapacity
      BY <2>3, <2>4, <3>1, StorageFact
    <3> QED  BY <2>3, <2>4, <2>5, <3>2, <3>3, Apart
  <2> QED  BY <2>2, <2>3, <2>5, <2>6
<1>2. IInv /\ [Next]_vars => [ppc' = "idle" /\ ppc \in {"check", "acquire"} =>
                               ~paced /\ tail = Capacity /\ Masked(pSeen') = 0]_vars
  BY <1>1
<1> QED  BY <1>2, IInvCorrect, PTL DEF Spec, PushRejection

-----------------------------------------------------------------------------
(* The ring of a paced client is a bounded FIFO: it holds the log from the *)
(* first element not taken to the last one pushed.                         *)

\* How many elements are in the ring, and how many were taken out.
Held == pushes - pops - Taken
Gone == pops + Taken

\* The parts of the FIFO that the ring of a paced client stands for.
LEMMA MappedState ==
  ASSUME IInv, paced
  PROVE  /\ Gone \in Nat /\ Held \in Nat /\ Gone + Held = Len(log) /\ Held <= Capacity
         /\ log \in Seq(Values)
         /\ ppc # "idle" => Held < Capacity
         /\ Taken = 1 => out \in Values /\ out # Raw
<1>1. /\ pushes \in Nat /\ pops \in Nat /\ Taken \in {0, 1} /\ pushes = Len(log) /\ log \in Seq(Values)
      /\ pushes <= pops + Capacity /\ pops + Taken <= pushes
      /\ ppc # "idle" => pushes < pops + Capacity
  BY PacedLap DEF Taken, ConsumerInSlot, pushes, IInv, TypeOK
<1>2. ASSUME Taken = 1  PROVE out \in Values /\ out # Raw
  <2>1. out = log[pops + 1]
    BY <1>2, Zenon DEF IInv, DataInv
  <2> QED  BY <1>1, <1>2, <2>1, ValuesAssumption
<1> QED  BY <1>1, <1>2, StorageFact DEF Held, Gone

\* A step that moves none of what the mapping looks at is invisible.
LEMMA Invisible ==
  ASSUME UNCHANGED <<paced, log, pops, out, ret>>, Taken' = Taken
  PROVE  UNCHANGED Fifo!fifoVars
  BY DEF Fifo!fifoVars, pushes

\* Another client's ring is mapped to a FIFO in which nothing happens.
LEMMA NotPaced ==
  ASSUME ~paced, UNCHANGED paced
  PROVE  UNCHANGED Fifo!fifoVars
<1>1. \A f : [i \in 1..0 |-> f[i]] = <<>>
  OBVIOUS
<1> QED  BY DEF Fifo!fifoVars

\* Each step of the ring is a step of the FIFO or invisible to it.
LEMMA FifoStep == IInv /\ [Next]_vars => [Fifo!Next]_(Fifo!fifoVars)
<1> SUFFICES ASSUME IInv, [Next]_vars  PROVE [Fifo!Next]_(Fifo!fifoVars)
  OBVIOUS
<1>0. paced' = paced
  BY DEF Next, PushStep, PopStep, TryPush, AcquireCall, PushHasRoom, PushRejected, Construct, ConstructThrows,
     StoreTail, AcquireProducerSlot, AcquireProducerFails, FillSlot, AbandonProducerSlot, CommitProducerSlot,
     TryPop, PopHasElement, PopRejected, MoveOut, MoveThrows, StoreHead, AcquireConsumerSlot, AcquireConsumerFails,
     EmptySlot, AbandonConsumerSlot, ReleaseConsumerSlot, consumerVars, producerVars, vars
<1>1. CASE ~paced
  BY <1>0, <1>1, NotPaced
<1>2. CASE paced
  <2> DEFINE q == [i \in 1..(IF paced THEN pushes - pops - Taken ELSE 0) |-> log[pops + Taken + i]]
             hand == [c \in {"consumer"} |-> IF paced /\ Taken = 1 THEN out ELSE Raw]
             got == [c \in {"consumer"} |-> IF paced THEN ret ELSE Raw]
  <2>1. q = Window(log, Gone, Held) /\ q' = Window(log', Gone', Held')
    BY <1>0, <1>2 DEF Window, Gone, Held
  <2>a. log \in Seq(Values) /\ Gone \in Nat /\ Held \in Nat /\ Gone + Held = Len(log) /\ Gone + Held <= Len(log)
    BY <1>2, MappedState
  <2>b. /\ Len(Window(log, Gone, Held)) = Held
        /\ Held > 0 => Window(log, Gone, Held) # <<>> /\ Head(Window(log, Gone, Held)) = log[Gone + 1]
    BY <2>a, WindowSeq, Zenon
  <2>2. CASE StoreTail \/ CommitProducerSlot
    <3>1. /\ args[1] \in Values /\ log' = Append(log, args[1]) /\ ppc # "idle"
          /\ UNCHANGED <<pops, cpc, out, ret>>
      BY <2>2 DEF StoreTail, CommitProducerSlot, consumerVars, IInv, TypeOK
    <3>2. Taken' = Taken /\ Gone' = Gone /\ Held' = Held + 1
      BY <1>2, <3>1, MappedState DEF Taken, Gone, Held, pushes, IInv, TypeOK
    <3>3. Len(q) = Held /\ Held < Capacity
      BY <1>2, <2>1, <2>b, <3>1, MappedState, Zenon
    <3>4. q' = Append(q, args[1])
      <4> DEFINE v == args[1]
      <4>1. v \in Values
        BY <3>1
      <4>2. q' = Window(Append(log, v), Gone, Held + 1)
        BY <2>1, <3>1, <3>2, Zenon
      <4> HIDE DEF v, q
      <4>3. Window(Append(log, v), Gone, Held + 1) = Append(Window(log, Gone, Held), v)
        BY <2>a, <4>1, WindowPush
      <4> QED  BY <2>1, <4>2, <4>3, Zenon DEF v
    <3>5. hand' = hand /\ got' = got
      BY <1>0, <3>1, <3>2
    <3>6. Fifo!Enqueue
      BY <3>1, <3>3, <3>4, <3>5 DEF Fifo!Enqueue
    <3> QED  BY <3>6 DEF Fifo!Next
  <2>3. CASE MoveOut \/ EmptySlot
    <3>1. /\ out' = data[Masked(head)] /\ Taken = 0 /\ Taken' = 1 /\ UNCHANGED <<pops, log, ret>>
          /\ cpc \in {"move", "slot"}
      BY <2>3 DEF MoveOut, EmptySlot, producerVars, Taken
    <3>2. Gone' = Gone + 1 /\ Held' = Held - 1 /\ Held > 0 /\ Gone = pops
      BY <1>2, <3>1, MappedState, PacedLap DEF Gone, Held, pushes, ConsumerInSlot, IInv, TypeOK
    <3>3. q # <<>> /\ Head(q) = log[pops + 1]
      BY <2>1, <2>b, <3>2, Zenon
    <3>4. q' = Tail(q)
      <4>1. Window(log, Gone + 1, Held - 1) = Tail(Window(log, Gone, Held))
        BY <2>a, <3>2, WindowPop
      <4>2. q' = Window(log, Gone + 1, Held - 1)
        BY <2>1, <3>1, <3>2, Zenon
      <4> QED  BY <2>1, <4>1, <4>2, Zenon
    <3>5. out' = log[pops + 1]
      BY <1>2, <3>1, SlotState DEF SlotLifetime
    <3>6. hand["consumer"] = Raw /\ hand' = [hand EXCEPT !["consumer"] = Head(q)] /\ got' = got
      BY <1>0, <1>2, <3>1, <3>3, <3>5
    <3>7. Fifo!Dequeue("consumer")
      BY <3>3, <3>4, <3>6 DEF Fifo!Dequeue
    <3> QED  BY <3>7 DEF Fifo!Next
  <2>4. CASE StoreHead \/ ReleaseConsumerSlot
    <3>1. /\ ret' = out /\ Taken = 1 /\ Taken' = 0 /\ pops' = pops + 1 /\ UNCHANGED <<out, log>>
      BY <2>4 DEF StoreHead, ReleaseConsumerSlot, producerVars, Taken
    <3>2. Gone' = Gone /\ Held' = Held
      <4>1. pops \in Nat /\ pushes \in Nat /\ pushes' = pushes
        BY <3>1 DEF IInv, TypeOK, pushes
      <4> QED  BY <3>1, <4>1 DEF Gone, Held
    <3>3. q' = q
      BY <2>1, <3>1, <3>2, Zenon
    <3>4. hand["consumer"] = out /\ out # Raw
      BY <1>2, <3>1, MappedState
    <3>5. hand' = [hand EXCEPT !["consumer"] = Raw]
      BY <3>1
    <3>6. got' = [got EXCEPT !["consumer"] = hand["consumer"]]
      <4>1. got' = [c \in {"consumer"} |-> out]
        BY <1>0, <1>2, <3>1
      <4>2. [got EXCEPT !["consumer"] = out] = [c \in {"consumer"} |-> out]
        OBVIOUS
      <4> QED  BY <3>4, <4>1, <4>2
    <3>7. Fifo!Return("consumer")
      BY <3>3, <3>4, <3>5, <3>6 DEF Fifo!Return
    <3> QED  BY <3>7 DEF Fifo!Next
  <2>5. CASE /\ ~StoreTail /\ ~CommitProducerSlot /\ ~MoveOut /\ ~EmptySlot
             /\ ~StoreHead /\ ~ReleaseConsumerSlot
    <3>1. UNCHANGED <<paced, log, pops, out, ret>> /\ Taken' = Taken
      BY <2>5 DEF Next, PushStep, PopStep, TryPush, AcquireCall, PushHasRoom, PushRejected, Construct, ConstructThrows,
         AcquireProducerSlot, AcquireProducerFails, FillSlot, AbandonProducerSlot,
         TryPop, PopHasElement, PopRejected, MoveThrows, AcquireConsumerSlot, AcquireConsumerFails,
         AbandonConsumerSlot, consumerVars, producerVars, vars, Taken
    <3> QED  BY <3>1, Invisible
  <2> QED  BY <2>2, <2>3, <2>4, <2>5
<1> QED  BY <1>1, <1>2

\* For every capacity and batch length, with stale loads and throwing
\* elements: the ring of a paced client implements the bounded FIFO of
\* capacity() elements, by batch, single and zero-copy calls alike.
THEOREM FifoCorrect == Spec => ImplementsFifo
<1>1. Init => Fifo!Init
  BY DEF Init, Fifo!Init, Taken, pushes
<1> QED  BY <1>1, FifoStep, IInvCorrect, PTL DEF Spec, ImplementsFifo, Fifo!Spec

-----------------------------------------------------------------------------
(* The spinlock.                                                           *)


\* The backoff starts at one and its doubling is capped.
LEMMA GrowBound == ASSUME NEW b \in 1..MaxBackoff  PROVE Grow(b) \in 1..MaxBackoff
  BY BackoffAssumption DEF Grow

LEMMA LockTypeInit == LockInit => LockTypeOK
<1> SUFFICES ASSUME LockInit  PROVE LockTypeOK
  OBVIOUS
<1>1. 1 \in 1..MaxBackoff
  BY BackoffAssumption
<1>2. mem \in Seq(Nat)
  BY DEF LockInit
<1>3. backoff \in [Threads -> 1..MaxBackoff]
  BY <1>1 DEF LockInit
<1>4. flag \in BOOLEAN
  BY Zenon DEF LockInit
<1>7. released \in Nat \ {0}
  BY DEF LockInit
<1>5. pc \in [Threads -> {"idle", "test", "cas", "read", "write", "unlock"}]
  BY DEF LockInit
<1>6. view \in [Threads -> Nat \ {0}] /\ tmp \in [Threads -> Nat]
  BY DEF LockInit
<1> QED  BY <1>2, <1>3, <1>4, <1>5, <1>6, <1>7 DEF LockTypeOK

\* Every step of a thread keeps the types; a plain read needs a view that
\* lies inside the history of the counter.
LEMMA LockTypeStep ==
  ASSUME LockTypeOK, NEW t \in Threads,
         LockCall(t) \/ LockStep(t) \/ TryLockAcquires(t) \/ TryLockFails(t) \/ ClientStep(t)
  PROVE  LockTypeOK'
<1> USE DEF LockTypeOK, Goto
<1>1. CASE LockCall(t)
  BY <1>1, BackoffAssumption DEF LockCall
<1>2. CASE Spin(t)
  BY <1>2, GrowBound DEF Spin
<1>3. CASE TestPasses(t)
  BY <1>3 DEF TestPasses
<1>4. CASE LockAcquires(t)
  BY <1>4 DEF LockAcquires, Acquire, Larger
<1>5. CASE LockRetries(t)
  BY <1>5 DEF LockRetries
<1>6. CASE TryLockAcquires(t)
  BY <1>6 DEF TryLockAcquires, Acquire, Larger
<1>7. CASE TryLockFails(t)
  BY <1>7 DEF TryLockFails, lockVars
<1>8. CASE ClientReads(t)
  <2>1. PICK k \in view[t]..Len(mem) : tmp' = [tmp EXCEPT ![t] = mem[k]]
    BY <1>8 DEF ClientReads
  <2>2. k \in 1..Len(mem)
    BY <2>1
  <2>3. mem[k] \in Nat
    BY <2>2
  <2> QED  BY <1>8, <2>1, <2>3 DEF ClientReads
<1>9. CASE ClientWrites(t)
  <2>1. tmp[t] + 1 \in Nat /\ Len(mem) \in Nat
    OBVIOUS
  <2>2. mem' \in Seq(Nat) /\ view' \in [Threads -> Nat \ {0}]
    BY <1>9, <2>1 DEF ClientWrites
  <2> QED  BY <1>9, <2>2 DEF ClientWrites
<1>10. CASE Unlock(t)
  BY <1>10 DEF Unlock
<1> QED
  BY <1>1, <1>2, <1>3, <1>4, <1>5, <1>6, <1>7, <1>8, <1>9, <1>10 DEF LockStep, ClientStep

\* A step that takes or gives up no lock and writes nothing.
LEMMA QuietStep ==
  ASSUME LockInv, LockTypeOK', NEW t \in Threads, UNCHANGED <<flag, released, mem, view, tmp>>,
         \A u \in Threads \ {t} : pc'[u] = pc[u],
         ~Holds(t), ~Holds(t)'
  PROVE  LockInv'
<1>1. \A u \in Threads : Holds(u)' <=> Holds(u)
  BY DEF Holds
<1>2. MutualExclusion' /\ HolderSeesAll' /\ NoLostUpdate'
  BY <1>1 DEF LockInv, MutualExclusion, HolderSeesAll, NoLostUpdate
<1>3. \A u \in Threads : pc'[u] = "write" => tmp'[u] = Len(mem') - 1
  BY <1>1 DEF LockInv, Holds
<1> QED  BY <1>2, <1>3 DEF LockInv

\* Taking the lock: the holder takes over the view of the last unlock, which
\* is complete because the lock was free.
LEMMA AcquireStep ==
  ASSUME LockInv, LockTypeOK', NEW t \in Threads, UNCHANGED <<released, mem, tmp>>,
         ~Holds(t), Free(t), flag' = TRUE, Acquire(t), Goto(t, "read")
  PROVE  LockInv'
<1>1. \A u \in Threads : ~Holds(u)
  BY DEF LockInv, MutualExclusion, Free
<1>2. /\ pc'[t] = "read" /\ \A u \in Threads \ {t} : pc'[u] = pc[u]
      /\ view'[t] = Larger(view[t], released) /\ \A u \in Threads \ {t} : view'[u] = view[u]
  BY DEF Goto, Acquire, LockInv, LockTypeOK
<1>3. Holds(t)' /\ \A u \in Threads \ {t} : ~Holds(u)'
  BY <1>1, <1>2 DEF Holds
<1>4. view'[t] = Len(mem)
  BY <1>2 DEF Larger, LockInv, LockTypeOK, Free
<1>5. MutualExclusion'
  BY <1>3 DEF MutualExclusion
<1>6. HolderSeesAll' /\ NoLostUpdate'
  BY <1>3, <1>4 DEF HolderSeesAll, LockInv, NoLostUpdate
<1>7. \A u \in Threads : view'[u] <= Len(mem')
  <2>1. Len(mem) \in Nat /\ mem' = mem
    BY DEF LockInv, LockTypeOK
  <2>2. \A u \in Threads \ {t} : view[u] <= Len(mem)
    BY DEF LockInv
  <2>3. Len(mem) <= Len(mem)
    BY <2>1
  <2> QED  BY <1>2, <1>4, <2>1, <2>2, <2>3
<1>8. \A u \in Threads : pc'[u] = "write" => tmp'[u] = Len(mem') - 1
  BY <1>2 DEF LockInv
<1> QED  BY <1>5, <1>6, <1>7, <1>8 DEF LockInv

LEMMA ReadStep ==
  ASSUME LockInv, LockTypeOK', NEW t \in Threads, ClientReads(t)
  PROVE  LockInv'
<1>1. Holds(t) /\ view[t] = Len(mem) /\ Len(mem) \in Nat /\ mem # <<>>
  BY DEF ClientReads, Holds, LockInv, HolderSeesAll, LockTypeOK
<1>2. /\ pc'[t] = "write" /\ \A u \in Threads \ {t} : pc'[u] = pc[u] /\ tmp'[u] = tmp[u]
      /\ UNCHANGED <<flag, released, mem, view>>
  BY DEF ClientReads, Goto, LockInv, LockTypeOK
<1>3. tmp'[t] = Len(mem) - 1
  <2>1. PICK k \in view[t]..Len(mem) : tmp' = [tmp EXCEPT ![t] = mem[k]]
    BY DEF ClientReads
  <2>2. k = Len(mem)
    BY <1>1, <2>1
  <2>3. Len(mem) \in 1..Len(mem)
    BY <1>1 DEF LockInv, LockTypeOK
  <2>4. mem[k] = Len(mem) - 1
    BY <2>2, <2>3 DEF LockInv, NoLostUpdate
  <2> QED  BY <2>1, <2>4 DEF LockInv, LockTypeOK
<1>4. \A u \in Threads : Holds(u)' <=> Holds(u)
  BY <1>1, <1>2 DEF Holds
<1>5. MutualExclusion' /\ HolderSeesAll' /\ NoLostUpdate'
  BY <1>2, <1>4 DEF LockInv, MutualExclusion, HolderSeesAll, NoLostUpdate
<1>6. \A u \in Threads : pc'[u] = "write" => tmp'[u] = Len(mem') - 1
  BY <1>2, <1>3 DEF LockInv
<1> QED  BY <1>2, <1>5, <1>6 DEF LockInv

LEMMA WriteStep ==
  ASSUME LockInv, LockTypeOK', NEW t \in Threads, ClientWrites(t)
  PROVE  LockInv'
<1>1. /\ Holds(t) /\ \A u \in Threads \ {t} : ~Holds(u)
      /\ flag = TRUE
      /\ tmp[t] = Len(mem) - 1 /\ Len(mem) \in Nat /\ tmp[t] \in Nat
  BY DEF ClientWrites, Holds, LockInv, MutualExclusion, LockTypeOK
<1>2. /\ pc'[t] = "unlock" /\ \A u \in Threads \ {t} : pc'[u] = pc[u] /\ view'[u] = view[u]
      /\ view'[t] = Len(mem) + 1
      /\ UNCHANGED <<flag, released, tmp>>
  BY DEF ClientWrites, Goto, LockInv, LockTypeOK
<1>3. mem' = Append(mem, tmp[t] + 1) /\ mem \in Seq(Nat)
  BY DEF ClientWrites, LockInv, LockTypeOK
<1>4. /\ Len(mem') = Len(mem) + 1 /\ mem' # <<>>
      /\ \A k \in 1..Len(mem) : mem'[k] = mem[k]
      /\ mem'[Len(mem) + 1] = tmp[t] + 1
  BY <1>1, <1>3
<1>5. \A u \in Threads : Holds(u)' <=> Holds(u)
  BY <1>1, <1>2 DEF Holds
<1>6. MutualExclusion' /\ HolderSeesAll'
  BY <1>1, <1>2, <1>4, <1>5 DEF LockInv, MutualExclusion, HolderSeesAll
<1>7. NoLostUpdate'
  <2> SUFFICES ASSUME NEW k \in 1..(Len(mem) + 1)  PROVE mem'[k] = k - 1
    BY <1>4 DEF NoLostUpdate
  <2>1. CASE k = Len(mem) + 1
    BY <1>1, <1>4, <2>1
  <2>2. CASE k # Len(mem) + 1
    <3>1. k \in 1..Len(mem)
      BY <1>1, <2>2
    <3> QED  BY <1>4, <3>1 DEF LockInv, NoLostUpdate
  <2> QED  BY <2>1, <2>2
<1>8. \A u \in Threads : pc'[u] # "write"
  BY <1>1, <1>2 DEF Holds
<1>9. released' <= Len(mem') /\ \A u \in Threads : view'[u] <= Len(mem')
  <2>1. released \in Nat /\ released <= Len(mem)
    BY DEF LockInv, LockTypeOK
  <2>2. \A u \in Threads : view[u] \in Nat /\ view[u] <= Len(mem)
    BY DEF LockInv, LockTypeOK
  <2>3. \A u \in Threads \ {t} : view'[u] <= Len(mem) + 1
    BY <1>1, <1>2, <2>2
  <2> QED  BY <1>1, <1>2, <1>4, <2>1, <2>3
<1> QED  BY <1>1, <1>2, <1>4, <1>6, <1>7, <1>8, <1>9 DEF LockInv

LEMMA UnlockStep ==
  ASSUME LockInv, LockTypeOK', NEW t \in Threads, Unlock(t)
  PROVE  LockInv'
<1>1. /\ Holds(t) /\ \A u \in Threads \ {t} : ~Holds(u)
      /\ view[t] = Len(mem)
  BY DEF Unlock, Holds, LockInv, MutualExclusion, HolderSeesAll
<1>2. /\ pc'[t] = "idle" /\ \A u \in Threads \ {t} : pc'[u] = pc[u]
      /\ flag' = FALSE /\ released' = view[t] /\ UNCHANGED <<mem, view, tmp>>
  BY DEF Unlock, Goto, LockInv, LockTypeOK
<1>3. \A u \in Threads : ~Holds(u)'
  BY <1>1, <1>2 DEF Holds
<1>4. MutualExclusion' /\ HolderSeesAll' /\ NoLostUpdate'
  BY <1>2, <1>3 DEF LockInv, MutualExclusion, HolderSeesAll, NoLostUpdate
<1>5. \A u \in Threads : pc'[u] # "write"
  BY <1>3 DEF Holds
<1> QED  BY <1>1, <1>2, <1>4, <1>5 DEF LockInv

LEMMA LockInvInit == LockInit => LockInv
<1> SUFFICES ASSUME LockInit  PROVE LockInv
  OBVIOUS
<1>1. mem = <<0>> /\ Len(mem) = 1 /\ mem[1] = 0 /\ mem # <<>>
  BY DEF LockInit
<1>2. NoLostUpdate
  BY <1>1 DEF NoLostUpdate
<1>3. MutualExclusion /\ HolderSeesAll
  BY DEF LockInit, MutualExclusion, HolderSeesAll, Holds
<1> QED  BY <1>1, <1>2, <1>3, LockTypeInit DEF LockInv, LockInit

LEMMA LockInvNext == LockInv /\ [LockNext]_lockVars => LockInv'
<1> SUFFICES ASSUME LockInv, [LockNext]_lockVars  PROVE LockInv'
  OBVIOUS
<1>1. CASE UNCHANGED lockVars
  BY <1>1 DEF lockVars, LockInv, LockTypeOK, MutualExclusion, HolderSeesAll, NoLostUpdate, Holds
<1>2. ASSUME NEW t \in Threads,
             LockCall(t) \/ LockStep(t) \/ TryLockAcquires(t) \/ TryLockFails(t) \/ ClientStep(t)
      PROVE  LockInv'
  <2>1. LockTypeOK'
    BY <1>2, LockTypeStep DEF LockInv
  <2>2. pc \in [Threads -> {"idle", "test", "cas", "read", "write", "unlock"}]
    BY DEF LockInv, LockTypeOK
  <2>3. CASE LockCall(t) \/ Spin(t) \/ TestPasses(t) \/ LockRetries(t)
    <3>1. ~Holds(t) /\ ~Holds(t)'
      BY <2>2, <2>3 DEF LockCall, Spin, TestPasses, LockRetries, Goto, Holds
    <3>2. UNCHANGED <<flag, released, mem, view, tmp>> /\ \A u \in Threads \ {t} : pc'[u] = pc[u]
      BY <2>2, <2>3 DEF LockCall, Spin, TestPasses, LockRetries, Goto
    <3> QED  BY <2>1, <3>1, <3>2, QuietStep
  <2>4. CASE LockAcquires(t) \/ TryLockAcquires(t)
    BY <2>1, <2>4, AcquireStep DEF LockAcquires, TryLockAcquires, Holds
  <2>5. CASE TryLockFails(t)
    BY <1>1, <2>5 DEF TryLockFails
  <2>6. CASE ClientStep(t)
    BY <2>1, <2>6, ReadStep, WriteStep, UnlockStep DEF ClientStep
  <2> QED  BY <1>2, <2>3, <2>4, <2>5, <2>6 DEF LockStep
<1> QED  BY <1>1, <1>2 DEF LockNext

\* flag_, the published view and the counter fit together in every state.
THEOREM LockInvCorrect == LockSpec => []LockInv
<1>1. LockInit => LockInv  BY LockInvInit
<1>2. LockInv /\ [LockNext]_lockVars => LockInv'  BY LockInvNext
<1> QED  BY <1>1, <1>2, PTL DEF LockSpec

\* lock() and try_lock() give the lock to one thread at a time.
THEOREM MutualExclusionCorrect == LockSpec => []MutualExclusion
<1>1. LockInv => MutualExclusion  BY DEF LockInv
<1> QED  BY <1>1, LockInvCorrect, PTL

\* unlock's release and the acquire of the next compare-exchange show the new
\* holder every write made under the lock before.
THEOREM HolderSeesAllCorrect == LockSpec => []HolderSeesAll
<1>1. LockInv => HolderSeesAll  BY DEF LockInv
<1> QED  BY <1>1, LockInvCorrect, PTL

\* Increments of a plain counter under the lock are never lost.
THEOREM NoLostUpdateCorrect == LockSpec => []NoLostUpdate
<1>1. LockInv => NoLostUpdate  BY DEF LockInv
<1> QED  BY <1>1, LockInvCorrect, PTL
=============================================================================
