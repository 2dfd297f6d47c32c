---------------------------- MODULE MpmcRingProofs ----------------------------
(***************************************************************************)
(* Safety of mpmc_ring_buffer for every number of threads, every capacity, *)
(* stale or fresh loads, and with or without throwing element operations.  *)
(***************************************************************************)
EXTENDS MpmcRing, Arithmetic

-----------------------------------------------------------------------------
(* The ring's geometry.                                                    *)

\* round_up_to_power_of_two never returns less than two cells.
LEMMA CapacityFact == Capacity \in Nat /\ Capacity >= 2
<1>1. CASE RequestedCapacity < 2
  BY <1>1, RequestAssumption DEF Capacity, RoundUpToPowerOfTwo
<1>2. CASE ~(RequestedCapacity < 2)
  <2> DEFINE c == CHOOSE p \in 1..MaxSize : IsRoundUp(p, RequestedCapacity)
  <2>1. c \in 1..MaxSize /\ IsRoundUp(c, RequestedCapacity)
    BY RequestAssumption
  <2>2. Capacity = c
    BY <1>2 DEF Capacity, RoundUpToPowerOfTwo
  <2> HIDE DEF c
  <2>3. c \in Nat /\ c >= RequestedCapacity
    BY <2>1, SizeAssumption, RequestAssumption DEF IsRoundUp
  <2> QED  BY <1>2, <2>2, <2>3, RequestAssumption
<1> QED  BY <1>1, <1>2

\* index & mask_ is a cell, and names the same cell again one lap later only.
LEMMA CellFacts ==
  /\ \A x \in Nat : Cell(x) \in Cells
  /\ \A x, y \in Nat : Cell(x) = Cell(y) /\ x < y => x + Capacity <= y
  /\ \A x \in Nat : Cell(x + Capacity) = Cell(x)
  /\ \A i \in Cells : i \in Nat /\ Cell(i) = i
<1>0. Capacity \in Nat /\ Capacity >= 1
  BY CapacityFact
<1>1. ASSUME NEW x \in Nat  PROVE Cell(x) \in Cells
  BY <1>0, DivMod, Zenon DEF Cell, Cells
<1>2. ASSUME NEW x \in Nat, NEW y \in Nat, Cell(x) = Cell(y), x < y
      PROVE x + Capacity <= y
  BY <1>0, <1>2, SameCell, Zenon DEF Cell
<1>3. ASSUME NEW x \in Nat  PROVE Cell(x + Capacity) = Cell(x)
  BY <1>0, NextLap, Zenon DEF Cell
<1>4. ASSUME NEW i \in Cells  PROVE i \in Nat /\ Cell(i) = i
  BY CapacityFact, FirstLap DEF Cell, Cells
<1> QED  BY <1>1, <1>2, <1>3, <1>4

-----------------------------------------------------------------------------
(* Type correctness.                                                       *)

\* What a load of an index returns is a natural number.
LEMMA SeenType == ASSUME NEW t, NEW x \in Nat, NEW y \in Seen(t, x)  PROVE y \in Nat
  BY DEF Seen

LEMMA TypeInit == Init => TypeOK
<1> SUFFICES ASSUME Init  PROVE TypeOK
  OBVIOUS
<1>1. seq \in [Cells -> Nat]
  BY CellFacts DEF Init
<1> QED  BY <1>1 DEF Init, TypeOK, PushLabels, PopLabels, Threads

\* Every step of a producer keeps the types.
LEMMA TypePush ==
  ASSUME TypeOK, NEW p \in Producers, PushCall(p) \/ PushStep(p)
  PROVE  TypeOK'
<1> USE DEF TypeOK, Goto, PushLabels, PopLabels
<1>1. p \in Threads /\ p \notin Consumers
  BY ThreadsAssumption DEF Threads
<1>2. pos[p] \in Nat /\ args[p] \in Seq(Values) /\ Cell(pos[p]) \in Cells
  BY <1>1, CellFacts
<1>3. CASE PushCall(p)
  <2>1. PICK b \in Pushes[p] : args' = [args EXCEPT ![p] = b]
    BY <1>3 DEF PushCall
  <2>2. b \in Seq(Values) /\ b # <<>>
    BY CallsAssumption
  <2> QED  BY <1>1, <1>3, <2>1, <2>2 DEF PushCall
<1>4. CASE PushLoad(p)
  <2>1. PICK t \in Seen(p, tail) : pos' = [pos EXCEPT ![p] = t]
    BY <1>4 DEF PushLoad
  <2>2. t \in Nat
    BY SeenType
  <2> QED  BY <1>1, <1>4, <2>1, <2>2 DEF PushLoad
<1>5. CASE PushSeesFree(p)
  BY <1>1, <1>5 DEF PushSeesFree
<1>6. CASE PushRejected(p)
  BY <1>1, <1>6 DEF PushRejected
<1>7. CASE PushBehind(p)
  BY <1>1, <1>7 DEF PushBehind
<1>8. CASE PushClaim(p)
  <2>1. args[p] # <<>>
    BY <1>8 DEF PushClaim
  <2>2. args[p][1] \in Values
    BY <1>2, <2>1
  <2>3. log' \in Seq(Values)
    BY <1>8, <2>2 DEF PushClaim
  <2> QED  BY <1>1, <1>8, <2>3 DEF PushClaim
<1>9. CASE PushCasFails(p)
  BY <1>1, <1>9 DEF PushCasFails
<1>10. CASE Construct(p)
  <2>1. args[p] # <<>>
    BY <1>10 DEF Construct
  <2>2. args[p][1] \in Values
    BY <1>2, <2>1
  <2>3. data' \in [Cells -> Values \cup {Raw}]
    BY <1>10, <2>2 DEF Construct
  <2> QED  BY <1>1, <1>10, <2>3 DEF Construct
<1>11. CASE ConstructThrows(p)
  <2>1. pushLost' \in SUBSET Nat
    BY <1>2, <1>11 DEF ConstructThrows
  <2>2. pc' = [pc EXCEPT ![p] = "idle"] /\ args' = [args EXCEPT ![p] = <<>>]
    BY <1>11 DEF ConstructThrows
  <2> QED  BY <1>1, <1>11, <2>1, <2>2 DEF ConstructThrows
<1>12. CASE Publish(p)
  <2>1. args[p] # <<>>
    BY <1>12 DEF Publish
  <2>2. Tail(args[p]) \in Seq(Values)
    BY <1>2, <2>1
  <2>3. seq' \in [Cells -> Nat]
    BY <1>2, <1>12 DEF Publish
  <2> QED  BY <1>1, <1>12, <2>2, <2>3 DEF Publish
<1> QED
  BY <1>3, <1>4, <1>5, <1>6, <1>7, <1>8, <1>9, <1>10, <1>11, <1>12 DEF PushStep

\* Every step of a consumer keeps the types.
LEMMA TypePop ==
  ASSUME TypeOK, NEW c \in Consumers, PopCall(c) \/ PopStep(c)
  PROVE  TypeOK'
<1> USE DEF TypeOK, Goto, PushLabels, PopLabels
<1>1. c \in Threads /\ c \notin Producers
  BY ThreadsAssumption DEF Threads
<1>2. pos[c] \in Nat /\ want[c] \in Nat /\ Cell(pos[c]) \in Cells
  BY <1>1, CellFacts
<1>3. CASE PopCall(c)
  <2>1. PICK n \in Pops[c] : want' = [want EXCEPT ![c] = n]
    BY <1>3 DEF PopCall
  <2>2. n \in Nat /\ n > 0
    BY CallsAssumption
  <2> QED  BY <1>1, <1>3, <2>1, <2>2 DEF PopCall
<1>4. CASE PopLoad(c)
  <2>1. PICK h \in Seen(c, head) : pos' = [pos EXCEPT ![c] = h]
    BY <1>4 DEF PopLoad
  <2>2. h \in Nat
    BY SeenType
  <2> QED  BY <1>1, <1>4, <2>1, <2>2 DEF PopLoad
<1>5. CASE PopSeesFull(c)
  BY <1>1, <1>5 DEF PopSeesFull
<1>6. CASE PopRejected(c)
  BY <1>1, <1>6 DEF PopRejected
<1>7. CASE PopBehind(c)
  BY <1>1, <1>7 DEF PopBehind
<1>8. CASE PopClaim(c)
  BY <1>1, <1>8 DEF PopClaim
<1>9. CASE PopCasFails(c)
  BY <1>1, <1>9 DEF PopCasFails
<1>10. CASE MoveOut(c)
  BY <1>1, <1>2, <1>10 DEF MoveOut
<1>11. CASE MoveThrows(c)
  <2>1. popLost' \in SUBSET Nat
    BY <1>2, <1>11 DEF MoveThrows
  <2> QED  BY <1>1, <1>11, <2>1 DEF MoveThrows
<1>12. CASE Release(c)
  <2>1. want[c] > 0 /\ want[c] - 1 \in Nat
    BY <1>2, <1>12 DEF Release
  <2>2. seq' \in [Cells -> Nat]
    BY <1>2, <1>12, CapacityFact DEF Release, SeqAfterPop
  <2>3. BatchDone(want[c]) \/ want[c] - 1 > 0
    BY <1>2, <2>1 DEF BatchDone
  <2> QED  BY <1>1, <1>12, <2>1, <2>2, <2>3 DEF Release
<1> QED
  BY <1>3, <1>4, <1>5, <1>6, <1>7, <1>8, <1>9, <1>10, <1>11, <1>12 DEF PopStep

LEMMA TypeNext == TypeOK /\ [Next]_vars => TypeOK'
<1> SUFFICES ASSUME TypeOK, [Next]_vars  PROVE TypeOK'
  OBVIOUS
<1>1. CASE UNCHANGED vars
  BY <1>1 DEF TypeOK, vars
<1>2. CASE Next
  BY <1>2, TypePush, TypePop DEF Next
<1> QED  BY <1>1, <1>2

\* Type correctness of the ring, for any number of producers and consumers,
\* any capacity and any batch length: a thread inside try_push_batch or
\* try_pop_batch always has an element left to push or room left for one.
THEOREM TypeCorrect == Spec => []TypeOK
<1>1. Init => TypeOK  BY TypeInit
<1>2. TypeOK /\ [Next]_vars => TypeOK'  BY TypeNext
<1> QED  BY <1>1, <1>2, PTL DEF Spec

-----------------------------------------------------------------------------
(* The inductive invariant: initially, and what it says of a ticket.       *)

LEMMA IInvInit == Init => IInv
<1> SUFFICES ASSUME Init  PROVE IInv
  OBVIOUS
<1>1. TypeOK
  BY TypeInit
<1>2. NeverOverfilled /\ Len(log) = tail
  BY CapacityFact DEF Init, NeverOverfilled
<1>3. CellsInv
  <2> SUFFICES ASSUME NEW i \in Cells  PROVE FreeCell(i)
    BY DEF CellsInv
  <2>1. i \in Nat /\ Cell(i) = i /\ i < Capacity /\ seq[i] = i /\ data[i] = Raw
    BY CellFacts, CapacityFact DEF Init, Cells
  <2> QED  BY <2>1, CapacityFact DEF Init, FreeCell
<1>4. PushOwnersInv /\ PopOwnersInv /\ CasInv /\ LostInv
  BY DEF Init, PushOwnersInv, PopOwnersInv, CasInv, LostInv, Owns, Threads
<1> QED  BY <1>1, <1>2, <1>3, <1>4 DEF IInv

\* The next index is another cell: there are at least two.
LEMMA NextCell == ASSUME NEW x \in Nat  PROVE Cell(x) # Cell(x + 1)
  BY CellFacts, CapacityFact

\* A producer that owns its ticket is inside a free cell.
LEMMA PushOwnerCell ==
  ASSUME IInv, NEW p \in Producers, Owns(p)
  PROVE  /\ pos[p] \in Nat
         /\ Cell(pos[p]) \in Cells
         /\ seq[Cell(pos[p])] = pos[p]
         /\ FreeCell(Cell(pos[p]))
<1>1. pos[p] \in Nat /\ Cell(pos[p]) \in Cells
  BY CellFacts DEF IInv, TypeOK, Threads
<1>2. seq[Cell(pos[p])] = pos[p]
  BY DEF IInv, PushOwnersInv
<1>3. FreeCell(Cell(pos[p])) \/ FullCell(Cell(pos[p]))
  BY <1>1 DEF IInv, CellsInv
<1>4. ~FullCell(Cell(pos[p]))
  <2> SUFFICES ASSUME pos[p] > 0, Cell(pos[p] - 1) = Cell(pos[p])  PROVE FALSE
    BY <1>2 DEF FullCell
  <2>1. pos[p] - 1 \in Nat /\ (pos[p] - 1) + 1 = pos[p]
    BY <1>1
  <2> QED  BY <2>1, NextCell
<1> QED  BY <1>1, <1>2, <1>3, <1>4

\* A consumer that owns its ticket is inside a full cell.
LEMMA PopOwnerCell ==
  ASSUME IInv, NEW c \in Consumers, Owns(c)
  PROVE  /\ pos[c] \in Nat
         /\ Cell(pos[c]) \in Cells
         /\ seq[Cell(pos[c])] = pos[c] + 1
         /\ FullCell(Cell(pos[c]))
<1>1. pos[c] \in Nat /\ Cell(pos[c]) \in Cells
  BY CellFacts DEF IInv, TypeOK, Threads
<1>2. seq[Cell(pos[c])] = pos[c] + 1
  BY DEF IInv, PopOwnersInv
<1>3. FreeCell(Cell(pos[c])) \/ FullCell(Cell(pos[c]))
  BY <1>1 DEF IInv, CellsInv
<1>4. ~FreeCell(Cell(pos[c]))
  BY <1>1, <1>2, NextCell DEF FreeCell
<1> QED  BY <1>1, <1>2, <1>3, <1>4

\* When the compare-exchange on tail_ succeeds, the cell is still free for
\* the ticket, however old the load of its sequence was.
LEMMA PushClaimCell ==
  ASSUME IInv, NEW p \in Producers, pc[p] = "cas", pos[p] = tail
  PROVE  /\ tail \in Nat
         /\ Cell(tail) \in Cells
         /\ seq[Cell(tail)] = tail
         /\ FreeCell(Cell(tail))
<1>1. tail \in Nat /\ head \in Nat /\ Cell(tail) \in Cells /\ seq[Cell(tail)] \in Nat
  BY CellFacts DEF IInv, TypeOK
<1>2. seq[Cell(tail)] >= tail /\ head <= tail
  BY DEF IInv, CasInv, NeverOverfilled
<1>3. CASE FreeCell(Cell(tail))
  <2>1. Cell(seq[Cell(tail)]) = Cell(tail) /\ seq[Cell(tail)] < head + Capacity
    BY <1>3 DEF FreeCell
  <2>2. ~(tail < seq[Cell(tail)])
    BY <1>1, <1>2, <2>1, CellFacts, CapacityFact
  <2> QED  BY <1>1, <1>2, <1>3, <2>2
<1>4. CASE FullCell(Cell(tail))
  <2>1. seq[Cell(tail)] = tail /\ tail > 0 /\ Cell(tail - 1) = Cell(tail)
    BY <1>1, <1>2, <1>4 DEF FullCell
  <2>2. tail - 1 \in Nat /\ (tail - 1) + 1 = tail
    BY <1>1, <2>1
  <2> QED  BY <2>1, <2>2, NextCell
<1> QED  BY <1>1, <1>3, <1>4 DEF IInv, CellsInv

\* When the compare-exchange on head_ succeeds, the element is still there.
LEMMA PopClaimCell ==
  ASSUME IInv, NEW c \in Consumers, pc[c] = "cas", pos[c] = head
  PROVE  /\ head \in Nat
         /\ Cell(head) \in Cells
         /\ seq[Cell(head)] = head + 1
         /\ FullCell(Cell(head))
<1>1. tail \in Nat /\ head \in Nat /\ Cell(head) \in Cells /\ seq[Cell(head)] \in Nat
  BY CellFacts DEF IInv, TypeOK
<1>2. seq[Cell(head)] >= head + 1
  BY DEF IInv, CasInv
<1>3. CASE FreeCell(Cell(head))
  <2>1. Cell(seq[Cell(head)]) = Cell(head) /\ seq[Cell(head)] < head + Capacity
    BY <1>3 DEF FreeCell
  <2> QED  BY <1>1, <1>2, <2>1, CellFacts, CapacityFact
<1>4. CASE FullCell(Cell(head))
  <2> DEFINE s == seq[Cell(head)] - 1
  <2>1. s \in Nat /\ s >= head /\ Cell(s) = Cell(head) /\ s < head + Capacity
    BY <1>1, <1>2, <1>4, CapacityFact DEF FullCell
  <2>2. ~(head < s)
    BY <1>1, <2>1, CellFacts, CapacityFact
  <2> QED  BY <1>1, <1>4, <2>1, <2>2
<1> QED  BY <1>1, <1>3, <1>4 DEF IInv, CellsInv

-----------------------------------------------------------------------------
(* The inductive invariant: the steps before a thread owns a cell.         *)

\* What a load of a sequence returns is at most the current sequence.
LEMMA SeqSeenBound ==
  ASSUME TypeOK, NEW t, NEW i \in Cells, NEW s \in SeqSeen(t, i)
  PROVE  s \in Nat /\ s <= seq[i]
<1>1. i \in Nat  BY CellFacts
<1>2. seq[i] \in Nat  BY DEF TypeOK
<1>3. CASE t \in StaleThreads
  <2>1. s \in i..seq[i]  BY <1>3, Zenon DEF SeqSeen
  <2> QED  BY <1>1, <1>2, <2>1
<1>4. CASE t \notin StaleThreads
  <2>1. s = seq[i]  BY <1>4, Zenon DEF SeqSeen
  <2> QED  BY <1>2, <2>1
<1> QED  BY <1>3, <1>4

\* A step of a thread that owns no cell and touches no shared state.
LEMMA LocalStep ==
  ASSUME IInv, TypeOK', NEW t \in Threads,
         UNCHANGED <<head, tail, seq, data, log, pushLost, popLost>>,
         \A u \in Threads \ {t} : pc'[u] = pc[u] /\ pos'[u] = pos[u],
         \A p \in Producers \ {t} : args'[p] = args[p],
         ~Owns(t), ~Owns(t)',
         pc'[t] = "cas" =>
           /\ t \in Producers => seq[Cell(pos'[t])] >= pos'[t]
           /\ t \in Consumers => seq[Cell(pos'[t])] >= pos'[t] + 1
  PROVE  IInv'
<1> USE DEF Threads
<1>1. \A u \in Threads : Owns(u)' <=> Owns(u)
  BY DEF Owns
<1>2. \A u \in Threads : Owns(u) => pos'[u] = pos[u] /\ pc'[u] = pc[u]
  OBVIOUS
<1>3. \A x : PushPending(x) => PushPending(x)'
  BY <1>1, <1>2 DEF PushPending
<1>4. \A x : PopPending(x) => PopPending(x)'
  BY <1>1, <1>2 DEF PopPending
<1>5. CellsInv'
  <2> SUFFICES ASSUME NEW i \in Cells  PROVE FreeCell(i)' \/ FullCell(i)'
    BY DEF CellsInv
  <2>1. FreeCell(i) => FreeCell(i)'
    BY <1>1, <1>2, <1>3 DEF FreeCell, Owns
  <2>2. FullCell(i) => FullCell(i)'
    BY <1>1, <1>2, <1>4 DEF FullCell, Owns
  <2> QED  BY <2>1, <2>2 DEF IInv, CellsInv
<1>6. PushOwnersInv'
  BY <1>1, <1>2 DEF IInv, PushOwnersInv
<1>7. PopOwnersInv'
  BY <1>1, <1>2 DEF IInv, PopOwnersInv
<1>8. CasInv'
  BY DEF IInv, CasInv
<1>9. LostInv' /\ NeverOverfilled' /\ Len(log') = tail'
  BY DEF IInv, LostInv, NeverOverfilled
<1> QED  BY <1>5, <1>6, <1>7, <1>8, <1>9 DEF IInv

\* A push call up to the compare-exchange.
LEMMA IInvPushSearch ==
  ASSUME IInv, NEW p \in Producers, TypeOK',
         PushCall(p) \/ PushLoad(p) \/ PushSeesFree(p) \/ PushRejected(p)
           \/ PushBehind(p) \/ PushCasFails(p)
  PROVE  IInv'
<1> USE DEF Goto
<1>1. p \in Threads /\ p \notin Consumers /\ pos[p] \in Nat /\ Cell(pos[p]) \in Cells
  BY ThreadsAssumption, CellFacts DEF Threads, IInv, TypeOK
<1>2. pc \in [Threads -> PushLabels \cup PopLabels] /\ pos \in [Threads -> Nat]
  BY DEF IInv, TypeOK
<1>3. args \in [Producers -> Seq(Values)]
  BY DEF IInv, TypeOK
<1>4. UNCHANGED <<head, tail, seq, data, log, pushLost, popLost>>
  BY DEF PushCall, PushLoad, PushSeesFree, PushRejected, PushBehind, PushCasFails
<1>5. pc[p] \in {"idle", "load", "seq", "cas"} /\ pc'[p] \in {"idle", "load", "seq", "cas"}
  BY <1>1, <1>2 DEF PushCall, PushLoad, PushSeesFree, PushRejected, PushBehind, PushCasFails
<1>6. \A u \in Threads \ {p} : pc'[u] = pc[u] /\ pos'[u] = pos[u]
  BY <1>2 DEF PushCall, PushLoad, PushSeesFree, PushRejected, PushBehind, PushCasFails
<1>7. \A q \in Producers \ {p} : args'[q] = args[q]
  BY <1>3 DEF PushCall, PushLoad, PushSeesFree, PushRejected, PushBehind, PushCasFails
<1>8. pc'[p] = "cas" => seq[Cell(pos'[p])] >= pos'[p]
  <2> SUFFICES ASSUME pc'[p] = "cas"  PROVE seq[Cell(pos'[p])] >= pos'[p]
    OBVIOUS
  <2>1. PushSeesFree(p)
    BY <1>1, <1>2 DEF PushCall, PushLoad, PushRejected, PushBehind, PushCasFails
  <2>2. PICK s \in SeqSeen(p, Cell(pos[p])) : s - pos[p] = 0
    BY <2>1 DEF PushSeesFree
  <2>3. s \in Nat /\ s <= seq[Cell(pos[p])]
    BY <1>1, SeqSeenBound DEF IInv
  <2>4. seq[Cell(pos[p])] \in Nat
    BY <1>1 DEF IInv, TypeOK
  <2>5. pos' = pos
    BY <2>1 DEF PushSeesFree
  <2> QED  BY <1>1, <2>2, <2>3, <2>4, <2>5
<1>9. ~Owns(p) /\ ~Owns(p)'
  BY <1>5 DEF Owns
<1> QED  BY <1>1, <1>4, <1>6, <1>7, <1>8, <1>9, LocalStep

\* A pop call up to the compare-exchange.
LEMMA IInvPopSearch ==
  ASSUME IInv, NEW c \in Consumers, TypeOK',
         PopCall(c) \/ PopLoad(c) \/ PopSeesFull(c) \/ PopRejected(c)
           \/ PopBehind(c) \/ PopCasFails(c)
  PROVE  IInv'
<1> USE DEF Goto
<1>1. c \in Threads /\ c \notin Producers /\ pos[c] \in Nat /\ Cell(pos[c]) \in Cells
  BY ThreadsAssumption, CellFacts DEF Threads, IInv, TypeOK
<1>2. pc \in [Threads -> PushLabels \cup PopLabels] /\ pos \in [Threads -> Nat]
  BY DEF IInv, TypeOK
<1>4. UNCHANGED <<head, tail, seq, data, log, pushLost, popLost>> /\ args' = args
  BY DEF PopCall, PopLoad, PopSeesFull, PopRejected, PopBehind, PopCasFails
<1>5. pc[c] \in {"idle", "load", "seq", "cas"} /\ pc'[c] \in {"idle", "load", "seq", "cas"}
  BY <1>1, <1>2 DEF PopCall, PopLoad, PopSeesFull, PopRejected, PopBehind, PopCasFails
<1>6. \A u \in Threads \ {c} : pc'[u] = pc[u] /\ pos'[u] = pos[u]
  BY <1>2 DEF PopCall, PopLoad, PopSeesFull, PopRejected, PopBehind, PopCasFails
<1>8. pc'[c] = "cas" => seq[Cell(pos'[c])] >= pos'[c] + 1
  <2> SUFFICES ASSUME pc'[c] = "cas"  PROVE seq[Cell(pos'[c])] >= pos'[c] + 1
    OBVIOUS
  <2>1. PopSeesFull(c)
    BY <1>1, <1>2 DEF PopCall, PopLoad, PopRejected, PopBehind, PopCasFails
  <2>2. PICK s \in SeqSeen(c, Cell(pos[c])) : s - (pos[c] + 1) = 0
    BY <2>1 DEF PopSeesFull
  <2>3. s \in Nat /\ s <= seq[Cell(pos[c])]
    BY <1>1, SeqSeenBound DEF IInv
  <2>4. seq[Cell(pos[c])] \in Nat
    BY <1>1 DEF IInv, TypeOK
  <2>5. pos' = pos
    BY <2>1 DEF PopSeesFull
  <2> QED  BY <1>1, <2>2, <2>3, <2>4, <2>5
<1>9. ~Owns(c) /\ ~Owns(c)'
  BY <1>5 DEF Owns
<1> QED  BY <1>1, <1>4, <1>6, <1>8, <1>9, LocalStep

-----------------------------------------------------------------------------
(* The inductive invariant: two owners never meet.                         *)

\* Two owners of the same cell would both name its sequence, as two different
\* producers, two different consumers, or one of each a ticket apart.
LEMMA OwnersApart == IInv => SlotExclusive
<1> SUFFICES ASSUME IInv, NEW t \in Threads, NEW u \in Threads,
                    t # u, Owns(t), Owns(u), Cell(pos[t]) = Cell(pos[u])
             PROVE  FALSE
  BY DEF SlotExclusive
<1>1. CASE t \in Producers /\ u \in Producers
  BY <1>1, PushOwnerCell DEF IInv, PushOwnersInv
<1>2. CASE t \in Consumers /\ u \in Consumers
  <2>1. pos[t] + 1 = pos[u] + 1 /\ pos[t] \in Nat /\ pos[u] \in Nat
    BY <1>2, PopOwnerCell
  <2>2. pos[t] = pos[u]
    BY <2>1
  <2> QED  BY <1>2, <2>2 DEF IInv, PopOwnersInv
<1>3. CASE t \in Producers /\ u \in Consumers
  <2>1. pos[t] = pos[u] + 1 /\ pos[u] \in Nat
    BY <1>3, PushOwnerCell, PopOwnerCell
  <2> QED  BY <2>1, NextCell
<1>4. CASE t \in Consumers /\ u \in Producers
  <2>1. pos[u] = pos[t] + 1 /\ pos[t] \in Nat
    BY <1>4, PushOwnerCell, PopOwnerCell
  <2> QED  BY <2>1, NextCell
<1> QED  BY <1>1, <1>2, <1>3, <1>4 DEF Threads

-----------------------------------------------------------------------------
(* The inductive invariant: the steps of a producer that owns a cell.      *)

LEMMA IInvPushClaim ==
  ASSUME IInv, NEW p \in Producers, TypeOK', PushClaim(p)
  PROVE  IInv'
<1> DEFINE k == Cell(tail)
<1>1. /\ p \in Threads /\ p \notin Consumers
      /\ pc[p] = "cas" /\ pos[p] = tail /\ tail' = tail + 1
      /\ UNCHANGED <<head, seq, data, pos, args, pushLost, popLost>>
      /\ log' = Append(log, args[p][1])
  BY ThreadsAssumption DEF PushClaim, Threads
<1>2. pc' = [pc EXCEPT ![p] = "construct"] /\ pc \in [Threads -> PushLabels \cup PopLabels]
  BY DEF PushClaim, Goto, IInv, TypeOK
<1>3. tail \in Nat /\ k \in Cells /\ seq[k] = tail /\ FreeCell(k)
  BY <1>1, PushClaimCell
<1>4. /\ head \in Nat /\ seq \in [Cells -> Nat] /\ log \in Seq(Values) /\ Len(log) = tail
      /\ args[p][1] \in Values
  <2>1. args[p] \in Seq(Values) /\ args[p] # <<>>
    BY <1>1 DEF IInv, TypeOK
  <2> QED  BY <2>1 DEF IInv, TypeOK
<1>5. /\ \A x \in 1..tail : log'[x] = log[x]
      /\ log'[tail + 1] = args[p][1]
      /\ Len(log') = tail'
  BY <1>1, <1>3, <1>4
<1>6. \A u \in Threads \ {p} : Owns(u)' = Owns(u) /\ pc'[u] = pc[u]
  BY <1>2 DEF Owns
<1>7. Owns(p)' /\ ~Owns(p) /\ pc'[p] = "construct"
  BY <1>1, <1>2 DEF Owns
<1>8. data[k] = Raw
  <2>1. ~\E r \in Producers : pc[r] = "publish" /\ pos[r] = tail
    BY <1>1, <1>3, <1>4 DEF IInv, PushOwnersInv, Owns
  <2> QED  BY <1>3, <2>1 DEF FreeCell
<1>9. \A x : (PushPending(x) => PushPending(x)') /\ (PopPending(x) => PopPending(x)')
  BY <1>1, <1>6, <1>7 DEF PushPending, PopPending, Threads
<1> HIDE DEF k
<1>10. CellsInv'
  <2> SUFFICES ASSUME NEW i \in Cells  PROVE FreeCell(i)' \/ FullCell(i)'
    BY DEF CellsInv
  <2>0. seq[i] \in Nat /\ k = Cell(tail)
    BY <1>4 DEF k
  <2>1. CASE i = k
    <3>1. PushPending(seq[i])'
      BY <1>1, <1>3, <1>7, <2>1 DEF PushPending
    <3>2. tail + 1 <= seq[i] + Capacity
      BY <1>3, <2>1, CapacityFact
    <3> QED  BY <1>1, <1>3, <1>8, <2>1, <3>1, <3>2 DEF FreeCell
  <2>2. CASE i # k /\ FreeCell(i)
    <3>1. tail # seq[i] + Capacity /\ tail # seq[i]
      BY <2>0, <2>2, CellFacts DEF FreeCell
    <3>2. tail + 1 <= seq[i] + Capacity
      BY <1>3, <2>0, <2>2, <3>1, CapacityFact DEF FreeCell
    <3>3. seq[i] < tail + 1 => PushPending(seq[i])'
      BY <1>1, <1>3, <1>9, <2>0, <2>2, <3>1 DEF FreeCell
    <3>4. data[i] = Raw \/ \E r \in Producers : pc'[r] = "publish" /\ pos[r] = seq[i]
      BY <1>1, <1>6, <2>2 DEF FreeCell, Threads
    <3> QED  BY <1>1, <2>2, <3>2, <3>3, <3>4 DEF FreeCell
  <2>3. CASE i # k /\ FullCell(i)
    <3>1. tail # (seq[i] - 1) + Capacity
      BY <2>0, <2>3, CellFacts DEF FullCell
    <3>2. tail + 1 < seq[i] + Capacity /\ seq[i] <= tail + 1 /\ seq[i] \in 1..tail
      BY <1>3, <2>0, <2>3, <3>1, CapacityFact DEF FullCell
    <3>3. \/ data[i] = log'[seq[i]]
          \/ \E c \in Consumers : pc'[c] = "release" /\ pos[c] = seq[i] - 1
      BY <1>1, <1>5, <1>6, <2>3, <3>2 DEF FullCell, Threads
    <3> QED  BY <1>1, <1>9, <2>3, <3>2, <3>3 DEF FullCell
  <2> QED  BY <2>1, <2>2, <2>3 DEF IInv, CellsInv
<1>11. PushOwnersInv'
  <2>1. ASSUME NEW r \in Producers, Owns(r)', r # p
        PROVE  /\ seq[Cell(pos[r])] = pos[r]
               /\ pos[r] < tail
               /\ pos[r] \notin pushLost
               /\ log'[pos[r] + 1] = args[r][1]
               /\ data[Cell(pos[r])] = IF pc'[r] = "publish" THEN log'[pos[r] + 1] ELSE Raw
    <3>1. Owns(r) /\ pc'[r] = pc[r] /\ pos[r] \in Nat
      BY <1>6, <2>1 DEF IInv, TypeOK, Threads
    <3>2. pos[r] < tail
      BY <3>1 DEF IInv, PushOwnersInv
    <3>3. log'[pos[r] + 1] = log[pos[r] + 1]
      BY <1>3, <1>5, <3>1, <3>2
    <3> QED  BY <3>1, <3>3 DEF IInv, PushOwnersInv
  <2>2. tail \notin pushLost
    BY <1>3, <1>4 DEF IInv, LostInv
  <2>3. \A r \in Producers : Owns(r)' =>
          /\ seq[Cell(pos[r])] = pos[r]
          /\ pos[r] < tail + 1
          /\ pos[r] \notin pushLost
          /\ log'[pos[r] + 1] = args[r][1]
          /\ data[Cell(pos[r])] = IF pc'[r] = "publish" THEN log'[pos[r] + 1] ELSE Raw
    <3> SUFFICES ASSUME NEW r \in Producers, Owns(r)'
                 PROVE  /\ seq[Cell(pos[r])] = pos[r]
                        /\ pos[r] < tail + 1
                        /\ pos[r] \notin pushLost
                        /\ log'[pos[r] + 1] = args[r][1]
                        /\ data[Cell(pos[r])] = IF pc'[r] = "publish" THEN log'[pos[r] + 1] ELSE Raw
      OBVIOUS
    <3>1. CASE r = p
      BY <1>1, <1>3, <1>5, <1>7, <1>8, <2>2, <3>1 DEF k
    <3>2. CASE r # p
      <4>1. pos[r] \in Nat
        BY DEF IInv, TypeOK, Threads
      <4> QED  BY <1>3, <2>1, <3>2, <4>1
    <3> QED  BY <3>1, <3>2
  <2>4. \A q, r \in Producers : q # r /\ Owns(q)' /\ Owns(r)' => pos[q] # pos[r]
    <3>1. \A r \in Producers \ {p} : Owns(r)' => pos[r] \in Nat /\ pos[r] < tail
      BY <2>1 DEF IInv, TypeOK, Threads
    <3>2. \A r \in Producers \ {p} : Owns(r)' => pos[r] # pos[p]
      BY <1>1, <1>3, <3>1
    <3> QED  BY <1>6, <3>2 DEF IInv, PushOwnersInv, Threads
  <2> QED  BY <1>1, <2>3, <2>4 DEF PushOwnersInv
<1>12. PopOwnersInv'
  <2>1. \A c \in Consumers : Owns(c)' = Owns(c) /\ pc'[c] = pc[c]
    BY <1>1, <1>6 DEF Threads
  <2>2. \A c \in Consumers : Owns(c) => log'[pos[c] + 1] = log[pos[c] + 1]
    <3> SUFFICES ASSUME NEW c \in Consumers, Owns(c)
                 PROVE  pos[c] + 1 \in 1..tail
      BY <1>5
    <3>1. pos[c] \in Nat /\ pos[c] < head /\ head <= tail
      BY DEF IInv, TypeOK, Threads, PopOwnersInv, NeverOverfilled
    <3> QED  BY <1>3, <1>4, <3>1
  <2> QED  BY <1>1, <2>1, <2>2 DEF IInv, PopOwnersInv
<1>13. CasInv'
  BY <1>1, <1>2, <1>6, <1>7 DEF IInv, CasInv, Threads
<1>14. NeverOverfilled'
  BY <1>1, <1>3, <1>4, CapacityFact DEF IInv, NeverOverfilled, FreeCell
<1>15. LostInv'
  BY <1>1, <1>3, <1>4 DEF IInv, LostInv, TypeOK
<1> QED  BY <1>5, <1>10, <1>11, <1>12, <1>13, <1>14, <1>15 DEF IInv

LEMMA IInvConstruct ==
  ASSUME IInv, NEW p \in Producers, TypeOK', Construct(p)
  PROVE  IInv'
<1> DEFINE k == Cell(pos[p])
<1>1. /\ p \in Threads /\ p \notin Consumers
      /\ pc[p] = "construct"
      /\ UNCHANGED <<head, tail, seq, pos, args, log, pushLost, popLost>>
      /\ data' = [data EXCEPT ![k] = args[p][1]]
  BY ThreadsAssumption DEF Construct, Threads
<1>2. /\ pc' = [pc EXCEPT ![p] = "publish"] /\ pc \in [Threads -> PushLabels \cup PopLabels]
      /\ data \in [Cells -> Values \cup {Raw}]
  BY DEF Construct, Goto, IInv, TypeOK
<1>3. \A u \in Threads : Owns(u)' = Owns(u)
  BY <1>1, <1>2 DEF Owns
<1>4. Owns(p) /\ pc'[p] = "publish" /\ \A u \in Threads \ {p} : pc'[u] = pc[u]
  BY <1>1, <1>2 DEF Owns
<1>5. pos[p] \in Nat /\ k \in Cells /\ seq[k] = pos[p] /\ FreeCell(k)
  BY <1>4, PushOwnerCell
<1>6. \A u \in Threads \ {p} : Owns(u) => Cell(pos[u]) # k
  BY <1>1, <1>4, OwnersApart DEF SlotExclusive
<1>7. \A x : (PushPending(x) => PushPending(x)') /\ (PopPending(x) => PopPending(x)')
  BY <1>1, <1>3 DEF PushPending, PopPending, Threads
<1> HIDE DEF k
<1>8. data'[k] = args[p][1] /\ \A i \in Cells \ {k} : data'[i] = data[i]
  BY <1>1, <1>2, <1>5
<1>9. CellsInv'
  <2> SUFFICES ASSUME NEW i \in Cells  PROVE FreeCell(i)' \/ FullCell(i)'
    BY DEF CellsInv
  <2>1. CASE i = k
    <3>1. \E r \in Producers : pc'[r] = "publish" /\ pos[r] = seq[i]
      BY <1>4, <1>5, <2>1
    <3> QED  BY <1>1, <1>5, <1>7, <2>1, <3>1 DEF FreeCell
  <2>2. CASE i # k /\ FreeCell(i)
    <3>1. data'[i] = Raw \/ \E r \in Producers : pc'[r] = "publish" /\ pos[r] = seq[i]
      BY <1>1, <1>4, <1>8, <2>2 DEF FreeCell, Threads
    <3> QED  BY <1>1, <1>7, <2>2, <3>1 DEF FreeCell
  <2>3. CASE i # k /\ FullCell(i)
    <3>1. \/ data'[i] = log[seq[i]]
          \/ \E c \in Consumers : pc'[c] = "release" /\ pos[c] = seq[i] - 1
      BY <1>1, <1>4, <1>8, <2>3 DEF FullCell, Threads
    <3> QED  BY <1>1, <1>7, <2>3, <3>1 DEF FullCell
  <2> QED  BY <2>1, <2>2, <2>3 DEF IInv, CellsInv
<1>10. PushOwnersInv'
  <2>1. ASSUME NEW r \in Producers, Owns(r)
        PROVE  data'[Cell(pos[r])] = IF pc'[r] = "publish" THEN log[pos[r] + 1] ELSE Raw
    <3>1. CASE r = p
      BY <1>4, <1>8, <3>1 DEF IInv, PushOwnersInv, k
    <3>2. CASE r # p
      <4>1. Cell(pos[r]) \in Cells /\ r \in Threads
        BY <2>1, PushOwnerCell DEF Threads
      <4>2. data'[Cell(pos[r])] = data[Cell(pos[r])] /\ pc'[r] = pc[r]
        BY <1>4, <1>6, <1>8, <2>1, <3>2, <4>1
      <4> QED  BY <2>1, <4>2 DEF IInv, PushOwnersInv
    <3> QED  BY <3>1, <3>2
  <2> QED  BY <1>1, <1>3, <2>1 DEF IInv, PushOwnersInv, Threads
<1>11. PopOwnersInv'
  <2>1. \A c \in Consumers : pc'[c] = pc[c]
    BY <1>1, <1>4 DEF Threads
  <2>2. \A c \in Consumers : Owns(c) => data'[Cell(pos[c])] = data[Cell(pos[c])]
    BY <1>1, <1>6, <1>8, PopOwnerCell DEF Threads
  <2> QED  BY <1>1, <1>3, <2>1, <2>2 DEF IInv, PopOwnersInv, Threads
<1>12. CasInv' /\ NeverOverfilled' /\ LostInv' /\ Len(log') = tail'
  BY <1>1, <1>4 DEF IInv, CasInv, NeverOverfilled, LostInv, Threads
<1> QED  BY <1>9, <1>10, <1>11, <1>12 DEF IInv

LEMMA IInvConstructThrows ==
  ASSUME IInv, NEW p \in Producers, TypeOK', ConstructThrows(p)
  PROVE  IInv'
<1>1. /\ p \in Threads /\ p \notin Consumers
      /\ pc[p] = "construct"
      /\ UNCHANGED <<head, tail, seq, data, pos, log, popLost>>
      /\ pushLost' = pushLost \cup {pos[p]}
  BY ThreadsAssumption DEF ConstructThrows, Threads
<1>2. /\ pc' = [pc EXCEPT ![p] = "idle"] /\ pc \in [Threads -> PushLabels \cup PopLabels]
      /\ args' = [args EXCEPT ![p] = <<>>] /\ args \in [Producers -> Seq(Values)]
  BY DEF ConstructThrows, Goto, IInv, TypeOK
<1>3. /\ \A u \in Threads \ {p} : pc'[u] = pc[u] /\ Owns(u)' = Owns(u)
      /\ \A r \in Producers \ {p} : args'[r] = args[r]
  BY <1>2 DEF Owns
<1>4. Owns(p) /\ ~Owns(p)' /\ pc'[p] = "idle"
  BY <1>1, <1>2 DEF Owns
<1>5. pos[p] \in Nat /\ seq[Cell(pos[p])] = pos[p]
  BY <1>4, PushOwnerCell
<1>6. \A x : (PushPending(x) => PushPending(x)') /\ (PopPending(x) => PopPending(x)')
  BY <1>1, <1>3 DEF PushPending, PopPending, Threads
<1>7. CellsInv'
  <2> SUFFICES ASSUME NEW i \in Cells  PROVE FreeCell(i)' \/ FullCell(i)'
    BY DEF CellsInv
  <2>1. FreeCell(i) => FreeCell(i)'
    BY <1>1, <1>3, <1>6 DEF FreeCell, Threads
  <2>2. FullCell(i) => FullCell(i)'
    BY <1>1, <1>3, <1>6 DEF FullCell, Threads
  <2> QED  BY <2>1, <2>2 DEF IInv, CellsInv
<1>8. PushOwnersInv'
  <2>1. \A r \in Producers \ {p} : Owns(r) => pos[r] # pos[p]
    BY <1>4 DEF IInv, PushOwnersInv
  <2> QED  BY <1>1, <1>3, <1>4, <2>1 DEF IInv, PushOwnersInv, Threads
<1>9. PopOwnersInv'
  BY <1>1, <1>3 DEF IInv, PopOwnersInv, Threads
<1>10. CasInv' /\ NeverOverfilled' /\ Len(log') = tail'
  BY <1>1, <1>3, <1>4 DEF IInv, CasInv, NeverOverfilled, Threads
<1>11. LostInv'
  BY <1>1, <1>4, <1>5 DEF IInv, LostInv, PushOwnersInv
<1> QED  BY <1>7, <1>8, <1>9, <1>10, <1>11 DEF IInv

LEMMA IInvPublish ==
  ASSUME IInv, NEW p \in Producers, TypeOK', Publish(p)
  PROVE  IInv'
<1> DEFINE k == Cell(pos[p])
<1>1. /\ p \in Threads /\ p \notin Consumers
      /\ pc[p] = "publish"
      /\ UNCHANGED <<head, tail, data, pos, log, pushLost, popLost>>
      /\ seq' = [seq EXCEPT ![k] = pos[p] + 1]
  BY ThreadsAssumption DEF Publish, Threads
<1>2. /\ pc'[p] \in {"idle", "load"}
      /\ \A u \in Threads \ {p} : pc'[u] = pc[u] /\ Owns(u)' = Owns(u)
      /\ \A r \in Producers \ {p} : args'[r] = args[r]
  BY <1>1 DEF Publish, Goto, IInv, TypeOK, Owns
<1>3. Owns(p) /\ ~Owns(p)'
  BY <1>1, <1>2 DEF Owns
<1>4. pos[p] \in Nat /\ k \in Cells /\ seq[k] = pos[p] /\ FreeCell(k)
  BY <1>3, PushOwnerCell
<1>5. /\ head \in Nat /\ tail \in Nat /\ seq \in [Cells -> Nat]
      /\ pos[p] < tail /\ data[k] = log[pos[p] + 1]
  BY <1>1, <1>3 DEF IInv, TypeOK, PushOwnersInv
<1>6. \A u \in Threads \ {p} : Owns(u) => Cell(pos[u]) # k
  BY <1>1, <1>3, OwnersApart DEF SlotExclusive
<1> HIDE DEF k
<1>7. seq'[k] = pos[p] + 1 /\ \A i \in Cells \ {k} : seq'[i] = seq[i]
  BY <1>1, <1>4, <1>5
<1>8. \A x : PopPending(x) => PopPending(x)'
  BY <1>1, <1>2 DEF PopPending, Threads
<1>9. \A x : x # pos[p] /\ PushPending(x) => PushPending(x)'
  BY <1>1, <1>2 DEF PushPending, Threads
<1>10. CellsInv'
  <2> SUFFICES ASSUME NEW i \in Cells  PROVE FreeCell(i)' \/ FullCell(i)'
    BY DEF CellsInv
  <2>0. seq[i] \in Nat /\ k = Cell(pos[p])
    BY <1>5 DEF k
  <2>1. CASE i = k
    <3>1. /\ head <= pos[p] /\ pos[p] < head + Capacity /\ tail <= pos[p] + Capacity
      BY <1>4 DEF FreeCell
    <3>2. /\ seq'[i] = pos[p] + 1 /\ seq'[i] > 0 /\ seq'[i] - 1 = pos[p]
          /\ seq'[i] <= tail /\ tail < seq'[i] + Capacity /\ seq'[i] <= head + Capacity
          /\ ~(seq'[i] <= head)
      BY <1>4, <1>5, <1>7, <2>1, <3>1, CapacityFact
    <3> QED  BY <1>1, <1>5, <2>0, <2>1, <3>2 DEF FullCell
  <2>2. CASE i # k /\ FreeCell(i)
    <3>1. seq[i] # pos[p]
      BY <2>0, <2>2 DEF FreeCell
    <3>2. data[i] = Raw \/ \E r \in Producers : pc'[r] = "publish" /\ pos[r] = seq[i]
      BY <1>1, <1>2, <2>2, <3>1 DEF FreeCell, Threads
    <3>3. (seq[i] < tail => PushPending(seq[i]))'
      BY <1>1, <1>7, <1>9, <2>2, <3>1 DEF FreeCell
    <3> QED  BY <1>1, <1>7, <2>2, <3>2, <3>3 DEF FreeCell
  <2>3. CASE i # k /\ FullCell(i)
    <3>1. \/ data[i] = log[seq[i]]
          \/ \E c \in Consumers : pc'[c] = "release" /\ pos[c] = seq[i] - 1
      BY <1>1, <1>2, <2>3 DEF FullCell, Threads
    <3> QED  BY <1>1, <1>7, <1>8, <2>3, <3>1 DEF FullCell
  <2> QED  BY <2>1, <2>2, <2>3 DEF IInv, CellsInv
<1>11. PushOwnersInv'
  <2>1. \A r \in Producers : Owns(r)' =>
           /\ r # p /\ Owns(r) /\ pc'[r] = pc[r] /\ args'[r] = args[r]
           /\ seq'[Cell(pos[r])] = seq[Cell(pos[r])]
    BY <1>2, <1>3, <1>6, <1>7, PushOwnerCell DEF Threads
  <2> QED  BY <1>1, <2>1 DEF IInv, PushOwnersInv
<1>12. PopOwnersInv'
  <2>1. \A c \in Consumers : Owns(c)' =>
           Owns(c) /\ pc'[c] = pc[c] /\ seq'[Cell(pos[c])] = seq[Cell(pos[c])]
    BY <1>1, <1>2, <1>3, <1>6, <1>7, PopOwnerCell DEF Threads
  <2> QED  BY <1>1, <2>1 DEF IInv, PopOwnersInv
<1>13. \A i \in Cells : seq[i] \in Nat /\ seq'[i] \in Nat /\ seq'[i] >= seq[i]
  BY <1>4, <1>5, <1>7
<1>14. CasInv'
  <2>1. \A u \in Threads : pos[u] \in Nat /\ Cell(pos[u]) \in Cells
    BY CellFacts DEF IInv, TypeOK
  <2>2. \A r \in Producers : pc'[r] = "cas" => pc[r] = "cas"
    BY <1>2 DEF Threads
  <2>3. \A c \in Consumers : pc'[c] = "cas" => pc[c] = "cas"
    BY <1>2 DEF Threads
  <2>4. \A r \in Producers : pc'[r] = "cas" => seq'[Cell(pos[r])] >= pos[r]
    BY <1>13, <2>1, <2>2 DEF IInv, CasInv, Threads
  <2>5. \A c \in Consumers : pc'[c] = "cas" => seq'[Cell(pos[c])] >= pos[c] + 1
    BY <1>13, <2>1, <2>3 DEF IInv, CasInv, Threads
  <2> QED  BY <1>1, <2>4, <2>5 DEF CasInv
<1>15. LostInv'
  <2>1. \A x \in pushLost : Cell(x) \in Cells /\ Cell(x) # k
    <3> SUFFICES ASSUME NEW x \in pushLost  PROVE Cell(x) \in Cells /\ Cell(x) # k
      OBVIOUS
    <3>1. x \in Nat /\ seq[Cell(x)] = x /\ x # pos[p]
      BY <1>3 DEF IInv, TypeOK, LostInv, PushOwnersInv
    <3> QED  BY <1>4, <3>1, CellFacts
  <2>2. \A x \in popLost : Cell(x) \in Cells /\ Cell(x) # k
    <3> SUFFICES ASSUME NEW x \in popLost, Cell(x) = k  PROVE FALSE
      BY CellFacts DEF IInv, TypeOK
    <3>1. x \in Nat /\ seq[Cell(x)] = x + 1
      BY DEF IInv, TypeOK, LostInv
    <3>2. pos[p] = x + 1
      BY <1>4, <3>1
    <3> QED  BY <3>1, <3>2, NextCell DEF k
  <2> QED  BY <1>1, <1>7, <2>1, <2>2 DEF IInv, LostInv
<1>16. NeverOverfilled' /\ Len(log') = tail'
  BY <1>1 DEF IInv, NeverOverfilled
<1> QED  BY <1>10, <1>11, <1>12, <1>14, <1>15, <1>16 DEF IInv

-----------------------------------------------------------------------------
(* The inductive invariant: the steps of a consumer that owns a cell.      *)

LEMMA IInvPopClaim ==
  ASSUME IInv, NEW c \in Consumers, TypeOK', PopClaim(c)
  PROVE  IInv'
<1> DEFINE k == Cell(head)
<1>1. /\ c \in Threads /\ c \notin Producers
      /\ pc[c] = "cas" /\ pos[c] = head /\ head' = head + 1
      /\ UNCHANGED <<tail, seq, data, pos, args, log, pushLost, popLost>>
  BY ThreadsAssumption DEF PopClaim, Threads
<1>2. pc' = [pc EXCEPT ![c] = "move"] /\ pc \in [Threads -> PushLabels \cup PopLabels]
  BY DEF PopClaim, Goto, IInv, TypeOK
<1>3. head \in Nat /\ k \in Cells /\ seq[k] = head + 1 /\ FullCell(k)
  BY <1>1, PopClaimCell
<1>4. tail \in Nat /\ seq \in [Cells -> Nat] /\ head + 1 <= tail
  BY <1>3 DEF IInv, TypeOK, FullCell
<1>5. \A u \in Threads \ {c} : Owns(u)' = Owns(u) /\ pc'[u] = pc[u]
  BY <1>2 DEF Owns
<1>6. Owns(c)' /\ ~Owns(c) /\ pc'[c] = "move"
  BY <1>1, <1>2 DEF Owns
<1>7. data[k] = log[head + 1]
  <2>1. ~\E d \in Consumers : pc[d] = "release" /\ pos[d] = head
    BY <1>3 DEF IInv, PopOwnersInv, Owns
  <2>2. seq[k] - 1 = head
    BY <1>3
  <2> QED  BY <1>3, <2>1, <2>2 DEF FullCell
<1>8. \A x : (PushPending(x) => PushPending(x)') /\ (PopPending(x) => PopPending(x)')
  BY <1>1, <1>5, <1>6 DEF PushPending, PopPending, Threads
<1> HIDE DEF k
<1>9. CellsInv'
  <2> SUFFICES ASSUME NEW i \in Cells  PROVE FreeCell(i)' \/ FullCell(i)'
    BY DEF CellsInv
  <2>0. seq[i] \in Nat /\ k = Cell(head)
    BY <1>4 DEF k
  <2>1. CASE i = k
    <3>1. PopPending(seq[i] - 1)'
      BY <1>1, <1>3, <1>6, <2>1 DEF PopPending
    <3>2. seq[i] <= (head + 1) + Capacity
      BY <1>3, <2>1, CapacityFact
    <3>3. data[i] = log[seq[i]]
      BY <1>3, <1>7, <2>1
    <3> QED  BY <1>1, <1>3, <2>1, <3>1, <3>2, <3>3 DEF FullCell
  <2>2. CASE i # k /\ FreeCell(i)
    <3>1. seq[i] # head
      BY <2>0, <2>2 DEF FreeCell
    <3>2. head + 1 <= seq[i] /\ seq[i] < (head + 1) + Capacity
      BY <1>3, <2>0, <2>2, <3>1, CapacityFact DEF FreeCell
    <3>3. data[i] = Raw \/ \E r \in Producers : pc'[r] = "publish" /\ pos[r] = seq[i]
      BY <1>1, <1>5, <2>2 DEF FreeCell, Threads
    <3> QED  BY <1>1, <1>8, <2>2, <3>2, <3>3 DEF FreeCell
  <2>3. CASE i # k /\ FullCell(i)
    <3>1. seq[i] # head + 1 /\ seq[i] > 0
      <4> SUFFICES ASSUME seq[i] = head + 1  PROVE FALSE
        BY <2>3 DEF FullCell
      <4>1. seq[i] - 1 = head
        BY <1>3
      <4> QED  BY <2>0, <2>3, <4>1 DEF FullCell
    <3>2. seq[i] <= (head + 1) + Capacity
      BY <1>3, <2>0, <2>3, CapacityFact DEF FullCell
    <3>3. (seq[i] <= head => PopPending(seq[i] - 1))'
      <4>1. seq[i] <= head + 1 => seq[i] <= head
        BY <1>3, <2>0, <3>1
      <4> QED  BY <1>1, <1>8, <2>3, <4>1 DEF FullCell
    <3>4. \/ data[i] = log[seq[i]]
          \/ \E d \in Consumers : pc'[d] = "release" /\ pos[d] = seq[i] - 1
      BY <1>1, <1>5, <2>3 DEF FullCell, Threads
    <3> QED  BY <1>1, <2>3, <3>2, <3>3, <3>4 DEF FullCell
  <2> QED  BY <2>1, <2>2, <2>3 DEF IInv, CellsInv
<1>10. PushOwnersInv'
  BY <1>1, <1>5 DEF IInv, PushOwnersInv, Threads
<1>11. PopOwnersInv'
  <2>1. head \notin popLost
    BY <1>3 DEF IInv, LostInv
  <2>2. \A d \in Consumers \ {c} : Owns(d) => pos[d] \in Nat /\ pos[d] < head /\ pos[d] < head + 1
    BY <1>3 DEF IInv, PopOwnersInv, TypeOK, Threads
  <2>3. \A d \in Consumers : Owns(d)' =>
          /\ seq[Cell(pos[d])] = pos[d] + 1
          /\ pos[d] < head + 1
          /\ pos[d] \notin popLost
          /\ data[Cell(pos[d])] = IF pc'[d] = "move" THEN log[pos[d] + 1] ELSE Raw
    <3> SUFFICES ASSUME NEW d \in Consumers, Owns(d)'
                 PROVE  /\ seq[Cell(pos[d])] = pos[d] + 1
                        /\ pos[d] < head + 1
                        /\ pos[d] \notin popLost
                        /\ data[Cell(pos[d])] = IF pc'[d] = "move" THEN log[pos[d] + 1] ELSE Raw
      OBVIOUS
    <3>1. CASE d = c
      BY <1>1, <1>3, <1>6, <1>7, <2>1, <3>1 DEF k
    <3>2. CASE d # c
      BY <1>5, <2>2, <3>2 DEF IInv, PopOwnersInv, Threads
    <3> QED  BY <3>1, <3>2
  <2>4. \A d, e \in Consumers : d # e /\ Owns(d)' /\ Owns(e)' => pos[d] # pos[e]
    <3>1. \A d \in Consumers \ {c} : Owns(d) => pos[d] # pos[c]
      BY <1>1, <1>3, <2>2
    <3> QED  BY <1>5, <3>1 DEF IInv, PopOwnersInv, Threads
  <2> QED  BY <1>1, <2>3, <2>4 DEF PopOwnersInv
<1>12. CasInv' /\ Len(log') = tail'
  BY <1>1, <1>2, <1>5, <1>6 DEF IInv, CasInv, Threads
<1>13. NeverOverfilled'
  BY <1>1, <1>3, <1>4, CapacityFact DEF IInv, NeverOverfilled
<1>14. LostInv'
  BY <1>1, <1>3 DEF IInv, LostInv, TypeOK
<1> QED  BY <1>9, <1>10, <1>11, <1>12, <1>13, <1>14 DEF IInv

LEMMA IInvMoveOut ==
  ASSUME IInv, NEW c \in Consumers, TypeOK', MoveOut(c)
  PROVE  IInv'
<1> DEFINE k == Cell(pos[c])
<1>1. /\ c \in Threads /\ c \notin Producers
      /\ pc[c] = "move"
      /\ UNCHANGED <<head, tail, seq, pos, args, log, pushLost, popLost>>
      /\ data' = [data EXCEPT ![k] = Raw]
  BY ThreadsAssumption DEF MoveOut, Threads
<1>2. /\ pc' = [pc EXCEPT ![c] = "release"] /\ pc \in [Threads -> PushLabels \cup PopLabels]
      /\ data \in [Cells -> Values \cup {Raw}]
  BY DEF MoveOut, Goto, IInv, TypeOK
<1>3. \A u \in Threads : Owns(u)' = Owns(u)
  BY <1>1, <1>2 DEF Owns
<1>4. Owns(c) /\ pc'[c] = "release" /\ \A u \in Threads \ {c} : pc'[u] = pc[u]
  BY <1>1, <1>2 DEF Owns
<1>5. pos[c] \in Nat /\ k \in Cells /\ seq[k] = pos[c] + 1 /\ FullCell(k)
  BY <1>4, PopOwnerCell
<1>6. \A u \in Threads \ {c} : Owns(u) => Cell(pos[u]) # k
  BY <1>1, <1>4, OwnersApart DEF SlotExclusive
<1>7. \A x : (PushPending(x) => PushPending(x)') /\ (PopPending(x) => PopPending(x)')
  BY <1>1, <1>3 DEF PushPending, PopPending, Threads
<1> HIDE DEF k
<1>8. data'[k] = Raw /\ \A i \in Cells \ {k} : data'[i] = data[i]
  BY <1>1, <1>2, <1>5
<1>9. CellsInv'
  <2> SUFFICES ASSUME NEW i \in Cells  PROVE FreeCell(i)' \/ FullCell(i)'
    BY DEF CellsInv
  <2>1. CASE i = k
    <3>1. seq[i] - 1 = pos[c]
      BY <1>5, <2>1
    <3>2. \E d \in Consumers : pc'[d] = "release" /\ pos[d] = seq[i] - 1
      BY <1>4, <3>1
    <3> QED  BY <1>1, <1>5, <1>7, <2>1, <3>2 DEF FullCell
  <2>2. CASE i # k /\ FreeCell(i)
    <3>1. data'[i] = Raw \/ \E r \in Producers : pc'[r] = "publish" /\ pos[r] = seq[i]
      BY <1>1, <1>4, <1>8, <2>2 DEF FreeCell, Threads
    <3> QED  BY <1>1, <1>7, <2>2, <3>1 DEF FreeCell
  <2>3. CASE i # k /\ FullCell(i)
    <3>1. \/ data'[i] = log[seq[i]]
          \/ \E d \in Consumers : pc'[d] = "release" /\ pos[d] = seq[i] - 1
      BY <1>1, <1>4, <1>8, <2>3 DEF FullCell, Threads
    <3> QED  BY <1>1, <1>7, <2>3, <3>1 DEF FullCell
  <2> QED  BY <2>1, <2>2, <2>3 DEF IInv, CellsInv
<1>10. PushOwnersInv'
  <2>1. \A r \in Producers : pc'[r] = pc[r]
    BY <1>1, <1>4 DEF Threads
  <2>2. \A r \in Producers : Owns(r) => data'[Cell(pos[r])] = data[Cell(pos[r])]
    BY <1>1, <1>6, <1>8, PushOwnerCell DEF Threads
  <2> QED  BY <1>1, <1>3, <2>1, <2>2 DEF IInv, PushOwnersInv, Threads
<1>11. PopOwnersInv'
  <2>1. ASSUME NEW d \in Consumers, Owns(d)
        PROVE  data'[Cell(pos[d])] = IF pc'[d] = "move" THEN log[pos[d] + 1] ELSE Raw
    <3>1. CASE d = c
      BY <1>4, <1>8, <3>1 DEF k
    <3>2. CASE d # c
      <4>1. Cell(pos[d]) \in Cells /\ d \in Threads
        BY <2>1, PopOwnerCell DEF Threads
      <4>2. data'[Cell(pos[d])] = data[Cell(pos[d])] /\ pc'[d] = pc[d]
        BY <1>4, <1>6, <1>8, <2>1, <3>2, <4>1
      <4> QED  BY <2>1, <4>2 DEF IInv, PopOwnersInv
    <3> QED  BY <3>1, <3>2
  <2> QED  BY <1>1, <1>3, <2>1 DEF IInv, PopOwnersInv, Threads
<1>12. CasInv' /\ NeverOverfilled' /\ LostInv' /\ Len(log') = tail'
  BY <1>1, <1>4 DEF IInv, CasInv, NeverOverfilled, LostInv, Threads
<1> QED  BY <1>9, <1>10, <1>11, <1>12 DEF IInv

LEMMA IInvMoveThrows ==
  ASSUME IInv, NEW c \in Consumers, TypeOK', MoveThrows(c)
  PROVE  IInv'
<1>1. /\ c \in Threads /\ c \notin Producers
      /\ pc[c] = "move"
      /\ UNCHANGED <<head, tail, seq, data, pos, args, log, pushLost>>
      /\ popLost' = popLost \cup {pos[c]}
  BY ThreadsAssumption DEF MoveThrows, Threads
<1>2. pc' = [pc EXCEPT ![c] = "idle"] /\ pc \in [Threads -> PushLabels \cup PopLabels]
  BY DEF MoveThrows, Goto, IInv, TypeOK
<1>3. \A u \in Threads \ {c} : pc'[u] = pc[u] /\ Owns(u)' = Owns(u)
  BY <1>2 DEF Owns
<1>4. Owns(c) /\ ~Owns(c)' /\ pc'[c] = "idle"
  BY <1>1, <1>2 DEF Owns
<1>5. pos[c] \in Nat /\ seq[Cell(pos[c])] = pos[c] + 1
  BY <1>4, PopOwnerCell
<1>6. \A x : (PushPending(x) => PushPending(x)') /\ (PopPending(x) => PopPending(x)')
  BY <1>1, <1>3 DEF PushPending, PopPending, Threads
<1>7. CellsInv'
  <2> SUFFICES ASSUME NEW i \in Cells  PROVE FreeCell(i)' \/ FullCell(i)'
    BY DEF CellsInv
  <2>1. FreeCell(i) => FreeCell(i)'
    BY <1>1, <1>3, <1>6 DEF FreeCell, Threads
  <2>2. FullCell(i) => FullCell(i)'
    BY <1>1, <1>3, <1>6 DEF FullCell, Threads
  <2> QED  BY <2>1, <2>2 DEF IInv, CellsInv
<1>8. PopOwnersInv'
  <2>1. \A d \in Consumers \ {c} : Owns(d) => pos[d] # pos[c]
    BY <1>4 DEF IInv, PopOwnersInv
  <2> QED  BY <1>1, <1>3, <1>4, <2>1 DEF IInv, PopOwnersInv, Threads
<1>9. PushOwnersInv'
  BY <1>1, <1>3 DEF IInv, PushOwnersInv, Threads
<1>10. CasInv' /\ NeverOverfilled' /\ Len(log') = tail'
  BY <1>1, <1>3, <1>4 DEF IInv, CasInv, NeverOverfilled, Threads
<1>11. LostInv'
  BY <1>1, <1>4, <1>5 DEF IInv, LostInv, PopOwnersInv
<1> QED  BY <1>7, <1>8, <1>9, <1>10, <1>11 DEF IInv

LEMMA IInvRelease ==
  ASSUME IInv, NEW c \in Consumers, TypeOK', Release(c)
  PROVE  IInv'
<1> DEFINE k == Cell(pos[c])
<1>1. /\ c \in Threads /\ c \notin Producers
      /\ pc[c] = "release"
      /\ UNCHANGED <<head, tail, data, pos, args, log, pushLost, popLost>>
      /\ seq' = [seq EXCEPT ![k] = pos[c] + Capacity]
  BY ThreadsAssumption DEF Release, Threads, SeqAfterPop
<1>2. /\ pc'[c] \in {"idle", "load"}
      /\ \A u \in Threads \ {c} : pc'[u] = pc[u] /\ Owns(u)' = Owns(u)
  BY <1>1 DEF Release, Goto, IInv, TypeOK, Owns
<1>3. Owns(c) /\ ~Owns(c)'
  BY <1>1, <1>2 DEF Owns
<1>4. pos[c] \in Nat /\ k \in Cells /\ seq[k] = pos[c] + 1 /\ FullCell(k)
  BY <1>3, PopOwnerCell
<1>5. /\ head \in Nat /\ tail \in Nat /\ seq \in [Cells -> Nat] /\ head <= tail
      /\ pos[c] < head /\ data[k] = Raw
  BY <1>1, <1>3 DEF IInv, TypeOK, PopOwnersInv, NeverOverfilled
<1>6. \A u \in Threads \ {c} : Owns(u) => Cell(pos[u]) # k
  BY <1>1, <1>3, OwnersApart DEF SlotExclusive
<1> HIDE DEF k
<1>7. seq'[k] = pos[c] + Capacity /\ \A i \in Cells \ {k} : seq'[i] = seq[i]
  BY <1>1, <1>4, <1>5
<1>8. \A x : PushPending(x) => PushPending(x)'
  BY <1>1, <1>2 DEF PushPending, Threads
<1>9. \A x : x # pos[c] /\ PopPending(x) => PopPending(x)'
  BY <1>1, <1>2 DEF PopPending, Threads
<1>10. CellsInv'
  <2> SUFFICES ASSUME NEW i \in Cells  PROVE FreeCell(i)' \/ FullCell(i)'
    BY DEF CellsInv
  <2>0. seq[i] \in Nat /\ k = Cell(pos[c])
    BY <1>5 DEF k
  <2>1. CASE i = k
    <3>1. tail < pos[c] + 1 + Capacity
      BY <1>4 DEF FullCell
    <3>2. /\ head <= seq'[i] /\ seq'[i] < head + Capacity
          /\ tail <= seq'[i] + Capacity /\ ~(seq'[i] < tail)
      BY <1>4, <1>5, <1>7, <2>1, <3>1, CapacityFact
    <3>3. Cell(seq'[i]) = i
      BY <1>4, <1>7, <2>0, <2>1, CellFacts
    <3> QED  BY <1>1, <1>5, <2>1, <3>2, <3>3 DEF FreeCell
  <2>2. CASE i # k /\ FreeCell(i)
    <3>1. data[i] = Raw \/ \E r \in Producers : pc'[r] = "publish" /\ pos[r] = seq[i]
      BY <1>1, <1>2, <2>2 DEF FreeCell, Threads
    <3>2. (seq[i] < tail => PushPending(seq[i]))'
      BY <1>1, <1>7, <1>8, <2>2 DEF FreeCell
    <3> QED  BY <1>1, <1>7, <2>2, <3>1, <3>2 DEF FreeCell
  <2>3. CASE i # k /\ FullCell(i)
    <3>1. seq[i] - 1 # pos[c]
      BY <2>0, <2>3 DEF FullCell
    <3>2. \/ data[i] = log[seq[i]]
          \/ \E d \in Consumers : pc'[d] = "release" /\ pos[d] = seq[i] - 1
      BY <1>1, <1>2, <2>3, <3>1 DEF FullCell, Threads
    <3>3. (seq[i] <= head => PopPending(seq[i] - 1))'
      BY <1>1, <1>7, <1>9, <2>3, <3>1 DEF FullCell
    <3> QED  BY <1>1, <1>7, <2>3, <3>2, <3>3 DEF FullCell
  <2> QED  BY <2>1, <2>2, <2>3 DEF IInv, CellsInv
<1>11. PushOwnersInv'
  <2>1. \A r \in Producers : Owns(r)' =>
           Owns(r) /\ pc'[r] = pc[r] /\ seq'[Cell(pos[r])] = seq[Cell(pos[r])]
    BY <1>1, <1>2, <1>3, <1>6, <1>7, PushOwnerCell DEF Threads
  <2> QED  BY <1>1, <2>1 DEF IInv, PushOwnersInv
<1>12. PopOwnersInv'
  <2>1. \A d \in Consumers : Owns(d)' =>
           /\ d # c /\ Owns(d) /\ pc'[d] = pc[d]
           /\ seq'[Cell(pos[d])] = seq[Cell(pos[d])]
    BY <1>2, <1>3, <1>6, <1>7, PopOwnerCell DEF Threads
  <2> QED  BY <1>1, <2>1 DEF IInv, PopOwnersInv
<1>13. \A i \in Cells : seq[i] \in Nat /\ seq'[i] \in Nat /\ seq'[i] >= seq[i]
  BY <1>4, <1>5, <1>7, CapacityFact
<1>14. CasInv'
  <2>1. \A u \in Threads : pos[u] \in Nat /\ Cell(pos[u]) \in Cells
    BY CellFacts DEF IInv, TypeOK
  <2>2. \A r \in Producers : pc'[r] = "cas" => pc[r] = "cas"
    BY <1>1, <1>2 DEF Threads
  <2>3. \A d \in Consumers : pc'[d] = "cas" => pc[d] = "cas"
    BY <1>2 DEF Threads
  <2>4. \A r \in Producers : pc'[r] = "cas" => seq'[Cell(pos[r])] >= pos[r]
    BY <1>13, <2>1, <2>2 DEF IInv, CasInv, Threads
  <2>5. \A d \in Consumers : pc'[d] = "cas" => seq'[Cell(pos[d])] >= pos[d] + 1
    BY <1>13, <2>1, <2>3 DEF IInv, CasInv, Threads
  <2> QED  BY <1>1, <2>4, <2>5 DEF CasInv
<1>15. LostInv'
  <2>1. \A x \in popLost : Cell(x) \in Cells /\ Cell(x) # k
    <3> SUFFICES ASSUME NEW x \in popLost  PROVE Cell(x) \in Cells /\ Cell(x) # k
      OBVIOUS
    <3>1. x \in Nat /\ seq[Cell(x)] = x + 1 /\ x # pos[c]
      BY <1>3 DEF IInv, TypeOK, LostInv, PopOwnersInv
    <3> QED  BY <1>4, <3>1, CellFacts
  <2>2. \A x \in pushLost : Cell(x) \in Cells /\ Cell(x) # k
    <3> SUFFICES ASSUME NEW x \in pushLost, Cell(x) = k  PROVE FALSE
      BY CellFacts DEF IInv, TypeOK
    <3>1. x \in Nat /\ seq[Cell(x)] = x
      BY DEF IInv, TypeOK, LostInv
    <3>2. x = pos[c] + 1
      BY <1>4, <3>1
    <3> QED  BY <1>4, <3>1, <3>2, NextCell DEF k
  <2> QED  BY <1>1, <1>7, <2>1, <2>2 DEF IInv, LostInv
<1>16. NeverOverfilled' /\ Len(log') = tail'
  BY <1>1 DEF IInv, NeverOverfilled
<1> QED  BY <1>10, <1>11, <1>12, <1>14, <1>15, <1>16 DEF IInv

-----------------------------------------------------------------------------
(* The theorems.                                                           *)

LEMMA IInvNext == IInv /\ [Next]_vars => IInv'
<1> SUFFICES ASSUME IInv, [Next]_vars  PROVE IInv'
  OBVIOUS
<1>1. TypeOK'
  BY TypeNext DEF IInv
<1>2. ASSUME NEW p \in Producers, PushCall(p) \/ PushStep(p)  PROVE IInv'
  BY <1>1, <1>2, IInvPushSearch, IInvPushClaim, IInvConstruct, IInvConstructThrows, IInvPublish
     DEF PushStep
<1>3. ASSUME NEW c \in Consumers, PopCall(c) \/ PopStep(c)  PROVE IInv'
  BY <1>1, <1>3, IInvPopSearch, IInvPopClaim, IInvMoveOut, IInvMoveThrows, IInvRelease
     DEF PopStep
<1>4. CASE UNCHANGED vars
  BY <1>4 DEF vars, IInv, TypeOK, NeverOverfilled, CellsInv, FreeCell, FullCell, PushPending,
     PopPending, PushOwnersInv, PopOwnersInv, CasInv, LostInv, Owns
<1> QED  BY <1>2, <1>3, <1>4 DEF Next

\* The meaning of the sequence counters (IInv) is kept by every step of
\* try_emplace and try_pop, for any number of threads and any capacity.
THEOREM IInvCorrect == Spec => []IInv
<1>1. Init => IInv  BY IInvInit
<1>2. IInv /\ [Next]_vars => IInv'  BY IInvNext
<1> QED  BY <1>1, <1>2, PTL DEF Spec

\* The plain accesses to a cell's storage (placement new, move, destructor)
\* never race: the sequence protocol gives each cell one owner at a time.
THEOREM SlotExclusiveCorrect == Spec => []SlotExclusive
  BY IInvCorrect, OwnersApart, PTL

\* try_emplace never constructs over a live element and try_pop never moves
\* from anything but the element of its own ticket.
THEOREM SlotLifetimeCorrect == Spec => []SlotLifetime
<1>1. IInv => SlotLifetime
  BY DEF IInv, SlotLifetime, PushOwnersInv, PopOwnersInv, Owns
<1> QED  BY <1>1, IInvCorrect, PTL

\* head_ never passes tail_ and tail_ never laps head_.
THEOREM NeverOverfilledCorrect == Spec => []NeverOverfilled
<1>1. IInv => NeverOverfilled
  BY DEF IInv
<1> QED  BY <1>1, IInvCorrect, PTL

\* An element operation that throws inside a claimed cell freezes the cell:
\* head_ never passes a ticket whose construction threw and tail_ never gets
\* more than a lap past a ticket whose move assignment threw.
THEOREM ThrowBlocksRingCorrect == Spec => []ThrowBlocksRing
<1>1. IInv => ThrowBlocksRing
  <2> SUFFICES ASSUME IInv  PROVE ThrowBlocksRing
    OBVIOUS
  <2>1. ASSUME NEW x \in pushLost  PROVE head <= x
    <3>1. x \in Nat /\ seq[Cell(x)] = x /\ Cell(x) \in Cells
      BY CellFacts DEF IInv, TypeOK, LostInv
    <3>2. ~FullCell(Cell(x))
      <4> SUFFICES ASSUME x > 0, Cell(x - 1) = Cell(x)  PROVE FALSE
        BY <3>1 DEF FullCell
      <4>1. x - 1 \in Nat /\ (x - 1) + 1 = x
        BY <3>1
      <4> QED  BY <4>1, NextCell
    <3> QED  BY <3>1, <3>2 DEF IInv, CellsInv, FreeCell
  <2>2. ASSUME NEW x \in popLost  PROVE tail <= x + Capacity
    <3>1. x \in Nat /\ seq[Cell(x)] = x + 1 /\ Cell(x) \in Cells /\ tail \in Nat
      BY CellFacts DEF IInv, TypeOK, LostInv
    <3>2. ~FreeCell(Cell(x))
      BY <3>1, NextCell DEF FreeCell
    <3>3. tail < x + 1 + Capacity
      BY <3>1, <3>2 DEF IInv, CellsInv, FullCell
    <3> QED  BY <3>1, <3>3, CapacityFact
  <2> QED  BY <2>1, <2>2 DEF ThrowBlocksRing
<1> QED  BY <1>1, IInvCorrect, PTL

-----------------------------------------------------------------------------
(* What a false means.                                                     *)

\* A thread that looks at a cell has a ticket that is not ahead of the index.
TicketsInv ==
  /\ \A p \in Producers : pc[p] = "seq" => pos[p] <= tail
  /\ \A c \in Consumers : pc[c] = "seq" => pos[c] <= head

\* A load never returns more than the current value.
LEMMA SeenBound == ASSUME NEW t, NEW x \in Nat, NEW y \in Seen(t, x)  PROVE y <= x
  BY DEF Seen

LEMMA TicketsInit == Init => TicketsInv
  BY DEF Init, TicketsInv, Threads

\* Indices only grow, and a ticket is loaded from one.
LEMMA TicketsNext == TypeOK /\ TicketsInv /\ [Next]_vars => TicketsInv'
<1> SUFFICES ASSUME TypeOK, TicketsInv, [Next]_vars  PROVE TicketsInv'
  OBVIOUS
<1> USE DEF TypeOK, TicketsInv, Threads
<1>1. ASSUME NEW p \in Producers, PushCall(p) \/ PushStep(p)  PROVE TicketsInv'
  <2>1. CASE PushLoad(p)
    <3>1. PICK t \in Seen(p, tail) : pos' = [pos EXCEPT ![p] = t]
      BY <2>1 DEF PushLoad
    <3>2. t <= tail
      BY <3>1, SeenBound
    <3> QED  BY <2>1, <3>1, <3>2, ThreadsAssumption DEF PushLoad, Goto
  <2>2. CASE PushClaim(p)
    BY <2>2 DEF PushClaim, Goto
  <2>3. CASE PushCall(p) \/ PushSeesFree(p) \/ PushRejected(p) \/ PushBehind(p) \/ PushCasFails(p)
    BY <2>3 DEF PushCall, PushSeesFree, PushRejected, PushBehind, PushCasFails, Goto
  <2>4. CASE Construct(p) \/ ConstructThrows(p) \/ Publish(p)
    BY <2>4 DEF Construct, ConstructThrows, Publish, Goto
  <2> QED  BY <1>1, <2>1, <2>2, <2>3, <2>4 DEF PushStep
<1>2. ASSUME NEW c \in Consumers, PopCall(c) \/ PopStep(c)  PROVE TicketsInv'
  <2>1. CASE PopLoad(c)
    <3>1. PICK h \in Seen(c, head) : pos' = [pos EXCEPT ![c] = h]
      BY <2>1 DEF PopLoad
    <3>2. h <= head
      BY <3>1, SeenBound
    <3> QED  BY <2>1, <3>1, <3>2, ThreadsAssumption DEF PopLoad, Goto
  <2>2. CASE PopClaim(c)
    BY <2>2 DEF PopClaim, Goto
  <2>3. CASE PopCall(c) \/ PopSeesFull(c) \/ PopRejected(c) \/ PopBehind(c) \/ PopCasFails(c)
    BY <2>3 DEF PopCall, PopSeesFull, PopRejected, PopBehind, PopCasFails, Goto
  <2>4. CASE MoveOut(c) \/ MoveThrows(c) \/ Release(c)
    BY <2>4 DEF MoveOut, MoveThrows, Release, Goto
  <2> QED  BY <1>2, <2>1, <2>2, <2>3, <2>4 DEF PopStep
<1>3. CASE UNCHANGED vars
  BY <1>3 DEF vars
<1> QED  BY <1>1, <1>2, <1>3 DEF Next

\* Every ticket a thread looks at is one it may have read from the index.
LEMMA TicketsCorrect == Spec => []TicketsInv
  BY TicketsInit, TicketsNext, TypeCorrect, PTL DEF Spec

\* A cell whose sequence is behind a push ticket up to tail_: the ring is a
\* full lap ahead, or the pop of the lap before is not finished.
LEMMA BehindPush ==
  ASSUME IInv, NEW x \in Nat, x <= tail, seq[Cell(x)] < x
  PROVE  tail - head = Capacity \/ PopPending(x - Capacity)
<1>1. tail \in Nat /\ head \in Nat /\ Cell(x) \in Cells /\ seq[Cell(x)] \in Nat
  BY CellFacts DEF IInv, TypeOK
<1>2. head <= tail /\ tail <= head + Capacity
  BY DEF IInv, NeverOverfilled
<1>3. CASE FreeCell(Cell(x))
  <2>1. seq[Cell(x)] + Capacity <= x
    BY <1>1, <1>3, CellFacts DEF FreeCell
  <2> QED  BY <1>1, <1>2, <1>3, <2>1, CapacityFact DEF FreeCell
<1>4. CASE FullCell(Cell(x))
  <2> DEFINE s == seq[Cell(x)] - 1
  <2>1. s \in Nat /\ Cell(s) = Cell(x) /\ s < x
    BY <1>1, <1>4 DEF FullCell
  <2>2. s + Capacity <= x
    BY <2>1, CellFacts
  <2>3. x = s + Capacity /\ tail = s + Capacity
    BY <1>1, <1>4, <2>1, <2>2, CapacityFact DEF FullCell
  <2>4. CASE seq[Cell(x)] <= head
    <3>1. PopPending(s)
      BY <1>4, <2>4 DEF FullCell
    <3>2. s = x - Capacity
      BY <2>1, <2>3, CapacityFact
    <3> QED  BY <3>1, <3>2
  <2>5. CASE ~(seq[Cell(x)] <= head)
    BY <1>1, <1>2, <2>1, <2>3, <2>5, CapacityFact
  <2> QED  BY <2>4, <2>5
<1> QED  BY <1>1, <1>3, <1>4 DEF IInv, CellsInv

\* A cell whose sequence is behind a pop ticket up to head_: the ticket is
\* head_ itself, and its element was not claimed or is not published.
LEMMA BehindPop ==
  ASSUME IInv, NEW x \in Nat, x <= head, seq[Cell(x)] < x + 1
  PROVE  head = x /\ (tail = head \/ PushPending(head))
<1>1. tail \in Nat /\ head \in Nat /\ Cell(x) \in Cells /\ seq[Cell(x)] \in Nat
  BY CellFacts DEF IInv, TypeOK
<1>2. head <= tail
  BY DEF IInv, NeverOverfilled
<1>3. CASE FreeCell(Cell(x))
  <2>1. seq[Cell(x)] = x /\ head = x
    BY <1>1, <1>3 DEF FreeCell
  <2> QED  BY <1>1, <1>2, <1>3, <2>1 DEF FreeCell
<1>4. CASE FullCell(Cell(x))
  <2> DEFINE s == seq[Cell(x)] - 1
  <2>1. s \in Nat /\ Cell(s) = Cell(x) /\ s < x /\ tail < s + 1 + Capacity
    BY <1>1, <1>4, CapacityFact DEF FullCell
  <2>2. s + Capacity <= x
    BY <2>1, CellFacts
  <2> HIDE DEF s
  <2> QED  BY <1>1, <1>2, <2>1, <2>2, CapacityFact
<1> QED  BY <1>1, <1>3, <1>4 DEF IInv, CellsInv

\* A try_push or try_emplace whose loads are current returns false only when
\* Capacity elements wait, or a pop one lap earlier is unfinished, for every
\* number of threads and every capacity.
THEOREM PushRejectionCorrect == Spec => PushRejectionJustified
<1>1. ASSUME IInv, TicketsInv, [Next]_vars, NEW p \in Producers \ StaleThreads,
             pc[p] = "seq", pc'[p] = "idle"
      PROVE  tail - head = Capacity \/ PopPending(pos[p] - Capacity)
  <2>1. pos[p] \in Nat /\ Cell(pos[p]) \in Cells /\ pos[p] <= tail
    BY <1>1, CellFacts DEF IInv, TypeOK, Threads, TicketsInv
  <2>2. PushRejected(p)
    <3>1. pc \in [Threads -> PushLabels \cup PopLabels] /\ p \in Threads /\ p \notin Consumers
      BY <1>1, ThreadsAssumption DEF IInv, TypeOK, Threads
    <3>2. ASSUME NEW r \in Producers, PushCall(r) \/ PushStep(r)  PROVE PushRejected(p)
      BY <1>1, <3>1, <3>2 DEF PushStep, PushCall, PushLoad, PushSeesFree, PushRejected, PushBehind,
         PushClaim, PushCasFails, Construct, ConstructThrows, Publish, Goto
    <3>3. ASSUME NEW c \in Consumers, PopCall(c) \/ PopStep(c)  PROVE FALSE
      BY <1>1, <3>1, <3>3 DEF PopStep, PopCall, PopLoad, PopSeesFull, PopRejected, PopBehind,
         PopClaim, PopCasFails, MoveOut, MoveThrows, Release, Goto
    <3> QED  BY <1>1, <3>2, <3>3 DEF Next, vars
  <2>3. seq[Cell(pos[p])] \in Nat /\ seq[Cell(pos[p])] - pos[p] < 0
    BY <1>1, <2>1, <2>2 DEF IInv, TypeOK, PushRejected, SeqSeen
  <2> QED  BY <1>1, <2>1, <2>3, BehindPush
<1>2. IInv /\ TicketsInv /\ [Next]_vars =>
        [\A p \in Producers \ StaleThreads : pc[p] = "seq" /\ pc'[p] = "idle" =>
           tail - head = Capacity \/ PopPending(pos[p] - Capacity)]_vars
  BY <1>1
<1> QED  BY <1>2, IInvCorrect, TicketsCorrect, PTL DEF Spec, PushRejectionJustified

\* A try_pop whose loads are current returns false only when the ring is empty
\* or the push of its oldest element is unfinished.
THEOREM PopRejectionCorrect == Spec => PopRejectionJustified
<1>1. ASSUME IInv, TicketsInv, [Next]_vars, NEW c \in Consumers \ StaleThreads,
             pc[c] = "seq", pc'[c] = "idle"
      PROVE  head = pos[c] /\ (tail = head \/ PushPending(head))
  <2>1. pos[c] \in Nat /\ Cell(pos[c]) \in Cells /\ pos[c] <= head
    BY <1>1, CellFacts DEF IInv, TypeOK, Threads, TicketsInv
  <2>2. PopRejected(c)
    <3>1. pc \in [Threads -> PushLabels \cup PopLabels] /\ c \in Threads /\ c \notin Producers
      BY <1>1, ThreadsAssumption DEF IInv, TypeOK, Threads
    <3>2. ASSUME NEW r \in Producers, PushCall(r) \/ PushStep(r)  PROVE FALSE
      BY <1>1, <3>1, <3>2 DEF PushStep, PushCall, PushLoad, PushSeesFree, PushRejected, PushBehind,
         PushClaim, PushCasFails, Construct, ConstructThrows, Publish, Goto
    <3>3. ASSUME NEW d \in Consumers, PopCall(d) \/ PopStep(d)  PROVE PopRejected(c)
      BY <1>1, <3>1, <3>3 DEF PopStep, PopCall, PopLoad, PopSeesFull, PopRejected, PopBehind,
         PopClaim, PopCasFails, MoveOut, MoveThrows, Release, Goto
    <3> QED  BY <1>1, <3>2, <3>3 DEF Next, vars
  <2>3. seq[Cell(pos[c])] \in Nat /\ seq[Cell(pos[c])] - (pos[c] + 1) < 0
    BY <1>1, <2>1, <2>2 DEF IInv, TypeOK, PopRejected, SeqSeen
  <2> QED  BY <1>1, <2>1, <2>3, BehindPop
<1>2. IInv /\ TicketsInv /\ [Next]_vars =>
        [\A c \in Consumers \ StaleThreads : pc[c] = "seq" /\ pc'[c] = "idle" =>
           head = pos[c] /\ (tail = head \/ PushPending(head))]_vars
  BY <1>1
<1> QED  BY <1>2, IInvCorrect, TicketsCorrect, PTL DEF Spec, PopRejectionJustified

-----------------------------------------------------------------------------
(* The ring is a bounded FIFO.  What it holds is the log from head_ to     *)
(* tail_; a consumer's hand is the element of its ticket, until it has     *)
(* moved it out.                                                           *)

HandOf(c) == IF pc[c] = "move" THEN log[pos[c] + 1] ELSE Raw

\* The mapped queue is the window of the log, and hands are values or Raw.
LEMMA MappedState ==
  ASSUME IInv
  PROVE  /\ head \in Nat /\ tail - head \in Nat /\ tail = head + (tail - head) /\ log \in Seq(Values)
         /\ head + (tail - head) = Len(log) /\ tail - head <= Capacity
         /\ \A c \in Consumers : pc[c] = "move" => log[pos[c] + 1] \in Values /\ log[pos[c] + 1] # Raw
<1>1. /\ head \in Nat /\ tail \in Nat /\ log \in Seq(Values) /\ Len(log) = tail
      /\ head <= tail /\ tail <= head + Capacity
  BY DEF IInv, TypeOK, NeverOverfilled
<1>2. ASSUME NEW c \in Consumers, pc[c] = "move"
      PROVE  log[pos[c] + 1] \in Values /\ log[pos[c] + 1] # Raw
  <2>1. pos[c] \in Nat /\ pos[c] < head
    BY <1>2 DEF IInv, TypeOK, PopOwnersInv, Owns, Threads
  <2> QED  BY <1>1, <2>1, ValuesAssumption
<1> QED  BY <1>1, <1>2, CapacityFact

\* A step that moves neither index nor a hand is invisible to the FIFO.
LEMMA Invisible ==
  ASSUME UNCHANGED <<head, tail, log, ret>>, \A c \in Consumers : HandOf(c)' = HandOf(c)
  PROVE  UNCHANGED <<[i \in 1..(tail - head) |-> log[head + i]], [c \in Consumers |-> HandOf(c)], ret>>
  OBVIOUS

\* Each step of the ring is a step of the FIFO or invisible to it.
LEMMA FifoStep == IInv /\ [Next]_vars => [Fifo!Next]_(Fifo!fifoVars)
<1> SUFFICES ASSUME IInv, [Next]_vars  PROVE [Fifo!Next]_(Fifo!fifoVars)
  OBVIOUS
<1> DEFINE q == [i \in 1..(tail - head) |-> log[head + i]]
           hand == [c \in Consumers |-> HandOf(c)]
<1>a. q = Window(log, head, tail - head)
  BY DEF Window
<1>b. pc \in [Threads -> PushLabels \cup PopLabels] /\ ret \in [Consumers -> Values \cup {Raw}] /\ pos \in [Threads -> Nat]
  BY DEF IInv, TypeOK
<1>c. Consumers \subseteq Threads /\ Producers \subseteq Threads
  BY DEF Threads
<1>1. ASSUME NEW p \in Producers, PushClaim(p)  PROVE Fifo!Next
  <2>1. args[p][1] \in Values /\ pos[p] = tail
    BY <1>1 DEF PushClaim, IInv, TypeOK
  <2>2. tail - head < Capacity
    <3>1. FreeCell(Cell(tail)) /\ seq[Cell(tail)] = tail /\ tail \in Nat
      BY <1>1, <2>1, PushClaimCell DEF PushClaim
    <3> QED  BY <3>1, MappedState, CapacityFact DEF FreeCell
  <2>3. Len(q) = tail - head
    BY <1>a, MappedState, WindowSeq
  <2>4. q' = Append(q, args[p][1])
    <3>1. tail' - head' = (tail - head) + 1 /\ log' = Append(log, args[p][1]) /\ head' = head
      BY <1>1, MappedState DEF PushClaim
    <3>2. q' = Window(Append(log, args[p][1]), head, (tail - head) + 1)
      BY <3>1 DEF Window
    <3>3. Window(Append(log, args[p][1]), head, (tail - head) + 1)
            = Append(Window(log, head, tail - head), args[p][1])
      <4> DEFINE n == tail - head
                 v == args[p][1]
      <4>1. log \in Seq(Values) /\ head \in Nat /\ n \in Nat /\ head + n = Len(log) /\ v \in Values
        BY <2>1, MappedState, Zenon
      <4> HIDE DEF n, v
      <4>2. Window(Append(log, v), head, n + 1) = Append(Window(log, head, n), v)
        BY <4>1, WindowPush
      <4> QED  BY <4>2 DEF n, v
    <3> QED  BY <3>2, <3>3, <1>a, Zenon
  <2>5. hand' = hand /\ ret' = ret
    <3>1. ASSUME NEW c \in Consumers  PROVE HandOf(c)' = HandOf(c)
      <4>1. c # p /\ c \in Threads
        BY ThreadsAssumption DEF Threads
      <4>2. pc'[c] = pc[c] /\ pos' = pos
        BY <1>1, <1>b, <1>c, <4>1 DEF PushClaim, Goto
      <4>3. pc[c] = "move" => log'[pos[c] + 1] = log[pos[c] + 1]
        <5> SUFFICES ASSUME pc[c] = "move"  PROVE log'[pos[c] + 1] = log[pos[c] + 1]
          OBVIOUS
        <5>1. pos[c] \in Nat /\ pos[c] < head
          BY DEF IInv, TypeOK, PopOwnersInv, Owns, Threads
        <5> QED  BY <1>1, <5>1, MappedState DEF PushClaim
      <4> QED  BY <4>2, <4>3 DEF HandOf
    <3> QED  BY <1>1, <3>1 DEF PushClaim
  <2>6. Fifo!Enqueue
    BY <2>1, <2>2, <2>3, <2>4, <2>5 DEF Fifo!Enqueue, HandOf
  <2> QED  BY <2>6 DEF Fifo!Next
<1>2. ASSUME NEW c \in Consumers, PopClaim(c)  PROVE Fifo!Next
  <2>1. tail - head > 0 /\ pos[c] = head
    <3>1. FullCell(Cell(head)) /\ seq[Cell(head)] = head + 1
      BY <1>2, PopClaimCell DEF PopClaim
    <3> QED  BY <1>2, <3>1, MappedState DEF FullCell, PopClaim
  <2>2. q # <<>> /\ Head(q) = log[head + 1]
    BY <1>a, <2>1, MappedState, WindowSeq
  <2>3. q' = Tail(q)
    <3>1. tail' - head' = (tail - head) - 1 /\ log' = log /\ head' = head + 1
      BY <1>2, MappedState DEF PopClaim
    <3>2. q' = Window(log, head + 1, (tail - head) - 1)
      BY <3>1 DEF Window
    <3>3. Window(log, head + 1, (tail - head) - 1) = Tail(Window(log, head, tail - head))
      <4>1. log \in Seq(Values) /\ head \in Nat /\ tail - head \in Nat /\ head + (tail - head) <= Len(log)
        BY MappedState
      <4> QED  BY <2>1, <4>1, WindowPop, Zenon
    <3> QED  BY <3>2, <3>3, <1>a, Zenon
  <2>4. hand[c] = Raw /\ hand' = [hand EXCEPT ![c] = log[head + 1]]
    <3>1. pc' = [pc EXCEPT ![c] = "move"] /\ pos' = pos /\ log' = log /\ pc[c] = "cas"
      BY <1>2 DEF PopClaim, Goto
    <3> QED  BY <1>b, <1>c, <2>1, <3>1 DEF HandOf
  <2>5. Fifo!Dequeue(c)
    BY <1>2, <2>2, <2>3, <2>4 DEF Fifo!Dequeue, HandOf, PopClaim
  <2> QED  BY <2>5 DEF Fifo!Next
<1>3. ASSUME NEW c \in Consumers, MoveOut(c)  PROVE Fifo!Next
  <2>1. hand[c] # Raw /\ data[Cell(pos[c])] = hand[c]
    BY <1>3, MappedState DEF MoveOut, IInv, PopOwnersInv, Owns, HandOf
  <2>2. hand' = [hand EXCEPT ![c] = Raw]
    BY <1>3, <1>b, <1>c DEF MoveOut, Goto, HandOf
  <2>3. ret' = [ret EXCEPT ![c] = hand[c]] /\ q' = q
    BY <1>3, <2>1 DEF MoveOut
  <2>4. Fifo!Return(c)
    BY <2>1, <2>2, <2>3 DEF Fifo!Return, HandOf
  <2> QED  BY <2>4 DEF Fifo!Next
<1>4. ASSUME NEW c \in Consumers, MoveThrows(c)  PROVE Fifo!Next
  <2>1. hand[c] # Raw
    BY <1>4, MappedState DEF MoveThrows, HandOf
  <2>2. hand' = [hand EXCEPT ![c] = Raw] /\ ret' = ret /\ q' = q
    BY <1>4, <1>b, <1>c DEF MoveThrows, Goto, HandOf
  <2>3. Fifo!Fail(c)
    BY <2>1, <2>2 DEF Fifo!Fail, HandOf
  <2> QED  BY <2>3 DEF Fifo!Next
<1>5. ASSUME NEW p \in Producers, PushCall(p) \/ PushStep(p), ~PushClaim(p)  PROVE UNCHANGED <<q, hand, ret>>
  <2>1. UNCHANGED <<head, tail, log, ret>>
    BY <1>5 DEF PushStep, PushCall, PushLoad, PushSeesFree, PushRejected, PushBehind,
         PushCasFails, Construct, ConstructThrows, Publish
  <2>2. \A c \in Consumers : pc'[c] = pc[c] /\ pos'[c] = pos[c]
    BY <1>5, <1>b, <1>c, ThreadsAssumption DEF PushStep, PushCall, PushLoad, PushSeesFree, PushRejected, PushBehind,
         PushCasFails, Construct, ConstructThrows, Publish, Goto
  <2> QED  BY <2>1, <2>2, Invisible DEF HandOf
<1>6. ASSUME NEW c \in Consumers, PopCall(c) \/ PopStep(c),
             ~PopClaim(c), ~MoveOut(c), ~MoveThrows(c)
      PROVE  UNCHANGED <<q, hand, ret>>
  <2>1. UNCHANGED <<head, tail, log, ret>>
    BY <1>6 DEF PopStep, PopCall, PopLoad, PopSeesFull, PopRejected, PopBehind, PopCasFails, Release
  <2>2. pc[c] # "move" /\ pc'[c] # "move"
    BY <1>6, <1>b, <1>c DEF PopStep, PopCall, PopLoad, PopSeesFull, PopRejected, PopBehind, PopCasFails, Release, Goto
  <2>3. \A d \in Consumers \ {c} : pc'[d] = pc[d] /\ pos'[d] = pos[d]
    BY <1>6, <1>b, <1>c DEF PopStep, PopCall, PopLoad, PopSeesFull, PopRejected, PopBehind, PopCasFails, Release, Goto
  <2> QED  BY <2>1, <2>2, <2>3, Invisible DEF HandOf
<1>7. CASE UNCHANGED vars
  BY <1>7 DEF vars, Fifo!fifoVars
<1>8. ASSUME NEW p \in Producers, PushCall(p) \/ PushStep(p)  PROVE [Fifo!Next]_(Fifo!fifoVars)
  <2>1. CASE PushClaim(p)
    BY <1>1, <2>1
  <2>2. CASE ~PushClaim(p)
    BY <1>5, <1>8, <2>2 DEF Fifo!fifoVars, HandOf
  <2> QED  BY <2>1, <2>2
<1>9. ASSUME NEW c \in Consumers, PopCall(c) \/ PopStep(c)  PROVE [Fifo!Next]_(Fifo!fifoVars)
  <2>1. CASE PopClaim(c) \/ MoveOut(c) \/ MoveThrows(c)
    BY <1>2, <1>3, <1>4, <2>1
  <2>2. CASE ~PopClaim(c) /\ ~MoveOut(c) /\ ~MoveThrows(c)
    BY <1>6, <1>9, <2>2 DEF Fifo!fifoVars, HandOf
  <2> QED  BY <2>1, <2>2
<1> QED  BY <1>7, <1>8, <1>9 DEF Next

\* For every number of threads, every capacity, with stale loads and throwing
\* elements: mpmc_ring_buffer implements the bounded FIFO, so that elements
\* are accepted up to the capacity only, leave in the order of their tickets,
\* and each goes to one consumer unaltered.
THEOREM FifoCorrect == Spec => ImplementsFifo
<1>1. Init => Fifo!Init
  BY DEF Init, Fifo!Init, Threads
<1> QED  BY <1>1, FifoStep, IInvCorrect, PTL DEF Spec, ImplementsFifo, Fifo!Spec
=============================================================================
