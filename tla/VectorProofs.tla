----------------------------- MODULE VectorProofs -----------------------------
(***************************************************************************)
(* Proofs about Vector, for any number of vectors and elements.  A vector  *)
(* that is not broken is the one vector of its capacity that holds its     *)
(* elements in the first slots and nothing in the others, and every member *)
(* makes of it the one that holds what a std::vector would.                *)
(***************************************************************************)
EXTENDS Vector, Arithmetic, FiniteSetTheorems, SequenceTheorems

USE ValueAssumption, BoundsAssumption

-----------------------------------------------------------------------------
(* The inductive invariant.                                                *)

Cells == Values \cup {Dead}

Buffers(c) == [0..(c - 1) -> Cells]

\* A buffer of c slots with the elements s, and the vector that owns it.
Buffer(c, s) == [i \in 0..(c - 1) |-> IF i < Len(s) THEN s[i + 1] ELSE Dead]
Vec(c, s) == [slots |-> Buffer(c, s), size |-> Len(s)]

\* A vector with the fields r holds the elements s.
Holds(r, s) == /\ s \in Seq(Values)
               /\ \E c \in Nat : Len(s) <= c /\ r = Vec(c, s)

TypeOK == /\ obj = [o \in Objects |-> obj[o]]
          /\ model = [o \in Objects |-> model[o]]
          /\ broken \subseteq Objects

HoldInv == \A o \in Usable : Holds(obj[o], model[o])

IInv == TypeOK /\ HoldInv

-----------------------------------------------------------------------------
(* The loops, on buffers of c slots.                                       *)

LEMMA BufferType ==
  ASSUME NEW c \in Nat, NEW s \in Seq(Values)
  PROVE  Buffer(c, s) \in Buffers(c)
  BY DEF Buffer, Buffers, Cells

\* capacity().
LEMMA CapFact ==
  ASSUME NEW c \in Nat, NEW s
  PROVE  Cap(Vec(c, s)) = c
<1>1. DOMAIN Vec(c, s).slots = 0..(c - 1)
  BY DEF Vec, Buffer
<1>2. Cardinality(0..(c - 1)) = c
  BY FS_Interval
<1> QED  BY <1>1, <1>2 DEF Cap

\* destroy_n of live elements leaves their slots dead and all others alone.
LEMMA DestroyRangeFact ==
  ASSUME NEW c \in Nat, NEW b \in Buffers(c),
         NEW first \in Nat, NEW last \in Nat, first <= last, last <= c,
         \A i \in first..(last - 1) : b[i] \in Values
  PROVE  DestroyRange(b, first, last) =
           [i \in 0..(c - 1) |-> IF i \in first..(last - 1) THEN Dead ELSE b[i]]
<1> DEFINE n == last - first
           G(k) == [i \in 0..(c - 1) |-> IF i \in first..(first + k - 1) THEN Dead ELSE b[i]]
           g == [k \in 0..n |-> G(k)]
           Run(f) == f = [k \in 0..n |-> IF k = 0 THEN b ELSE Destroy(f[k - 1], first + k - 1)]
           after == CHOOSE f : Run(f)
<1>0. n \in Nat
  OBVIOUS
<1>1. G(0) = b
  BY DEF Buffers
<1>2. ASSUME NEW k \in 1..n  PROVE G(k) = Destroy(G(k - 1), first + k - 1)
  <2>1. G(k - 1)[first + k - 1] \in Values
    OBVIOUS
  <2>2. Destroy(G(k - 1), first + k - 1) = [G(k - 1) EXCEPT ![first + k - 1] = Dead]
    BY <2>1 DEF Destroy
  <2>3. [G(k - 1) EXCEPT ![first + k - 1] = Dead] = G(k)
    <3>1. first + k - 1 \in 0..(c - 1)
      OBVIOUS
    <3>2. \A i \in 0..(c - 1) : i \in first..(first + k - 1) <=> i \in first..(first + (k - 1) - 1) \/ i = first + k - 1
      OBVIOUS
    <3> QED  BY <3>1, <3>2
  <2> QED  BY <2>2, <2>3
<1>5. DestroyRange(b, first, last) = after[n]
  BY DEF DestroyRange
<1> HIDE DEF G
<1>3. Run(g)
  BY <1>1, <1>2
<1>4. Run(after)
  BY <1>3
<1> HIDE DEF after
<1>6. SameLoop(n, after, g)
  BY <1>0, <1>1, <1>2, <1>4 DEF SameLoop
<1> HIDE DEF n
<1>7. after[n] = g[n]
  BY <1>0, <1>6, LoopUnique
<1> QED  BY <1>0, <1>5, <1>7 DEF G, n

\* Construction in dead slots, or over trivial elements.
LEMMA PlaceFact ==
  ASSUME NEW c \in Nat, NEW b \in Buffers(c), NEW j \in 0..(c - 1), NEW v \in Values,
         trivial \/ b[j] = Dead
  PROVE  Place(b, j, v) = [i \in 0..(c - 1) |-> IF i = j THEN v ELSE b[i]]
  BY DEF Place, Buffers

Filled(c, b, first, last, v) == [i \in 0..(c - 1) |-> IF i \in first..(last - 1) THEN v ELSE b[i]]

LEMMA FillRangeFact ==
  ASSUME NEW c \in Nat, NEW b \in Buffers(c), NEW v \in Values,
         NEW first \in Nat, NEW last \in Nat, first <= last, last <= c,
         \A i \in first..(last - 1) : b[i] = Dead
  PROVE  FillRange(b, first, last, v) = Filled(c, b, first, last, v)
<1> DEFINE n == last - first
           G(k) == [i \in 0..(c - 1) |-> IF i \in first..(first + k - 1) THEN v ELSE b[i]]
           g == [k \in 0..n |-> G(k)]
           Run(f) == f = [k \in 0..n |-> IF k = 0 THEN b ELSE Place(f[k - 1], first + k - 1, v)]
           after == CHOOSE f : Run(f)
<1>0. n \in Nat
  OBVIOUS
<1>1. G(0) = b
  BY DEF Buffers
<1>2. ASSUME NEW k \in 1..n  PROVE G(k) = Place(G(k - 1), first + k - 1, v)
  <2>1. first + k - 1 \in 0..(c - 1) /\ G(k - 1)[first + k - 1] = Dead
    OBVIOUS
  <2>2. G(k - 1) \in Buffers(c)
    BY DEF Buffers, Cells
  <2>3. \A i \in 0..(c - 1) : i \in first..(first + k - 1) <=> i \in first..(first + (k - 1) - 1) \/ i = first + k - 1
    OBVIOUS
  <2>4. G(k) = [i \in 0..(c - 1) |-> IF i = first + k - 1 THEN v ELSE G(k - 1)[i]]
    BY <2>1, <2>3
  <2> HIDE DEF G
  <2> SUFFICES ASSUME NEW x, x = G(k - 1), NEW j, j = first + k - 1  PROVE G(k) = Place(x, j, v)
    OBVIOUS
  <2>5. x \in Buffers(c) /\ j \in 0..(c - 1) /\ x[j] = Dead
    BY <2>1, <2>2
  <2> QED  BY <2>4, <2>5, PlaceFact
<1>3. FillRange(b, first, last, v) = after[n]
  BY DEF FillRange
<1> HIDE DEF G
<1>4. Run(g)
  BY <1>1, <1>2
<1>5. Run(after)
  BY <1>4
<1> HIDE DEF after
<1>6. SameLoop(n, after, g)
  BY <1>0, <1>1, <1>2, <1>5 DEF SameLoop
<1>8. first + n - 1 = last - 1
  OBVIOUS
<1> HIDE DEF n
<1>7. after[n] = g[n]
  BY <1>0, <1>6, LoopUnique
<1> QED  BY <1>0, <1>3, <1>7, <1>8 DEF G, Filled

\* The loop of the constructors and assignments from a list.
LEMMA PlaceAllFact ==
  ASSUME NEW c \in Nat, NEW s \in Seq(Values), Len(s) <= c, NEW r, r.slots = Buffer(c, <<>>)
  PROVE  PlaceAll(r, s) = Vec(c, s)
<1> DEFINE n == Len(s)
           b == Buffer(c, <<>>)
           G(k) == [i \in 0..(c - 1) |-> IF i < k THEN s[i + 1] ELSE Dead]
           g == [k \in 0..n |-> G(k)]
           Run(f) == f = [k \in 0..n |-> IF k = 0 THEN r.slots ELSE Place(f[k - 1], k - 1, s[k])]
           after == CHOOSE f : Run(f)
<1>0. n \in Nat
  OBVIOUS
<1>1. G(0) = b
  BY DEF Buffer
<1>2. ASSUME NEW k \in 1..n  PROVE G(k) = Place(G(k - 1), k - 1, s[k])
  <2>1. k - 1 \in 0..(c - 1) /\ G(k - 1)[k - 1] = Dead /\ s[k] \in Values
    OBVIOUS
  <2>2. G(k - 1) \in Buffers(c)
    BY DEF Buffers, Cells
  <2>4. G(k) = [i \in 0..(c - 1) |-> IF i = k - 1 THEN s[k] ELSE G(k - 1)[i]]
    BY <2>1
  <2> HIDE DEF G
  <2> SUFFICES ASSUME NEW x, x = G(k - 1), NEW j, j = k - 1  PROVE G(k) = Place(x, j, s[k])
    OBVIOUS
  <2>5. x \in Buffers(c) /\ j \in 0..(c - 1) /\ x[j] = Dead
    BY <2>1, <2>2
  <2> QED  BY <2>1, <2>4, <2>5, PlaceFact
<1>3. PlaceAll(r, s) = [slots |-> after[n], size |-> n]
  BY DEF PlaceAll
<1> HIDE DEF G, b
<1>4. Run(g)
  BY <1>1, <1>2 DEF b
<1>5. Run(after)
  BY <1>4
<1> HIDE DEF after
<1>6. SameLoop(n, after, g)
  BY <1>0, <1>1, <1>2, <1>5 DEF SameLoop, b
<1>8. G(n) = Buffer(c, s)
  BY DEF G, Buffer
<1> HIDE DEF n
<1>7. after[n] = g[n]
  BY <1>0, <1>6, LoopUnique
<1> QED  BY <1>0, <1>3, <1>7, <1>8 DEF Vec, n

Moved(c, b, from, to) ==
  [i \in 0..(c - 1) |-> IF i = to THEN b[from] ELSE IF i = from THEN Dead ELSE b[i]]

\* One turn of a shifting loop moves an element to a dead slot.
LEMMA MoveSlotFact ==
  ASSUME NEW c \in Nat, NEW b \in Buffers(c), NEW from \in 0..(c - 1), NEW to \in 0..(c - 1),
         from # to, b[from] \in Values, b[to] = Dead
  PROVE  MoveSlot(b, from, to) = Moved(c, b, from, to)
<1> DEFINE p == [i \in 0..(c - 1) |-> IF i = to THEN b[from] ELSE b[i]]
<1>1. Place(b, to, b[from]) = p
  BY PlaceFact DEF Buffers
<1>2. Destroy(p, from) = [i \in 0..(c - 1) |-> IF i = from THEN Dead ELSE p[i]]
  BY DEF Destroy, Buffers
<1> QED  BY <1>1, <1>2 DEF MoveSlot, Moved

ShiftedRight(c, b, last, n) ==
  [i \in 0..(c - 1) |-> IF i \in (last - n + 1)..last THEN b[i - 1]
                        ELSE IF i = last - n THEN Dead ELSE b[i]]

\* shift_right's loop: n elements move up by one slot, and theirs is dead.
LEMMA ShiftRightFact ==
  ASSUME NEW c \in Nat, NEW b \in Buffers(c), NEW last \in 0..(c - 1), NEW n \in 0..last,
         \A i \in (last - n)..(last - 1) : b[i] \in Values, b[last] = Dead
  PROVE  ShiftRightSteps(b, last, n) = ShiftedRight(c, b, last, n)
<1> DEFINE G(k) == [i \in 0..(c - 1) |-> IF i \in (last - k + 1)..last THEN b[i - 1]
                                         ELSE IF i = last - k THEN Dead ELSE b[i]]
           g == [k \in 0..n |-> G(k)]
           Run(f) == f = [k \in 0..n |-> IF k = 0 THEN b ELSE MoveSlot(f[k - 1], last - k, last - k + 1)]
           after == CHOOSE f : Run(f)
<1>0. n \in Nat
  OBVIOUS
<1>1. G(0) = b
  BY DEF Buffers
<1>2. ASSUME NEW k \in 1..n  PROVE G(k) = MoveSlot(G(k - 1), last - k, last - k + 1)
  <2>1. last - k \in 0..(c - 1) /\ last - k + 1 \in 0..(c - 1) /\ last - k # last - k + 1
    OBVIOUS
  <2>2. G(k - 1)[last - k] = b[last - k] /\ b[last - k] \in Values /\ G(k - 1)[last - k + 1] = Dead
    OBVIOUS
  <2>3. G(k - 1) \in Buffers(c)
    <3> SUFFICES ASSUME NEW i \in 0..(c - 1), i \in (last - (k - 1) + 1)..last  PROVE b[i - 1] \in Cells
      BY DEF Buffers, Cells
    <3> QED  BY i - 1 \in 0..(c - 1) DEF Buffers
  <2>4. ASSUME NEW i \in 0..(c - 1)
        PROVE  G(k)[i] = IF i = last - k + 1 THEN b[last - k] ELSE IF i = last - k THEN Dead ELSE G(k - 1)[i]
    OBVIOUS
  <2>5. G(k) = [i \in 0..(c - 1) |-> IF i = last - k + 1 THEN b[last - k]
                                     ELSE IF i = last - k THEN Dead ELSE G(k - 1)[i]]
    BY <2>4
  <2> HIDE DEF G
  <2> SUFFICES ASSUME NEW x, x = G(k - 1), NEW from, from = last - k, NEW to, to = last - k + 1
               PROVE  G(k) = MoveSlot(x, from, to)
    OBVIOUS
  <2>6. /\ x \in Buffers(c) /\ from \in 0..(c - 1) /\ to \in 0..(c - 1)
        /\ from # to /\ x[from] = b[from] /\ x[from] \in Values /\ x[to] = Dead
    BY <2>1, <2>2, <2>3
  <2>7. G(k) = Moved(c, x, from, to)
    BY <2>5, <2>6 DEF Moved
  <2> QED  BY <2>6, <2>7, MoveSlotFact
<1>3. ShiftRightSteps(b, last, n) = after[n]
  BY DEF ShiftRightSteps
<1> HIDE DEF G
<1>4. Run(g)
  BY <1>1, <1>2
<1>5. Run(after)
  BY <1>4
<1> HIDE DEF after
<1>6. SameLoop(n, after, g)
  BY <1>0, <1>1, <1>2, <1>5 DEF SameLoop
<1>7. after[n] = g[n]
  BY <1>0, <1>6, LoopUnique
<1> QED  BY <1>0, <1>3, <1>7 DEF G, ShiftedRight

ShiftedLeft(c, b, first, d, n) ==
  [i \in 0..(c - 1) |-> IF i \in (first - d)..(first - d + n - 1) THEN b[i + d]
                        ELSE IF i \in (first - d + n)..(first + n - 1) THEN Dead ELSE b[i]]

\* shift_left's loop: n elements move down by d slots into dead ones.
LEMMA ShiftLeftFact ==
  ASSUME NEW c \in Nat, NEW b \in Buffers(c), NEW d \in Nat \ {0}, NEW first \in Nat, d <= first,
         NEW n \in Nat, first + n <= c,
         \A i \in (first - d)..(first - 1) : b[i] = Dead,
         \A i \in first..(first + n - 1) : b[i] \in Values
  PROVE  ShiftLeftSteps(b, first, d, n) = ShiftedLeft(c, b, first, d, n)
<1> DEFINE G(k) == [i \in 0..(c - 1) |-> IF i \in (first - d)..(first - d + k - 1) THEN b[i + d]
                                         ELSE IF i \in (first - d + k)..(first + k - 1) THEN Dead ELSE b[i]]
           g == [k \in 0..n |-> G(k)]
           Run(f) == f = [k \in 0..n |-> IF k = 0 THEN b
                                         ELSE MoveSlot(f[k - 1], first + k - 1, first + k - 1 - d)]
           after == CHOOSE f : Run(f)
<1>1. G(0) = b
  BY DEF Buffers
<1>2. ASSUME NEW k \in 1..n  PROVE G(k) = MoveSlot(G(k - 1), first + k - 1, first + k - 1 - d)
  <2> DEFINE from == first + k - 1
             to == first + k - 1 - d
  <2>1. from \in 0..(c - 1) /\ to \in 0..(c - 1) /\ from # to
    OBVIOUS
  <2>2. G(k - 1)[from] = b[from] /\ b[from] \in Values /\ G(k - 1)[to] = Dead
    OBVIOUS
  <2>3. G(k - 1) \in Buffers(c)
    <3> SUFFICES ASSUME NEW i \in 0..(c - 1), i \in (first - d)..(first - d + (k - 1) - 1)  PROVE b[i + d] \in Cells
      BY DEF Buffers, Cells
    <3> QED  BY i + d \in 0..(c - 1) DEF Buffers
  <2>4. ASSUME NEW i \in 0..(c - 1)
        PROVE  G(k)[i] = IF i = to THEN b[from] ELSE IF i = from THEN Dead ELSE G(k - 1)[i]
    <3>1. to + d = from
      OBVIOUS
    <3> QED  BY <3>1
  <2>5. G(k) = [i \in 0..(c - 1) |-> IF i = to THEN b[from] ELSE IF i = from THEN Dead ELSE G(k - 1)[i]]
    BY <2>4
  <2> HIDE DEF G, from, to
  <2> SUFFICES ASSUME NEW x, x = G(k - 1)  PROVE G(k) = MoveSlot(x, from, to)
    BY DEF from, to
  <2>6. x \in Buffers(c) /\ x[from] = b[from] /\ x[from] \in Values /\ x[to] = Dead
    BY <2>1, <2>2, <2>3
  <2>7. G(k) = Moved(c, x, from, to)
    BY <2>5, <2>6 DEF Moved
  <2> QED  BY <2>1, <2>6, <2>7, MoveSlotFact
<1>3. ShiftLeftSteps(b, first, d, n) = after[n]
  BY DEF ShiftLeftSteps
<1> HIDE DEF G
<1>4. Run(g)
  BY <1>1, <1>2
<1>5. Run(after)
  BY <1>4
<1> HIDE DEF after
<1>6. SameLoop(n, after, g)
  BY <1>1, <1>2, <1>5 DEF SameLoop
<1>7. after[n] = g[n]
  BY <1>6, LoopUnique
<1> QED  BY <1>3, <1>7 DEF G, ShiftedLeft


-----------------------------------------------------------------------------
(* Growth.                                                                 *)

LEMMA NoBufferFact == NoBuffer = Vec(0, <<>>)
  BY DEF NoBuffer, Vec, Buffer, Alloc

\* reallocate and grow_to keep the elements.
LEMMA ReallocateFact ==
  ASSUME NEW c \in Nat, NEW s \in Seq(Values), Len(s) <= c, NEW n \in Nat, Len(s) <= n
  PROVE  Reallocate(Vec(c, s), n) = Vec(n, s)
<1>1. Len(s) \in Nat
  OBVIOUS
<1>2. ASSUME NEW i \in 0..(n - 1), i < Len(s)  PROVE Buffer(c, s)[i] = s[i + 1]
  BY <1>1, <1>2 DEF Buffer
<1>3. [i \in 0..(n - 1) |-> IF i < Len(s) THEN Buffer(c, s)[i] ELSE Dead] = Buffer(n, s)
  BY <1>2 DEF Buffer
<1>4. Vec(c, s).size = Len(s) /\ Vec(c, s).slots = Buffer(c, s)
  BY DEF Vec
<1>5. Reallocate(Vec(c, s), n) = [Vec(c, s) EXCEPT !.slots = Buffer(n, s)]
  BY <1>3, <1>4 DEF Reallocate
<1> QED  BY <1>5 DEF Vec

LEMMA GrowToFact ==
  ASSUME NEW c \in Nat, NEW s \in Seq(Values), Len(s) <= c, NEW n \in Nat
  PROVE  \E d \in Nat : c <= d /\ n <= d /\ GrowTo(Vec(c, s), n) = Vec(d, s)
<1>0. Len(s) \in Nat
  OBVIOUS
<1>1. Cap(Vec(c, s)) = c
  BY CapFact
<1>2. CASE n <= c
  BY <1>1, <1>2 DEF GrowTo
<1>3. CASE ~(n <= c)
  <2>1. Len(s) <= n /\ c <= n
    BY <1>0, <1>3
  <2>2. Reallocate(Vec(c, s), n) = Vec(n, s)
    BY <2>1, ReallocateFact
  <2>3. GrowTo(Vec(c, s), n) = Vec(n, s)
    BY <1>1, <1>3, <2>2 DEF GrowTo
  <2> QED  BY <2>1, <2>3
<1> QED  BY <1>2, <1>3

\* A new buffer has exactly the capacity asked for.
LEMMA GrowNewFact ==
  ASSUME NEW n \in Nat
  PROVE  GrowTo(NoBuffer, n) = Vec(n, <<>>)
<1>1. Cap(NoBuffer) = 0
  BY CapFact, NoBufferFact
<1>2. Buffer(n, <<>>) = [i \in 0..(n - 1) |-> Dead]
  BY DEF Buffer
<1>3. Reallocate(NoBuffer, n) = [NoBuffer EXCEPT !.slots = [i \in 0..(n - 1) |-> Dead]]
  BY DEF Reallocate, NoBuffer
<1>4. Reallocate(NoBuffer, n) = Vec(n, <<>>)
  BY <1>2, <1>3 DEF NoBuffer, Vec
<1> QED  BY <1>1, <1>4, NoBufferFact DEF GrowTo

\* Doubling ends with room for everybody before the turns run out.
LEMMA DoubledFact ==
  ASSUME NEW r, NEW extra \in Nat, r.size \in Nat, Cap(r) \in Nat
  PROVE  Doubled(r, extra) \in Nat /\ r.size + extra <= Doubled(r, extra)
<1> DEFINE need == r.size + extra
           a == IF Cap(r) = 0 THEN 4 ELSE Cap(r) * 2
           Step == [k \in 1..need |-> [x \in Nat |-> IF x < need THEN x * 2 ELSE x]]
           Run(f) == f = [k \in 0..need |-> IF k = 0 THEN a ELSE IF f[k - 1] < need THEN f[k - 1] * 2 ELSE f[k - 1]]
           after == CHOOSE f : Run(f)
<1>1. need \in Nat /\ a \in Nat /\ 1 <= a
  OBVIOUS
<1>2. Doubled(r, extra) = after[need]
  BY DEF Doubled
<1> HIDE DEF need, a
<1>3. Turns(Nat, need, Step)
  BY <1>1 DEF Turns
<1>4. PICK f : RunOf(Nat, need, a, Step, f)
  <2> HIDE DEF Step
  <2> QED  BY <1>1, <1>3, LoopExists
<1>5. ASSUME NEW i \in 1..need
      PROVE  f[i - 1] \in Nat /\ f[i] = IF f[i - 1] < need THEN f[i - 1] * 2 ELSE f[i - 1]
  <2>1. f[i - 1] \in Nat /\ f[i] = Step[i][f[i - 1]]
    <3> HIDE DEF Step
    <3> QED  BY <1>1, <1>4 DEF RunOf
  <2>2. Step[i] = [x \in Nat |-> IF x < need THEN x * 2 ELSE x]
    OBVIOUS
  <2> HIDE DEF Step
  <2> QED  BY <2>1, <2>2
<1>14. f \in [0..need -> Nat] /\ f[0] = a
  <2> HIDE DEF Step
  <2> QED  BY <1>4 DEF RunOf
<1>6. Run(f)
  BY <1>1, <1>5, <1>14
<1>7. Run(after)
  BY <1>6
<1> HIDE DEF after, Step
<1>8. SameLoop(need, after, f)
  BY <1>1, <1>6, <1>7 DEF SameLoop
<1>9. after[need] = f[need]
  BY <1>1, <1>8, LoopUnique
<1> DEFINE S == {k \in Nat : k <= need => need <= f[k] \/ k < f[k]}
<1>10. 0 \in S
  BY <1>1, <1>14
<1>11. ASSUME NEW k \in S  PROVE k + 1 \in S
  <2> SUFFICES ASSUME k + 1 <= need  PROVE need <= f[k + 1] \/ k + 1 < f[k + 1]
    OBVIOUS
  <2>1. k + 1 \in 1..need /\ (k + 1) - 1 = k /\ (need <= f[k] \/ k < f[k])
    BY <1>1
  <2>2. f[k] \in Nat /\ f[k + 1] = IF f[k] < need THEN f[k] * 2 ELSE f[k]
    BY <1>5, <2>1
  <2> QED  BY <1>1, <2>1, <2>2
<1> HIDE DEF S
<1>12. S = Nat
  BY <1>10, <1>11, SetInduction DEF S
<1>13. need <= f[need] /\ f[need] \in Nat
  BY <1>1, <1>12, <1>14 DEF S
<1> QED  BY <1>2, <1>9, <1>13 DEF need

\* ensure_space makes room and keeps the elements.
LEMMA EnsureSpaceFact ==
  ASSUME NEW c \in Nat, NEW s \in Seq(Values), Len(s) <= c, NEW extra \in Nat
  PROVE  \E d \in Nat : c <= d /\ Len(s) + extra <= d /\ EnsureSpace(Vec(c, s), extra) = Vec(d, s)
<1>0. Len(s) \in Nat /\ Vec(c, s).size = Len(s)
  BY DEF Vec
<1>1. Cap(Vec(c, s)) = c
  BY CapFact
<1>2. CASE HasSpace(Vec(c, s), extra)
  BY <1>0, <1>1, <1>2 DEF EnsureSpace, HasSpace
<1>3. CASE ~HasSpace(Vec(c, s), extra)
  <2> DEFINE n == Doubled(Vec(c, s), extra)
  <2>1. n \in Nat /\ Len(s) + extra <= n
    BY <1>0, <1>1, DoubledFact
  <2>2. EnsureSpace(Vec(c, s), extra) = GrowTo(Vec(c, s), n)
    BY <1>3 DEF EnsureSpace
  <2> HIDE DEF n
  <2>3. PICK d \in Nat : c <= d /\ n <= d /\ GrowTo(Vec(c, s), n) = Vec(d, s)
    BY <2>1, GrowToFact
  <2> QED  BY <1>0, <2>1, <2>2, <2>3
<1> QED  BY <1>2, <1>3


-----------------------------------------------------------------------------
(* The members, on a vector that holds s.                                  *)

LEMMA HoldsIntro ==
  ASSUME NEW c \in Nat, NEW s \in Seq(Values), Len(s) <= c
  PROVE  Holds(Vec(c, s), s)
  BY DEF Holds

LEMMA HoldsNothing ==
  ASSUME NEW c \in Nat
  PROVE  Holds(Vec(c, <<>>), <<>>)
  BY DEF Holds

\* What a vector that holds s consists of.
LEMMA HoldsElim ==
  ASSUME NEW r, NEW s, Holds(r, s)
  PROVE  /\ s \in Seq(Values) /\ Len(s) \in Nat /\ r.size = Len(s)
         /\ \E c \in Nat : Len(s) <= c /\ r = Vec(c, s)
  BY DEF Holds, Vec

LEMMA VecFields ==
  ASSUME NEW c, NEW s
  PROVE  Vec(c, s).slots = Buffer(c, s) /\ Vec(c, s).size = Len(s)
  BY DEF Vec

\* A vector with the fields r holds s in n slots or more.
Roomy(r, s, n) == /\ s \in Seq(Values)
                  /\ \E c \in Nat : Len(s) <= c /\ n <= c /\ r = Vec(c, s)

LEMMA RoomyHolds ==
  ASSUME NEW r, NEW s, NEW n, Roomy(r, s, n)
  PROVE  Holds(r, s)
  BY DEF Roomy, Holds

LEMMA GrowToRoomy ==
  ASSUME NEW r, NEW s, Holds(r, s), NEW n \in Nat
  PROVE  Roomy(GrowTo(r, n), s, n)
<1>1. PICK c \in Nat : Len(s) <= c /\ r = Vec(c, s)
  BY HoldsElim
<1>2. s \in Seq(Values) /\ Len(s) \in Nat
  BY HoldsElim
<1>3. PICK d \in Nat : c <= d /\ n <= d /\ GrowTo(Vec(c, s), n) = Vec(d, s)
  BY <1>1, <1>2, GrowToFact
<1>4. Len(s) <= d
  BY <1>1, <1>2, <1>3
<1> QED  BY <1>1, <1>2, <1>3, <1>4 DEF Roomy

LEMMA EnsureSpaceRoomy ==
  ASSUME NEW r, NEW s, Holds(r, s), NEW extra \in Nat
  PROVE  Roomy(EnsureSpace(r, extra), s, Len(s) + extra)
<1>1. PICK c \in Nat : Len(s) <= c /\ r = Vec(c, s)
  BY HoldsElim
<1>2. s \in Seq(Values) /\ Len(s) \in Nat
  BY HoldsElim
<1>3. PICK d \in Nat : c <= d /\ Len(s) + extra <= d /\ EnsureSpace(Vec(c, s), extra) = Vec(d, s)
  BY <1>1, <1>2, EnsureSpaceFact
<1>4. Len(s) <= d
  BY <1>1, <1>2, <1>3
<1> QED  BY <1>1, <1>2, <1>3, <1>4 DEF Roomy

\* The elements, as every iteration sees them.
LEMMA ContentsFact ==
  ASSUME NEW r, NEW s, Holds(r, s)
  PROVE  Contents(r) = s
<1>1. PICK c \in Nat : Len(s) <= c /\ r = Vec(c, s)
  BY HoldsElim
<1>2. s \in Seq(Values) /\ Len(s) \in Nat /\ r.size = Len(s) /\ r.slots = Buffer(c, s)
  BY <1>1, HoldsElim, VecFields
<1>3. ASSUME NEW i \in 1..Len(s)  PROVE Buffer(c, s)[i - 1] = s[i]
  BY <1>1, <1>2 DEF Buffer
<1>4. s = [i \in 1..Len(s) |-> s[i]]
  BY <1>2
<1> QED  BY <1>2, <1>3, <1>4 DEF Contents

\* clear, and the shrinking resize.
LEMMA TruncateFact ==
  ASSUME NEW c \in Nat, NEW s \in Seq(Values), Len(s) <= c, NEW n \in 0..Len(s)
  PROVE  DestroyRange(Buffer(c, s), n, Len(s)) = Buffer(c, SubSeq(s, 1, n))
<1> DEFINE b == Buffer(c, s)
           u == SubSeq(s, 1, n)
<1>1. Len(s) \in Nat /\ u \in Seq(Values) /\ Len(u) = n /\ \A i \in 1..n : u[i] = s[i]
  OBVIOUS
<1>2. b \in Buffers(c)
  BY BufferType
<1>3. \A i \in n..(Len(s) - 1) : b[i] \in Values
  BY DEF Buffer
<1> HIDE DEF b
<1>4. DestroyRange(b, n, Len(s)) = [i \in 0..(c - 1) |-> IF i \in n..(Len(s) - 1) THEN Dead ELSE b[i]]
  BY <1>1, <1>2, <1>3, DestroyRangeFact
<1> HIDE DEF u
<1>5. ASSUME NEW i \in 0..(c - 1)
      PROVE  (IF i \in n..(Len(s) - 1) THEN Dead ELSE b[i]) = IF i < Len(u) THEN u[i + 1] ELSE Dead
  BY <1>1 DEF b, Buffer
<1>6. DestroyRange(b, n, Len(s)) = Buffer(c, u)
  BY <1>4, <1>5 DEF Buffer
<1> QED  BY <1>6 DEF b, u

LEMMA ClearFact ==
  ASSUME NEW r, NEW s, Holds(r, s)
  PROVE  Holds(Clear(r), <<>>)
<1>1. PICK c \in Nat : Len(s) <= c /\ r = Vec(c, s)
  BY HoldsElim
<1>2. s \in Seq(Values) /\ Len(s) \in Nat /\ r.size = Len(s) /\ r.slots = Buffer(c, s)
  BY <1>1, HoldsElim, VecFields
<1>3. PICK z \in 0..Len(s) : z = 0
  BY <1>2
<1>4. DestroyRange(Buffer(c, s), z, Len(s)) = Buffer(c, SubSeq(s, 1, z))
  BY <1>1, <1>2, TruncateFact
<1>5. SubSeq(s, 1, z) = <<>>
  BY <1>2, <1>3
<1>6. Clear(r) = Vec(c, <<>>)
  BY <1>2, <1>3, <1>4, <1>5 DEF Clear, Vec
<1> QED  BY <1>6, HoldsNothing

\* The growing resize, assign and the constructor of a count.
LEMMA ExtendFact ==
  ASSUME NEW c \in Nat, NEW s \in Seq(Values), NEW n \in Nat, Len(s) <= n, n <= c, NEW v \in Values
  PROVE  /\ FillRange(Buffer(c, s), Len(s), n, v) = Buffer(c, s \o Copies(n - Len(s), v))
         /\ s \o Copies(n - Len(s), v) \in Seq(Values)
         /\ Len(s \o Copies(n - Len(s), v)) = n
<1> DEFINE b == Buffer(c, s)
           m == n - Len(s)
           w == Copies(m, v)
           u == s \o w
<1>1. Len(s) \in Nat /\ m \in Nat /\ Len(s) + m = n
  OBVIOUS
<1>2. w \in Seq(Values) /\ Len(w) = m /\ \A i \in 1..m : w[i] = v
  BY <1>1 DEF Copies
<1> HIDE DEF m, w
<1>3. u \in Seq(Values) /\ Len(u) = n /\ \A i \in 1..n : u[i] = IF i <= Len(s) THEN s[i] ELSE v
  BY <1>1, <1>2
<1>4. b \in Buffers(c)
  BY BufferType
<1>5. \A i \in Len(s)..(n - 1) : b[i] = Dead
  BY <1>1 DEF Buffer
<1> HIDE DEF b, u
<1>6. FillRange(b, Len(s), n, v) = Filled(c, b, Len(s), n, v)
  BY <1>1, <1>4, <1>5, FillRangeFact
<1>7. ASSUME NEW i \in 0..(c - 1)
      PROVE  (IF i \in Len(s)..(n - 1) THEN v ELSE b[i]) = IF i < Len(u) THEN u[i + 1] ELSE Dead
  BY <1>1, <1>3 DEF b, Buffer
<1>8. FillRange(b, Len(s), n, v) = Buffer(c, u)
  BY <1>6, <1>7 DEF Buffer, Filled
<1> QED  BY <1>3, <1>8 DEF b, u, w, m


\* vector(count, value) and assign(count, value).
LEMMA CopiesFact ==
  ASSUME NEW c \in Nat, NEW n \in Nat, n <= c, NEW v \in Values
  PROVE  Holds([slots |-> FillRange(Buffer(c, <<>>), 0, n, v), size |-> n], Copies(n, v))
<1> DEFINE b == Buffer(c, <<>>)
           u == Copies(n, v)
<1>1. u \in Seq(Values) /\ Len(u) = n /\ \A i \in 1..n : u[i] = v
  BY DEF Copies
<1>2. b \in Buffers(c)
  BY DEF Buffer, Buffers, Cells
<1>3. PICK z \in Nat : z = 0
  OBVIOUS
<1>4. \A i \in z..(n - 1) : b[i] = Dead
  BY <1>3 DEF Buffer
<1> HIDE DEF u
<1>5. ASSUME NEW i \in 0..(c - 1)
      PROVE  (IF i \in z..(n - 1) THEN v ELSE b[i]) = IF i < Len(u) THEN u[i + 1] ELSE Dead
  BY <1>1, <1>3 DEF Buffer
<1> HIDE DEF b
<1>6. FillRange(b, z, n, v) = Filled(c, b, z, n, v)
  BY <1>2, <1>3, <1>4, FillRangeFact
<1>7. FillRange(b, z, n, v) = Buffer(c, u)
  BY <1>5, <1>6 DEF Buffer, Filled
<1>8. [slots |-> FillRange(b, z, n, v), size |-> n] = Vec(c, u)
  BY <1>1, <1>7 DEF Vec
<1>9. Holds(Vec(c, u), u)
  BY <1>1, HoldsIntro
<1> QED  BY <1>3, <1>8, <1>9 DEF b, u

\* The constructors and assignments from a list, and copies of vectors.
LEMMA ListFact ==
  ASSUME NEW s \in Seq(Values)
  PROVE  Holds(PlaceAll(GrowTo(NoBuffer, Len(s)), s), s)
<1>1. PICK r : r = GrowTo(NoBuffer, Len(s))
  OBVIOUS
<1>2. Len(s) \in Nat /\ r.slots = Buffer(Len(s), <<>>)
  BY <1>1, GrowNewFact, VecFields
<1>3. PICK c \in Nat : c = Len(s)
  BY <1>2
<1>4. PlaceAll(r, s) = Vec(c, s)
  BY <1>2, <1>3, PlaceAllFact
<1> QED  BY <1>1, <1>3, <1>4, HoldsIntro

\* assign(initializer_list).
LEMMA RefillFact ==
  ASSUME NEW r, Holds(r, <<>>), NEW s \in Seq(Values)
  PROVE  Holds(PlaceAll(GrowTo(r, Len(s)), s), s)
<1>3. PICK n \in Nat : n = Len(s)
  OBVIOUS
<1>5. PICK g : g = GrowTo(r, n)
  OBVIOUS
<1>2. Roomy(g, <<>>, n)
  BY <1>5, GrowToRoomy
<1>4. PICK d \in Nat : n <= d /\ g = Vec(d, <<>>)
  BY <1>2 DEF Roomy
<1>6. g.slots = Buffer(d, <<>>)
  BY <1>4, VecFields
<1>7. PlaceAll(g, s) = Vec(d, s)
  BY <1>3, <1>4, <1>6, PlaceAllFact
<1> QED  BY <1>3, <1>4, <1>5, <1>7, HoldsIntro

\* assign(count, value).
LEMMA RefillCopiesFact ==
  ASSUME NEW r, Holds(r, <<>>), NEW n \in Nat, NEW v \in Values
  PROVE  Holds([slots |-> FillRange(GrowTo(r, n).slots, 0, n, v), size |-> n], Copies(n, v))
<1>5. PICK g : g = GrowTo(r, n)
  OBVIOUS
<1>2. Roomy(g, <<>>, n)
  BY <1>5, GrowToRoomy
<1>4. PICK d \in Nat : n <= d /\ g = Vec(d, <<>>)
  BY <1>2 DEF Roomy
<1>6. GrowTo(r, n).slots = Buffer(d, <<>>)
  BY <1>4, <1>5, VecFields
<1> QED  BY <1>4, <1>6, CopiesFact

\* push_back and emplace_back.
LEMMA PushBackFact ==
  ASSUME NEW r, NEW s, Holds(r, s), NEW v \in Values
  PROVE  Holds(PushBack(r, v), Append(s, v))
<1>1. s \in Seq(Values) /\ Len(s) \in Nat
  BY HoldsElim
<1>2. PICK g : g = EnsureSpace(r, 1)
  OBVIOUS
<1>3. Roomy(g, s, Len(s) + 1)
  BY <1>2, EnsureSpaceRoomy
<1>4. PICK d \in Nat : Len(s) + 1 <= d /\ g = Vec(d, s)
  BY <1>3 DEF Roomy
<1> DEFINE b == Buffer(d, s)
           u == Append(s, v)
<1>5. u \in Seq(Values) /\ Len(u) = Len(s) + 1 /\ \A i \in 1..(Len(s) + 1) : u[i] = IF i <= Len(s) THEN s[i] ELSE v
  BY <1>1
<1>6. b \in Buffers(d)
  BY <1>1, BufferType
<1>7. Len(s) \in 0..(d - 1) /\ b[Len(s)] = Dead
  BY <1>1, <1>4 DEF Buffer
<1> HIDE DEF u
<1>8. ASSUME NEW i \in 0..(d - 1)
      PROVE  (IF i = Len(s) THEN v ELSE b[i]) = IF i < Len(u) THEN u[i + 1] ELSE Dead
  BY <1>1, <1>5 DEF Buffer
<1> HIDE DEF b
<1>9. Place(b, Len(s), v) = [i \in 0..(d - 1) |-> IF i = Len(s) THEN v ELSE b[i]]
  BY <1>6, <1>7, PlaceFact
<1>10. Place(b, Len(s), v) = Buffer(d, u)
  BY <1>8, <1>9 DEF Buffer
<1>11. PushBack(r, v) = Vec(d, u)
  BY <1>2, <1>4, <1>5, <1>10, VecFields DEF PushBack, Vec, b
<1>12. Holds(Vec(d, u), u)
  BY <1>4, <1>5, HoldsIntro
<1> QED  BY <1>11, <1>12 DEF u


\* Every vector that holds something.
Vectors == UNION {{x \in {Vec(c, s) : s \in Seq(Values)} : \E s : Holds(x, s)} : c \in Nat}

LEMMA HoldsVector ==
  ASSUME NEW r, NEW s, Holds(r, s)
  PROVE  r \in Vectors
<1>1. PICK c \in Nat : Len(s) <= c /\ r = Vec(c, s)
  BY HoldsElim
<1>2. s \in Seq(Values)
  BY HoldsElim
<1>3. r \in {x \in {Vec(c, t) : t \in Seq(Values)} : \E t : Holds(x, t)}
  BY <1>1, <1>2
<1> QED  BY <1>3 DEF Vectors

LEMMA VectorHolds ==
  ASSUME NEW r \in Vectors
  PROVE  \E s : Holds(r, s)
  BY DEF Vectors

LEMMA HoldsValues ==
  ASSUME NEW r, NEW s, Holds(r, s)
  PROVE  s \in Seq(Values)
  BY DEF Holds

\* Construction and assignment from a pair of iterators.
LEMMA PushAllFact ==
  ASSUME NEW r, Holds(r, <<>>), NEW t \in Seq(Values)
  PROVE  Holds(PushAll(r, t), t)
<1> DEFINE n == Len(t)
           Step == [k \in 1..n |-> [x \in Vectors |-> PushBack(x, t[k])]]
           Run(f) == f = [k \in 0..n |-> IF k = 0 THEN r ELSE PushBack(f[k - 1], t[k])]
           after == CHOOSE f : Run(f)
           Prefix(k) == SubSeq(t, 1, k)
<1>1. n \in Nat /\ r \in Vectors
  BY HoldsVector
<1>2. PushAll(r, t) = after[n]
  BY DEF PushAll
<1>3. ASSUME NEW k \in 1..n, NEW x \in Vectors  PROVE PushBack(x, t[k]) \in Vectors
  <2>1. PICK s : Holds(x, s)
    BY <1>3, VectorHolds
  <2>2. t[k] \in Values
    OBVIOUS
  <2>3. Holds(PushBack(x, t[k]), Append(s, t[k]))
    BY <2>1, <2>2, PushBackFact
  <2> QED  BY <2>3, HoldsVector
<1>13. \A k \in 0..n : Prefix(k) \in Seq(Values) /\ Len(Prefix(k)) = k /\ \A i \in 1..k : Prefix(k)[i] = t[i]
  OBVIOUS
<1>14. \A k \in 0..n : k + 1 <= n => Prefix(k + 1) = Append(Prefix(k), t[k + 1])
  OBVIOUS
<1>15. Prefix(0) = <<>> /\ Prefix(n) = t
  OBVIOUS
<1>16. \A k \in 1..n : t[k] \in Values
  OBVIOUS
<1> HIDE DEF n, Prefix
<1>4. Turns(Vectors, n, Step)
  BY <1>1, <1>3 DEF Turns
<1>5. PICK f : RunOf(Vectors, n, r, Step, f)
  <2> HIDE DEF Step
  <2> QED  BY <1>1, <1>4, LoopExists
<1>6. ASSUME NEW i \in 1..n
      PROVE  f[i - 1] \in Vectors /\ f[i] = PushBack(f[i - 1], t[i])
  <2>1. f[i - 1] \in Vectors /\ f[i] = Step[i][f[i - 1]]
    <3> HIDE DEF Step
    <3> QED  BY <1>1, <1>5 DEF RunOf
  <2>2. Step[i] = [x \in Vectors |-> PushBack(x, t[i])]
    OBVIOUS
  <2> HIDE DEF Step
  <2> QED  BY <2>1, <2>2
<1>7. f \in [0..n -> Vectors] /\ f[0] = r
  <2> HIDE DEF Step
  <2> QED  BY <1>5 DEF RunOf
<1>8. Run(f)
  BY <1>1, <1>6, <1>7
<1>9. Run(after)
  BY <1>8
<1> HIDE DEF after, Step
<1>10. SameLoop(n, after, f)
  BY <1>1, <1>8, <1>9 DEF SameLoop
<1>11. after[n] = f[n]
  BY <1>1, <1>10, LoopUnique
<1> DEFINE S == {k \in Nat : k <= n => Holds(f[k], Prefix(k))}
<1>20. 0 \in S
  BY <1>7, <1>15
<1>21. ASSUME NEW k \in S  PROVE k + 1 \in S
  <2> SUFFICES ASSUME k + 1 <= n  PROVE Holds(f[k + 1], Prefix(k + 1))
    OBVIOUS
  <2>1. k \in 0..n /\ k + 1 \in 1..n /\ (k + 1) - 1 = k /\ Holds(f[k], Prefix(k))
    BY <1>1
  <2>2. PICK j \in 1..n : j = k + 1
    BY <2>1
  <2>3. f[j] = PushBack(f[k], t[j]) /\ Prefix(j) = Append(Prefix(k), t[j]) /\ t[j] \in Values
    BY <1>6, <1>14, <1>16, <2>1, <2>2
  <2>4. Holds(f[j], Prefix(j))
    BY <2>1, <2>3, PushBackFact
  <2> QED  BY <2>2, <2>4
<1> HIDE DEF S
<1>22. S = Nat
  BY <1>20, <1>21, SetInduction DEF S
<1>23. Holds(f[n], Prefix(n))
  BY <1>1, <1>22 DEF S
<1> QED  BY <1>2, <1>11, <1>15, <1>23

LEMMA PopBackFact ==
  ASSUME NEW r, NEW s, Holds(r, s), s # <<>>
  PROVE  Holds([slots |-> Destroy(r.slots, r.size - 1), size |-> r.size - 1], SubSeq(s, 1, Len(s) - 1))
<1>1. PICK c \in Nat : Len(s) <= c /\ r = Vec(c, s)
  BY HoldsElim
<1>2. s \in Seq(Values) /\ Len(s) \in Nat /\ r.size = Len(s) /\ r.slots = Buffer(c, s)
  BY <1>1, HoldsElim, VecFields
<1>3. Len(s) >= 1
  BY <1>2
<1>4. PICK n \in Nat : n = Len(s) - 1
  BY <1>2, <1>3
<1> DEFINE b == Buffer(c, s)
           u == SubSeq(s, 1, n)
<1>5. u \in Seq(Values) /\ Len(u) = n /\ \A i \in 1..n : u[i] = s[i]
  BY <1>2, <1>4
<1>6. n \in 0..(c - 1) /\ b[n] \in Values
  BY <1>1, <1>2, <1>4 DEF Buffer
<1>7. Destroy(b, n) = [b EXCEPT ![n] = Dead]
  BY <1>6 DEF Destroy
<1> HIDE DEF u
<1>8. ASSUME NEW i \in 0..(c - 1)
      PROVE  (IF i = n THEN Dead ELSE b[i]) = IF i < Len(u) THEN u[i + 1] ELSE Dead
  BY <1>2, <1>4, <1>5 DEF Buffer
<1>9. b = [i \in 0..(c - 1) |-> b[i]]
  BY DEF Buffer
<1> HIDE DEF b
<1>10. Destroy(b, n) = Buffer(c, u)
  BY <1>6, <1>7, <1>8, <1>9 DEF Buffer
<1>11. [slots |-> Destroy(r.slots, r.size - 1), size |-> r.size - 1] = Vec(c, u)
  BY <1>2, <1>4, <1>5, <1>10 DEF Vec, b
<1>12. Holds(Vec(c, u), u)
  BY <1>1, <1>2, <1>4, <1>5, HoldsIntro
<1> QED  BY <1>4, <1>11, <1>12 DEF u


\* resize, either way.
LEMMA ShrinkFact ==
  ASSUME NEW r, NEW s, Holds(r, s), NEW n \in Nat, n < r.size
  PROVE  Holds([slots |-> DestroyRange(r.slots, n, r.size), size |-> n], SubSeq(s, 1, n))
<1>1. PICK c \in Nat : Len(s) <= c /\ r = Vec(c, s)
  BY HoldsElim
<1>2. s \in Seq(Values) /\ Len(s) \in Nat /\ r.size = Len(s) /\ r.slots = Buffer(c, s)
  BY <1>1, HoldsElim, VecFields
<1>3. n \in 0..Len(s)
  BY <1>2
<1>4. DestroyRange(Buffer(c, s), n, Len(s)) = Buffer(c, SubSeq(s, 1, n))
  BY <1>1, <1>2, <1>3, TruncateFact
<1>5. PICK u : u = SubSeq(s, 1, n)
  OBVIOUS
<1>6. u \in Seq(Values) /\ Len(u) = n /\ n <= c
  BY <1>1, <1>2, <1>3, <1>5
<1>7. [slots |-> DestroyRange(r.slots, n, r.size), size |-> n] = Vec(c, u)
  BY <1>2, <1>4, <1>5, <1>6 DEF Vec
<1> QED  BY <1>5, <1>6, <1>7, HoldsIntro

LEMMA ResizeFact ==
  ASSUME NEW r, NEW s, Holds(r, s), NEW n \in Nat, ~(n < r.size), NEW v \in Values
  PROVE  Holds([slots |-> FillRange(EnsureSpace(r, n - r.size).slots, r.size, n, v), size |-> n],
               s \o Copies(n - r.size, v))
<1>1. s \in Seq(Values) /\ Len(s) \in Nat /\ r.size = Len(s) /\ Len(s) <= n
  BY HoldsElim
<1>2. PICK m \in Nat : m = n - Len(s)
  BY <1>1
<1>3. PICK g : g = EnsureSpace(r, m)
  OBVIOUS
<1>4. Roomy(g, s, Len(s) + m)
  BY <1>3, EnsureSpaceRoomy
<1>5. PICK d \in Nat : Len(s) + m <= d /\ g = Vec(d, s)
  BY <1>4 DEF Roomy
<1>6. n <= d /\ g.slots = Buffer(d, s)
  BY <1>1, <1>2, <1>5, VecFields
<1>7. PICK u : u = s \o Copies(n - Len(s), v)
  OBVIOUS
<1>8. FillRange(Buffer(d, s), Len(s), n, v) = Buffer(d, u) /\ u \in Seq(Values) /\ Len(u) = n
  BY <1>1, <1>6, <1>7, ExtendFact
<1>9. [slots |-> FillRange(EnsureSpace(r, n - r.size).slots, r.size, n, v), size |-> n] = Vec(d, u)
  BY <1>1, <1>2, <1>3, <1>6, <1>8 DEF Vec
<1> QED  BY <1>1, <1>6, <1>7, <1>8, <1>9, HoldsIntro

\* A buffer of d slots that holds s with a gap at off.  The bytes of a trivial
\* element are still in the gap.
Gap(d, s, off, h) ==
  /\ h \in Buffers(d)
  /\ trivial \/ h[off] = Dead
  /\ trivial /\ off < Len(s) => h[off] = s[off + 1]
  /\ \A i \in 0..(d - 1) :
       i # off => h[i] = IF i < off THEN s[i + 1] ELSE IF i <= Len(s) THEN s[i] ELSE Dead

\* insert and emplace, up to the construction of the new element.
LEMMA ShiftRightGap ==
  ASSUME NEW d \in Nat, NEW s \in Seq(Values), Len(s) + 1 <= d, NEW off \in 0..Len(s)
  PROVE  Gap(d, s, off, ShiftRight(Buffer(d, s), off, Len(s)))
<1> DEFINE b == Buffer(d, s)
           h == ShiftRight(b, off, Len(s))
           n == Len(s) - off
<1>1. Len(s) \in Nat /\ n \in 0..Len(s) /\ Len(s) \in 0..(d - 1) /\ Len(s) - n = off /\ Len(s) - n + 1 = off + 1
  OBVIOUS
<1>2. b \in Buffers(d)
  BY BufferType
<1>3. /\ \A i \in off..(Len(s) - 1) : b[i] \in Values
      /\ b[Len(s)] = Dead
      /\ \A i \in 0..(d - 1) : b[i] = IF i < Len(s) THEN s[i + 1] ELSE Dead
      /\ DOMAIN b = 0..(d - 1)
  BY DEF Buffer
<1> HIDE DEF b, n
<1>4. h = [i \in 0..(d - 1) |-> IF i \in (off + 1)..Len(s) THEN b[i - 1]
                                ELSE IF i = off /\ ~trivial THEN Dead ELSE b[i]]
  <2>1. CASE trivial
    BY <1>3, <2>1 DEF ShiftRight
  <2>2. CASE ~trivial
    <3>1. h = ShiftRightSteps(b, Len(s), n)
      BY <2>2 DEF ShiftRight, n
    <3>2. \A i \in (Len(s) - n)..(Len(s) - 1) : b[i] \in Values
      BY <1>1, <1>3
    <3>3. ShiftRightSteps(b, Len(s), n) = ShiftedRight(d, b, Len(s), n)
      BY <1>1, <1>2, <1>3, <3>2, ShiftRightFact
    <3> QED  BY <1>1, <2>2, <3>1, <3>3 DEF ShiftedRight
  <2> QED  BY <2>1, <2>2
<1> HIDE DEF h
<1>5. ASSUME NEW i \in 0..(d - 1)
      PROVE  /\ i < off => h[i] = s[i + 1]
             /\ i > off /\ i <= Len(s) => h[i] = s[i]
             /\ i > Len(s) /\ i # off => h[i] = Dead
             /\ i = off /\ ~trivial => h[i] = Dead
             /\ i = off /\ trivial => h[i] = IF off < Len(s) THEN s[off + 1] ELSE Dead
  <2>1. CASE i \in (off + 1)..Len(s)
    <3>1. i - 1 \in 0..(d - 1) /\ i - 1 < Len(s) /\ (i - 1) + 1 = i
      BY <1>1, <2>1
    <3>2. h[i] = b[i - 1]
      BY <1>4, <2>1
    <3>3. h[i] = s[i]
      BY <1>3, <3>1, <3>2
    <3> QED  BY <1>1, <2>1, <3>3
  <2>2. CASE i \notin (off + 1)..Len(s)
    <3>1. h[i] = IF i = off /\ ~trivial THEN Dead ELSE b[i]
      BY <1>4, <2>2
    <3> QED  BY <1>1, <1>3, <2>2, <3>1
  <2> QED  BY <2>1, <2>2
<1>6. off \in 0..(d - 1)
  BY <1>1
<1>7. ASSUME NEW i \in 0..(d - 1)  PROVE h[i] \in Cells
  BY <1>1, <1>5 DEF Cells
<1>8. h = [i \in 0..(d - 1) |-> h[i]]
  BY <1>4
<1>9. h \in Buffers(d)
  BY <1>7, <1>8 DEF Buffers
<1>10. Gap(d, s, off, h)
  BY <1>1, <1>5, <1>6, <1>9 DEF Gap
<1> QED  BY <1>10 DEF h, b


\* The reference's insertion: u is s with v after the first off elements.
IsInserted(u, s, off, v) ==
  /\ u \in Seq(Values)
  /\ Len(u) = Len(s) + 1
  /\ \A i \in 1..(Len(s) + 1) : u[i] = IF i <= off THEN s[i] ELSE IF i = off + 1 THEN v ELSE s[i - 1]

LEMMA InsertedFact ==
  ASSUME NEW s \in Seq(Values), NEW off \in 0..Len(s), NEW v \in Values
  PROVE  IsInserted(Inserted(s, off, v), s, off, v)
<1> DEFINE x == SubSeq(s, 1, off)
           y == x \o <<v>>
           z == SubSeq(s, off + 1, Len(s))
<1>1. x \in Seq(Values) /\ Len(x) = off /\ \A i \in 1..off : x[i] = s[i]
  OBVIOUS
<1>2. z \in Seq(Values) /\ Len(z) = Len(s) - off /\ \A i \in 1..(Len(s) - off) : z[i] = s[off + i]
  OBVIOUS
<1>3. <<v>> \in Seq(Values) /\ Len(<<v>>) = 1 /\ <<v>>[1] = v
  OBVIOUS
<1> HIDE DEF x, z
<1>4. y \in Seq(Values) /\ Len(y) = off + 1 /\ \A i \in 1..(off + 1) : y[i] = IF i <= off THEN s[i] ELSE v
  BY <1>1, <1>3
<1> HIDE DEF y
<1>5. /\ y \o z \in Seq(Values) /\ Len(y \o z) = Len(s) + 1
      /\ \A i \in 1..(Len(s) + 1) : (y \o z)[i] = IF i <= off + 1 THEN y[i] ELSE z[i - (off + 1)]
  BY <1>2, <1>4
<1>6. Inserted(s, off, v) = y \o z
  BY DEF Inserted, x, y, z
<1>7. ASSUME NEW i \in 1..(Len(s) + 1)
      PROVE  (y \o z)[i] = IF i <= off THEN s[i] ELSE IF i = off + 1 THEN v ELSE s[i - 1]
  <2>1. CASE i <= off + 1
    BY <1>4, <1>5, <2>1
  <2>2. CASE i > off + 1
    <3>1. i - (off + 1) \in 1..(Len(s) - off) /\ off + (i - (off + 1)) = i - 1
      BY <2>2
    <3>2. z[i - (off + 1)] = s[i - 1]
      BY <1>2, <3>1
    <3> QED  BY <1>5, <2>2, <3>2
  <2>3. i <= off + 1 \/ i > off + 1
    OBVIOUS
  <2> QED  BY <2>1, <2>2, <2>3
<1>8. PICK u : u = y \o z
  OBVIOUS
<1>9. u \in Seq(Values) /\ Len(u) = Len(s) + 1
  BY <1>5, <1>8
<1>10. \A i \in 1..(Len(s) + 1) : u[i] = IF i <= off THEN s[i] ELSE IF i = off + 1 THEN v ELSE s[i - 1]
  BY <1>7, <1>8
<1>11. IsInserted(u, s, off, v)
  BY <1>9, <1>10 DEF IsInserted
<1> QED  BY <1>6, <1>8, <1>11

\* The construction of the new element closes the gap.
LEMMA GapFilled ==
  ASSUME NEW d \in Nat, NEW s \in Seq(Values), Len(s) + 1 <= d, NEW off \in 0..Len(s), NEW h,
         Gap(d, s, off, h), NEW v \in Values
  PROVE  Place(h, off, v) = Buffer(d, Inserted(s, off, v))
<1>0. Len(s) \in Nat /\ off \in 0..(d - 1)
  OBVIOUS
<1>1. Place(h, off, v) = [i \in 0..(d - 1) |-> IF i = off THEN v ELSE h[i]]
  BY <1>0, PlaceFact DEF Gap
<1>2. PICK u : u = Inserted(s, off, v)
  OBVIOUS
<1>5. IsInserted(u, s, off, v)
  BY <1>2, InsertedFact
<1>3. ASSUME NEW i \in 0..(d - 1)
      PROVE  (IF i = off THEN v ELSE h[i]) = IF i < Len(u) THEN u[i + 1] ELSE Dead
  <2>1. Len(u) = Len(s) + 1
    BY <1>5 DEF IsInserted
  <2>2. ASSUME i <= Len(s)
        PROVE  u[i + 1] = IF i < off THEN s[i + 1] ELSE IF i = off THEN v ELSE s[i]
    <3>1. PICK k \in 1..(Len(s) + 1) : k = i + 1 /\ k - 1 = i
      BY <1>0, <2>2
    <3>2. u[k] = IF k <= off THEN s[k] ELSE IF k = off + 1 THEN v ELSE s[k - 1]
      BY <1>5 DEF IsInserted
    <3> QED  BY <3>1, <3>2
  <2>3. i # off => h[i] = IF i < off THEN s[i + 1] ELSE IF i <= Len(s) THEN s[i] ELSE Dead
    BY DEF Gap
  <2> QED  BY <1>0, <2>1, <2>2, <2>3
<1>4. Place(h, off, v) = Buffer(d, u)
  BY <1>1, <1>3 DEF Buffer
<1> QED  BY <1>2, <1>4

\* insert and emplace open a gap in a buffer with room, ...
LEMMA OpenedFact ==
  ASSUME NEW r, NEW s, Holds(r, s), NEW off \in 0..Len(s)
  PROVE  \E d \in Nat : Len(s) + 1 <= d /\ Gap(d, s, off, Opened(r, off))
<1>1. s \in Seq(Values) /\ Len(s) \in Nat
  BY HoldsElim
<1>2. PICK g : g = EnsureSpace(r, 1)
  OBVIOUS
<1>3. Roomy(g, s, Len(s) + 1)
  BY <1>2, EnsureSpaceRoomy
<1>4. PICK d \in Nat : Len(s) + 1 <= d /\ g = Vec(d, s)
  BY <1>3 DEF Roomy
<1>5. Opened(r, off) = ShiftRight(Buffer(d, s), off, Len(s))
  BY <1>2, <1>4, VecFields DEF Opened
<1>6. Gap(d, s, off, ShiftRight(Buffer(d, s), off, Len(s)))
  BY <1>1, <1>4, ShiftRightGap
<1> QED  BY <1>4, <1>5, <1>6

\* ... and construct the new element in it.
LEMMA InsertFact ==
  ASSUME NEW r, NEW s, Holds(r, s), NEW off \in 0..Len(s), NEW v \in Values
  PROVE  Holds([slots |-> Place(Opened(r, off), off, v), size |-> r.size + 1], Inserted(s, off, v))
<1>1. s \in Seq(Values) /\ Len(s) \in Nat /\ r.size = Len(s)
  BY HoldsElim
<1>2. PICK h : h = Opened(r, off)
  OBVIOUS
<1>3. PICK d \in Nat : Len(s) + 1 <= d /\ Gap(d, s, off, h)
  BY <1>2, OpenedFact
<1>4. PICK u : u = Inserted(s, off, v)
  OBVIOUS
<1>5. u \in Seq(Values) /\ Len(u) = Len(s) + 1
  BY <1>1, <1>4, InsertedFact DEF IsInserted
<1>6. Place(h, off, v) = Buffer(d, u)
  BY <1>1, <1>3, <1>4, GapFilled
<1>7. [slots |-> Place(h, off, v), size |-> r.size + 1] = Vec(d, u)
  BY <1>1, <1>5, <1>6 DEF Vec
<1>8. Holds(Vec(d, u), u)
  BY <1>3, <1>5, HoldsIntro
<1> QED  BY <1>2, <1>4, <1>7, <1>8

\* The slot of an element.
LEMMA OwnSlot ==
  ASSUME NEW r, NEW s, Holds(r, s), NEW j \in Nat, j < Len(s)
  PROVE  r.slots[j] = s[j + 1] /\ s[j + 1] \in Values
<1>1. s \in Seq(Values) /\ Len(s) \in Nat
  BY HoldsElim
<1>2. PICK c \in Nat : Len(s) <= c /\ r = Vec(c, s)
  BY HoldsElim
<1>3. r.slots = Buffer(c, s) /\ j \in 0..(c - 1)
  BY <1>1, <1>2, VecFields
<1> QED  BY <1>1, <1>3 DEF Buffer

\* An own element below the gap, or the bytes left in it, is still itself.
LEMMA OwnFact ==
  ASSUME NEW r, NEW s, Holds(r, s), NEW off \in 0..Len(s), NEW j \in Nat, j < Len(s),
         j < off \/ (trivial /\ j = off)
  PROVE  Opened(r, off)[j] = s[j + 1] /\ s[j + 1] \in Values
<1>1. s \in Seq(Values) /\ Len(s) \in Nat
  BY HoldsElim
<1>2. PICK h : h = Opened(r, off)
  OBVIOUS
<1>3. PICK d \in Nat : Len(s) + 1 <= d /\ Gap(d, s, off, h)
  BY <1>2, OpenedFact
<1>4. j \in 0..(d - 1)
  BY <1>1, <1>3
<1>5. CASE j < off
  BY <1>1, <1>2, <1>3, <1>4, <1>5 DEF Gap
<1>6. CASE trivial /\ j = off
  BY <1>1, <1>2, <1>3, <1>4, <1>6 DEF Gap
<1> QED  BY <1>5, <1>6


\* The reference's erasure: u is s without the elements first..(last-1).
Removed(s, first, last) == SubSeq(s, 1, first) \o SubSeq(s, last + 1, Len(s))

IsRemoved(u, s, first, last) ==
  /\ u \in Seq(Values)
  /\ Len(u) = Len(s) - (last - first)
  /\ \A i \in 1..Len(u) : u[i] = IF i <= first THEN s[i] ELSE s[i + (last - first)]

LEMMA RemovedFact ==
  ASSUME NEW s \in Seq(Values), NEW first \in Nat, NEW last \in Nat, first <= last, last <= Len(s)
  PROVE  IsRemoved(Removed(s, first, last), s, first, last)
<1> DEFINE x == SubSeq(s, 1, first)
           z == SubSeq(s, last + 1, Len(s))
           u == x \o z
           d == last - first
<1>1. x \in Seq(Values) /\ Len(x) = first /\ \A i \in 1..first : x[i] = s[i]
  OBVIOUS
<1>2. z \in Seq(Values) /\ Len(z) = Len(s) - last /\ \A i \in 1..(Len(s) - last) : z[i] = s[last + i]
  OBVIOUS
<1> HIDE DEF x, z
<1>7. /\ u \in Seq(Values) /\ Len(u) = Len(x) + Len(z)
      /\ \A i \in 1..(Len(x) + Len(z)) : u[i] = IF i <= Len(x) THEN x[i] ELSE z[i - Len(x)]
  <2>1. x \in Seq(Values) /\ z \in Seq(Values)
    BY <1>1, <1>2
  <2> QED  BY <2>1, ConcatProperties
<1>4. first + (Len(s) - last) = Len(s) - d /\ d \in Nat /\ Len(s) \in Nat
  OBVIOUS
<1>3. /\ u \in Seq(Values) /\ Len(u) = first + (Len(s) - last)
      /\ \A i \in 1..(first + (Len(s) - last)) : u[i] = IF i <= first THEN x[i] ELSE z[i - first]
  <2> HIDE DEF u
  <2> QED  BY <1>1, <1>2, <1>7
<1> HIDE DEF u, d
<1>5. ASSUME NEW i \in 1..Len(u)  PROVE u[i] = IF i <= first THEN s[i] ELSE s[i + d]
  <2>1. CASE i <= first
    BY <1>1, <1>3, <2>1
  <2>2. CASE i > first
    <3>1. i - first \in 1..(Len(s) - last) /\ last + (i - first) = i + d
      BY <1>3, <1>4, <2>2 DEF d
    <3>2. z[i - first] = s[i + d]
      BY <1>2, <3>1
    <3> QED  BY <1>3, <2>2, <3>2
  <2>3. i <= first \/ i > first
    BY <1>3, <1>4
  <2> QED  BY <2>1, <2>2, <2>3
<1>6. /\ u \in Seq(Values)
      /\ Len(u) = Len(s) - d
      /\ \A i \in 1..Len(u) : u[i] = IF i <= first THEN s[i] ELSE s[i + d]
  BY <1>3, <1>4, <1>5
<1> QED  BY <1>6 DEF u, x, z, d, Removed, IsRemoved

\* erase of a range that is not empty.
LEMMA WithoutFact ==
  ASSUME NEW c \in Nat, NEW s \in Seq(Values), Len(s) <= c,
         NEW first \in Nat, NEW last \in Nat, first < last, last <= Len(s)
  PROVE  ShiftLeft(DestroyRange(Buffer(c, s), first, last), last, Len(s), last - first)
           = Buffer(c, Removed(s, first, last))
<1> DEFINE b == Buffer(c, s)
           u == Removed(s, first, last)
           d == last - first
           n == Len(s) - last
           x == [i \in 0..(c - 1) |-> IF i \in first..(last - 1) THEN Dead ELSE b[i]]
<1>1. /\ Len(s) \in Nat /\ d \in Nat \ {0} /\ d <= last /\ n \in Nat /\ last + n <= c
      /\ last - d = first /\ last + n = Len(s) /\ first + d = last
  OBVIOUS
<1>2. Len(u) = Len(s) - d /\ \A i \in 1..Len(u) : u[i] = IF i <= first THEN s[i] ELSE s[i + d]
  <2>1. IsRemoved(u, s, first, last)
    BY RemovedFact
  <2> QED  BY <2>1 DEF IsRemoved
<1>3. b \in Buffers(c) /\ \A i \in 0..(c - 1) : b[i] = IF i < Len(s) THEN s[i + 1] ELSE Dead
  BY BufferType DEF Buffer
<1> HIDE DEF u, b, d, n
<1>4. \A i \in first..(last - 1) : b[i] \in Values
  BY <1>1, <1>3
<1>5. DestroyRange(b, first, last) = x
  BY <1>1, <1>3, <1>4, DestroyRangeFact
<1>6. x \in Buffers(c)
  BY <1>3 DEF Buffers, Cells
<1>7. \A i \in (last - d)..(last - 1) : x[i] = Dead
  BY <1>1
<1>9. \A i \in 0..(c - 1) : x[i] = IF i \in first..(last - 1) THEN Dead ELSE b[i]
  OBVIOUS
<1> HIDE DEF x
<1>8. ASSUME NEW i \in last..(last + n - 1)  PROVE x[i] \in Values
  <2>1. i \in 0..(c - 1) /\ i \notin first..(last - 1) /\ i < Len(s) /\ i + 1 \in 1..Len(s)
    BY <1>1
  <2>2. x[i] = b[i] /\ b[i] = s[i + 1]
    BY <1>3, <1>9, <2>1
  <2> QED  BY <2>1, <2>2
<1>10. ShiftLeft(x, last, Len(s), d) = ShiftedLeft(c, x, last, d, n)
  BY <1>1, <1>6, <1>7, <1>8, ShiftLeftFact DEF ShiftLeft, n
<1>11. ASSUME NEW i \in 0..(c - 1)
       PROVE  (IF i \in (last - d)..(last - d + n - 1) THEN x[i + d]
               ELSE IF i \in (last - d + n)..(last + n - 1) THEN Dead ELSE x[i])
              = IF i < Len(u) THEN u[i + 1] ELSE Dead
  <2>1. last - d + n = Len(u) /\ Len(u) = Len(s) - d /\ last + n = Len(s)
    BY <1>1, <1>2
  <2>2. CASE i < first
    <3>1. i + 1 \in 1..Len(u) /\ i + 1 <= first /\ i < Len(s) /\ i < Len(u)
      BY <1>1, <2>1, <2>2
    <3>2. u[i + 1] = s[i + 1]
      BY <1>2, <3>1
    <3>3. x[i] = s[i + 1]
      BY <1>1, <1>3, <1>9, <2>2, <3>1
    <3>4. i \notin (last - d)..(last - d + n - 1) /\ i \notin (last - d + n)..(last + n - 1)
      BY <1>1, <2>1, <2>2, <3>1
    <3> QED  BY <3>1, <3>2, <3>3, <3>4
  <2>3. CASE first <= i /\ i < Len(u)
    <3>1. i + 1 \in 1..Len(u) /\ ~(i + 1 <= first) /\ i + d \in 0..(c - 1) /\ i + d < Len(s) /\ i + d >= last /\ (i + d) + 1 = (i + 1) + d
      BY <1>1, <2>1, <2>3
    <3>2. u[i + 1] = s[(i + 1) + d]
      BY <1>2, <3>1
    <3>3. x[i + d] = b[i + d]
      BY <1>1, <1>9, <3>1
    <3>4. b[i + d] = s[(i + d) + 1]
      BY <1>3, <3>1
    <3>5. i \in (last - d)..(last - d + n - 1)
      BY <1>1, <2>1, <2>3
    <3> QED  BY <2>3, <3>1, <3>2, <3>3, <3>4, <3>5
  <2>4. CASE Len(u) <= i
    <3>1. i \notin (last - d)..(last - d + n - 1)
      BY <1>1, <2>1, <2>4
    <3>2. i >= Len(s) => x[i] = Dead
      BY <1>1, <1>3, <1>9
    <3>3. i < Len(s) => i \in (last - d + n)..(last + n - 1)
      BY <1>1, <2>1, <2>4
    <3>4. ~(i < Len(u))
      BY <1>1, <2>1, <2>4
    <3>5. i < Len(s) \/ i >= Len(s)
      BY <1>1
    <3> QED  BY <3>1, <3>2, <3>3, <3>4, <3>5
  <2>5. i < first \/ (first <= i /\ i < Len(u)) \/ Len(u) <= i
    BY <1>1, <2>1
  <2> QED  BY <2>2, <2>3, <2>4, <2>5
<1>12. ShiftLeft(x, last, Len(s), d) = Buffer(c, u)
  BY <1>10, <1>11 DEF ShiftedLeft, Buffer
<1> QED  BY <1>5, <1>12 DEF b, u, d

LEMMA ErasedFact ==
  ASSUME NEW r, NEW s, Holds(r, s), NEW first \in Nat, NEW last \in Nat, first <= last, last <= Len(s)
  PROVE  Holds(Erased(r, first, last), Removed(s, first, last))
<1>1. PICK c \in Nat : Len(s) <= c /\ r = Vec(c, s)
  BY HoldsElim
<1>2. s \in Seq(Values) /\ Len(s) \in Nat /\ r.size = Len(s) /\ r.slots = Buffer(c, s)
  BY <1>1, HoldsElim, VecFields
<1>3. PICK u : u = Removed(s, first, last)
  OBVIOUS
<1>4. /\ u \in Seq(Values) /\ Len(u) = Len(s) - (last - first)
      /\ \A i \in 1..Len(u) : u[i] = IF i <= first THEN s[i] ELSE s[i + (last - first)]
  <2>1. IsRemoved(u, s, first, last)
    BY <1>2, <1>3, RemovedFact
  <2> QED  BY <2>1 DEF IsRemoved
<1>5. CASE first = last
  <2>1. Len(u) = Len(s)
    BY <1>2, <1>4, <1>5
  <2>2. ASSUME NEW i \in 1..Len(s)  PROVE u[i] = s[i]
    <3>1. u[i] = IF i <= first THEN s[i] ELSE s[i + (last - first)]
      BY <1>4, <2>1
    <3>2. i + (last - first) = i
      BY <1>5
    <3> QED  BY <3>1, <3>2
  <2>3. u = s
    BY <1>2, <1>4, <2>1, <2>2
  <2> QED  BY <1>3, <1>5, <2>3 DEF Erased
<1>6. CASE first # last
  <2>1. ShiftLeft(DestroyRange(Buffer(c, s), first, last), last, Len(s), last - first) = Buffer(c, u)
    BY <1>1, <1>2, <1>3, <1>6, WithoutFact
  <2>2. Erased(r, first, last) = Vec(c, u)
    BY <1>2, <1>4, <1>6, <2>1 DEF Erased, Without, Vec
  <2>3. Len(u) <= c
    BY <1>1, <1>2, <1>4
  <2>4. Holds(Vec(c, u), u)
    BY <1>4, <2>3, HoldsIntro
  <2> QED  BY <1>3, <2>2, <2>4
<1> QED  BY <1>5, <1>6


-----------------------------------------------------------------------------
(* An element that throws before anything has happened.                    *)

\* Zero turns of a loop.
LEMMA NoTurns ==
  ASSUME NEW c \in Nat, NEW s \in Seq(Values), Len(s) <= c
  PROVE  /\ DestroyRange(Buffer(c, s), 0, 0) = Buffer(c, s)
         /\ FillRange(Buffer(c, s), Len(s), Len(s) + 0, 0) = Buffer(c, s)
         /\ Len(s) + 1 <= c => ShiftRightSteps(Buffer(c, s), Len(s), 0) = Buffer(c, s)
<1> DEFINE b == Buffer(c, s)
<1>1. b \in Buffers(c) /\ Len(s) \in Nat /\ b = [i \in 0..(c - 1) |-> b[i]]
  BY BufferType DEF Buffer
<1>2. PICK z \in Nat : z = 0
  OBVIOUS
<1>3. z \in Values
  BY <1>2 DEF Values
<1>4. Len(s) + 1 <= c => b[Len(s)] = Dead /\ Len(s) \in 0..(c - 1)
  BY DEF Buffer
<1> HIDE DEF b
<1>5. DestroyRange(b, z, z) = b
  <2>1. DestroyRange(b, z, z) = [i \in 0..(c - 1) |-> IF i \in z..(z - 1) THEN Dead ELSE b[i]]
    BY <1>1, <1>2, DestroyRangeFact
  <2>2. \A i \in 0..(c - 1) : i \notin z..(z - 1)
    OBVIOUS
  <2> QED  BY <1>1, <2>1, <2>2
<1>6. FillRange(b, Len(s), Len(s), z) = b
  <2>1. PICK n \in Nat : n = Len(s)
    BY <1>1
  <2>2. PICK m \in Nat : m = n
    OBVIOUS
  <2>3. n <= m /\ m <= c /\ \A i \in n..(m - 1) : b[i] = Dead
    BY <2>1, <2>2
  <2>6. PICK v \in Values : v = z
    BY <1>3
  <2>7. b \in Buffers(c)
    BY <1>1
  <2>4. FillRange(b, n, m, v) = Filled(c, b, n, m, v)
    BY <2>3, <2>7, FillRangeFact
  <2>5. \A i \in 0..(c - 1) : i \notin n..(m - 1)
    BY <2>2
  <2> QED  BY <1>1, <2>1, <2>2, <2>4, <2>5, <2>6 DEF Filled
<1>7. ASSUME Len(s) + 1 <= c  PROVE ShiftRightSteps(b, Len(s), z) = b
  <2>1. ShiftRightSteps(b, Len(s), z) = ShiftedRight(c, b, Len(s), z)
    <3>1. PICK last \in 0..(c - 1) : last = Len(s) /\ b[last] = Dead
      BY <1>4, <1>7
    <3>2. z \in 0..last /\ \A i \in (last - z)..(last - 1) : b[i] \in Values
      BY <1>2
    <3>3. ShiftRightSteps(b, last, z) = ShiftedRight(c, b, last, z)
      BY <1>1, <3>1, <3>2, ShiftRightFact
    <3> QED  BY <3>1, <3>3
  <2>2. ASSUME NEW i \in 0..(c - 1)
        PROVE  (IF i \in (Len(s) - z + 1)..Len(s) THEN b[i - 1] ELSE IF i = Len(s) - z THEN Dead ELSE b[i]) = b[i]
    <3>1. i \notin (Len(s) - z + 1)..Len(s) /\ Len(s) - z = Len(s)
      BY <1>1, <1>2
    <3> QED  BY <1>4, <1>7, <3>1
  <2> QED  BY <1>1, <2>1, <2>2 DEF ShiftedRight
<1>8. Len(s) + 0 = Len(s)
  BY <1>1
<1> QED  BY <1>2, <1>5, <1>6, <1>7, <1>8 DEF b

LEMMA SameSlots ==
  ASSUME NEW c \in Nat, NEW s, NEW b, b = Buffer(c, s)
  PROVE  [Vec(c, s) EXCEPT !.slots = b] = Vec(c, s)
  BY DEF Vec

LEMMA InsertThrowsFact ==
  ASSUME NEW r, NEW s, Holds(r, s)
  PROVE  LET g == EnsureSpace(r, 1)
         IN  Holds([g EXCEPT !.slots = ShiftRightSteps(g.slots, g.size, 0)], s)
<1>1. s \in Seq(Values) /\ Len(s) \in Nat
  BY HoldsElim
<1>2. PICK g : g = EnsureSpace(r, 1)
  OBVIOUS
<1>3. Roomy(g, s, Len(s) + 1)
  BY <1>2, EnsureSpaceRoomy
<1>4. PICK d \in Nat : Len(s) <= d /\ Len(s) + 1 <= d /\ g = Vec(d, s)
  BY <1>3 DEF Roomy
<1>5. PICK b : b = ShiftRightSteps(g.slots, g.size, 0)
  OBVIOUS
<1>6. b = Buffer(d, s)
  BY <1>1, <1>4, <1>5, NoTurns, VecFields
<1>7. [g EXCEPT !.slots = b] = g
  BY <1>4, <1>6, SameSlots
<1> QED  BY <1>2, <1>3, <1>5, <1>7, RoomyHolds

LEMMA ResizeThrowsFact ==
  ASSUME NEW r, NEW s, Holds(r, s), NEW m \in Nat
  PROVE  LET g == EnsureSpace(r, m)
         IN  Holds([g EXCEPT !.slots = FillRange(g.slots, g.size, g.size + 0, 0)], s)
<1>1. s \in Seq(Values) /\ Len(s) \in Nat
  BY HoldsElim
<1>2. PICK g : g = EnsureSpace(r, m)
  OBVIOUS
<1>3. Roomy(g, s, Len(s) + m)
  BY <1>2, EnsureSpaceRoomy
<1>4. PICK d \in Nat : Len(s) <= d /\ g = Vec(d, s)
  BY <1>3 DEF Roomy
<1>5. PICK b : b = FillRange(g.slots, g.size, g.size + 0, 0)
  OBVIOUS
<1>6. b = Buffer(d, s)
  BY <1>1, <1>4, <1>5, NoTurns, VecFields
<1>7. [g EXCEPT !.slots = b] = g
  BY <1>4, <1>6, SameSlots
<1> QED  BY <1>2, <1>3, <1>5, <1>7, RoomyHolds

LEMMA AssignThrowsFact ==
  ASSUME NEW r, NEW s, Holds(r, s), NEW n \in Nat
  PROVE  LET g == GrowTo(Clear(r), n)
         IN  Holds([g EXCEPT !.slots = FillRange(g.slots, 0, 0, 0)], <<>>)
<1>1. PICK e : e = <<>> /\ e \in Seq(Values) /\ Len(e) = 0
  <2>1. <<>> \in Seq(Values) /\ Len(<<>>) = 0
    OBVIOUS
  <2> QED  BY <2>1, Zenon
<1>2. PICK g : g = GrowTo(Clear(r), n)
  OBVIOUS
<1>3. Roomy(g, e, n)
  BY <1>1, <1>2, ClearFact, GrowToRoomy
<1>4. PICK d \in Nat : Len(e) <= d /\ g = Vec(d, e)
  BY <1>3 DEF Roomy
<1>5. PICK b : b = FillRange(g.slots, 0, 0, 0)
  OBVIOUS
<1>6. b = Buffer(d, e)
  <2>1. FillRange(Buffer(d, e), Len(e), Len(e) + 0, 0) = Buffer(d, e)
    BY <1>1, <1>4, NoTurns
  <2>2. g.slots = Buffer(d, e) /\ Len(e) = 0 /\ Len(e) + 0 = 0
    BY <1>1, <1>4, VecFields
  <2> QED  BY <1>5, <2>1, <2>2
<1>7. [g EXCEPT !.slots = b] = g
  BY <1>4, <1>6, SameSlots
<1> QED  BY <1>1, <1>2, <1>3, <1>5, <1>7, RoomyHolds

LEMMA RelocateThrowsFact ==
  ASSUME NEW r, NEW s, Holds(r, s)
  PROVE  Holds([r EXCEPT !.slots = DestroyRange(@, 0, 0)], s)
<1>1. s \in Seq(Values) /\ Len(s) \in Nat
  BY HoldsElim
<1>4. PICK d \in Nat : Len(s) <= d /\ r = Vec(d, s)
  BY HoldsElim
<1>5. PICK b : b = DestroyRange(r.slots, 0, 0)
  OBVIOUS
<1>6. b = Buffer(d, s)
  BY <1>1, <1>4, <1>5, NoTurns, VecFields
<1>7. [r EXCEPT !.slots = b] = r
  BY <1>4, <1>6, SameSlots
<1> QED  BY <1>5, <1>7


-----------------------------------------------------------------------------
(* The invariant.                                                          *)

\* One vector changes, and it holds what the reference does or is not used
\* any more.
LEMMA BreaksInv ==
  ASSUME IInv, NEW o \in Objects, NEW r, NEW s, NEW bad, Breaks(o, r, s, bad),
         ~bad => r = None \/ Holds(r, s)
  PROVE  IInv'
<1>1. TypeOK'
  BY DEF IInv, TypeOK, Breaks
<1>2. ASSUME NEW x \in Usable'  PROVE Holds(obj'[x], model'[x])
  <2>1. x \in Objects /\ obj'[x] # None /\ x \notin broken'
    BY <1>2 DEF Usable, Alive
  <2>2. CASE x = o
    <3>1. obj'[x] = r /\ model'[x] = s /\ ~bad
      BY <2>1, <2>2 DEF IInv, TypeOK, Breaks
    <3> QED  BY <2>1, <3>1
  <2>3. CASE x # o
    <3>1. obj'[x] = obj[x] /\ model'[x] = model[x] /\ x \notin broken
      BY <2>1, <2>3 DEF IInv, TypeOK, Breaks
    <3>2. x \in Usable
      BY <2>1, <3>1 DEF Usable, Alive
    <3> QED  BY <3>1, <3>2 DEF IInv, HoldInv
  <2> QED  BY <2>2, <2>3
<1>3. HoldInv'
  BY <1>2, Zenon DEF HoldInv
<1> QED  BY <1>1, <1>3 DEF IInv

LEMMA BecomesInv ==
  ASSUME IInv, NEW o \in Objects, NEW r, NEW s, Becomes(o, r, s), r = None \/ Holds(r, s)
  PROVE  IInv'
<1>1. Breaks(o, r, s, FALSE)
  BY DEF Becomes, Breaks
<1> QED  BY <1>1, BreaksInv

\* Two vectors change, as in a move or a swap.
LEMMA PairInv ==
  ASSUME IInv, NEW o \in Objects, NEW x \in Objects, o # x, NEW r1, NEW s1, NEW r2, NEW s2,
         Holds(r1, s1), Holds(r2, s2),
         obj' = [obj EXCEPT ![o] = r1, ![x] = r2], model' = [model EXCEPT ![o] = s1, ![x] = s2],
         broken' = broken
  PROVE  IInv'
<1>1. TypeOK'
  BY DEF IInv, TypeOK
<1>2. ASSUME NEW y \in Usable'  PROVE Holds(obj'[y], model'[y])
  <2>1. y \in Objects /\ obj'[y] # None /\ y \notin broken
    BY <1>2 DEF Usable, Alive
  <2>2. CASE y = o
    BY <2>2 DEF IInv, TypeOK
  <2>3. CASE y = x
    BY <2>3 DEF IInv, TypeOK
  <2>4. CASE y # o /\ y # x
    <3>1. obj'[y] = obj[y] /\ model'[y] = model[y]
      BY <2>1, <2>4 DEF IInv, TypeOK
    <3>2. y \in Usable
      BY <2>1, <3>1 DEF Usable, Alive
    <3> QED  BY <3>1, <3>2 DEF IInv, HoldInv
  <2> QED  BY <2>2, <2>3, <2>4
<1>3. HoldInv'
  BY <1>2, Zenon DEF HoldInv
<1> QED  BY <1>1, <1>3 DEF IInv

LEMMA UsableHolds ==
  ASSUME IInv, NEW o \in Usable
  PROVE  Holds(obj[o], model[o])
  BY DEF IInv, HoldInv

LEMMA ListsFact ==
  ASSUME NEW s \in Lists
  PROVE  s \in Seq(Values) /\ Len(s) \in Nat
<1>1. PICK n \in 0..(MaxLen - 1) : s = [i \in 1..n |-> (i + 1) % K]
  BY DEF Lists
<1>2. \A i \in 1..n : (i + 1) % K \in Values
  BY DEF Values
<1> QED  BY <1>1, <1>2

LEMMA LengthsFact ==
  ASSUME NEW n \in Lengths
  PROVE  n \in Nat
  BY DEF Lengths

LEMMA NoBufferHolds == Holds(NoBuffer, <<>>)
  BY NoBufferFact, HoldsNothing

LEMMA CopyOfFact ==
  ASSUME IInv, NEW x \in Usable
  PROVE  Holds(CopyOf(x), model[x])
<1>1. Holds(obj[x], model[x])
  BY UsableHolds
<1>2. Contents(obj[x]) = model[x] /\ obj[x].size = Len(model[x]) /\ model[x] \in Seq(Values)
  BY <1>1, ContentsFact, HoldsElim
<1> QED  BY <1>2, ListFact DEF CopyOf

LEMMA ConstructionInv ==
  ASSUME IInv, NEW o \in Objects, Construction(o)
  PROVE  IInv'
<1>1. ASSUME NEW n \in Lengths, NEW v \in Values, ConstructCount(o, n, v)  PROVE IInv'
  <2> DEFINE r == [slots |-> FillRange(GrowTo(NoBuffer, n).slots, 0, n, v), size |-> n]
  <2>1. Holds(r, Copies(n, v))
    BY LengthsFact, NoBufferHolds, RefillCopiesFact
  <2>2. Becomes(o, r, Copies(n, v))
    BY <1>1 DEF ConstructCount
  <2> HIDE DEF r
  <2> QED  BY <2>1, <2>2, BecomesInv
<1>2. ASSUME NEW s \in Lists, ConstructRange(o, s)  PROVE IInv'
  <2>1. Holds(PushAll(NoBuffer, s), s)
    BY ListsFact, NoBufferHolds, PushAllFact
  <2> QED  BY <1>2, <2>1, BecomesInv DEF ConstructRange
<1>3. ASSUME NEW s \in Lists, ConstructList(o, s)  PROVE IInv'
  <2>1. Holds(PlaceAll(GrowTo(NoBuffer, Len(s)), s), s)
    BY ListsFact, ListFact
  <2> QED  BY <1>3, <2>1, BecomesInv DEF ConstructList
<1>4. ASSUME NEW x \in Objects, ConstructCopy(o, x)  PROVE IInv'
  <2>1. x \in Usable /\ Becomes(o, CopyOf(x), model[x])
    BY <1>4 DEF ConstructCopy
  <2> QED  BY <2>1, CopyOfFact, BecomesInv
<1>5. ASSUME NEW x \in Objects, ConstructMove(o, x)  PROVE IInv'
  <2>1. o # x /\ x \in Usable /\ TakeOver(o, x)
    BY <1>5 DEF ConstructMove, Usable
  <2>2. Holds(obj[x], model[x])
    BY <2>1, UsableHolds
  <2> QED  BY <2>1, <2>2, NoBufferHolds, PairInv DEF TakeOver
<1>6. CASE Destruct(o)
  BY <1>6, BecomesInv DEF Destruct
<1> QED  BY <1>1, <1>2, <1>3, <1>4, <1>5, <1>6 DEF Construction

LEMMA AssignmentInv ==
  ASSUME IInv, NEW o \in Objects, Assignment(o)
  PROVE  IInv'
<1>1. ASSUME NEW x \in Objects, AssignCopy(o, x)  PROVE IInv'
  <2>1. x \in Usable /\ Becomes(o, CopyOf(x), model[x])
    BY <1>1 DEF AssignCopy
  <2> QED  BY <2>1, CopyOfFact, BecomesInv
<1>2. ASSUME NEW x \in Objects, AssignMove(o, x)  PROVE IInv'
  <2>1. o # x /\ x \in Usable /\ TakeOver(o, x)
    BY <1>2 DEF AssignMove
  <2>2. Holds(obj[x], model[x])
    BY <2>1, UsableHolds
  <2> QED  BY <2>1, <2>2, NoBufferHolds, PairInv DEF TakeOver
<1>3. ASSUME NEW x \in Objects, Swap(o, x)  PROVE IInv'
  <2>1. o # x /\ x \in Usable /\ o \in Usable
    BY <1>3 DEF Swap
  <2>2. Holds(obj[x], model[x]) /\ Holds(obj[o], model[o])
    BY <2>1, UsableHolds
  <2> QED  BY <1>3, <2>1, <2>2, PairInv DEF Swap
<1>4. ASSUME NEW s \in Lists, AssignListByCopy(o, s)  PROVE IInv'
  <2>1. Holds(PlaceAll(GrowTo(NoBuffer, Len(s)), s), s)
    BY ListsFact, ListFact
  <2> QED  BY <1>4, <2>1, BecomesInv DEF AssignListByCopy
<1>5. ASSUME NEW s \in Lists, AssignRange(o, s)  PROVE IInv'
  <2>1. Holds(Clear(obj[o]), <<>>)
    BY <1>5, UsableHolds, ClearFact DEF AssignRange
  <2>2. Holds(PushAll(Clear(obj[o]), s), s)
    BY <2>1, ListsFact, PushAllFact
  <2> QED  BY <1>5, <2>2, BecomesInv DEF AssignRange
<1>6. ASSUME NEW s \in Lists, AssignList(o, s)  PROVE IInv'
  <2>1. Holds(Clear(obj[o]), <<>>)
    BY <1>6, UsableHolds, ClearFact DEF AssignList
  <2>2. Holds(PlaceAll(GrowTo(Clear(obj[o]), Len(s)), s), s)
    BY <2>1, ListsFact, RefillFact
  <2> QED  BY <1>6, <2>2, BecomesInv DEF AssignList
<1>7. ASSUME NEW n \in Lengths, NEW v \in Values, AssignCount(o, n, v)  PROVE IInv'
  <2>1. Holds(Clear(obj[o]), <<>>)
    BY <1>7, UsableHolds, ClearFact DEF AssignCount
  <2> DEFINE r == [slots |-> FillRange(GrowTo(Clear(obj[o]), n).slots, 0, n, v), size |-> n]
  <2>2. Holds(r, Copies(n, v))
    BY <2>1, LengthsFact, RefillCopiesFact
  <2>3. Becomes(o, r, Copies(n, v))
    BY <1>7 DEF AssignCount
  <2> HIDE DEF r
  <2> QED  BY <2>2, <2>3, BecomesInv
<1> QED  BY <1>1, <1>2, <1>3, <1>4, <1>5, <1>6, <1>7 DEF Assignment


LEMMA UseInv ==
  ASSUME IInv, NEW o \in Objects, Use(o)
  PROVE  IInv'
<1> DEFINE r == obj[o]
           s == model[o]
<1>0. ASSUME o \in Usable
      PROVE  Holds(r, s) /\ s \in Seq(Values) /\ Len(s) \in Nat /\ r.size = Len(s)
  BY <1>0, UsableHolds, HoldsElim
<1> HIDE DEF r, s
<1>1. ASSUME NEW n \in Lengths, Reserve(o, n)  PROVE IInv'
  <2>1. Holds(GrowTo(r, n), s)
    BY <1>0, <1>1, LengthsFact, GrowToRoomy, RoomyHolds DEF Reserve
  <2> QED  BY <1>1, <2>1, BecomesInv DEF Reserve, r, s
<1>2. CASE ShrinkToFit(o)
  <2>1. Holds(r, s) /\ s \in Seq(Values) /\ Len(s) \in Nat /\ r.size = Len(s)
    BY <1>0, <1>2 DEF ShrinkToFit
  <2>2. PICK c \in Nat : Len(s) <= c /\ r = Vec(c, s)
    BY <2>1, HoldsElim
  <2>3. PICK n \in Nat : n = Len(s)
    BY <2>1
  <2>4. Reallocate(r, n) = Vec(n, s)
    BY <2>1, <2>2, <2>3, ReallocateFact
  <2>5. Holds(Reallocate(r, r.size), s)
    BY <2>1, <2>3, <2>4, HoldsIntro
  <2> QED  BY <1>2, <2>5, BecomesInv DEF ShrinkToFit, r, s
<1>3. CASE ClearAll(o)
  <2>1. Holds(Clear(r), <<>>)
    BY <1>0, <1>3, ClearFact DEF ClearAll
  <2> QED  BY <1>3, <2>1, BecomesInv DEF ClearAll, r
<1>4. CASE PopBack(o)
  <2> DEFINE q == [slots |-> Destroy(r.slots, r.size - 1), size |-> r.size - 1]
  <2>1. Holds(q, SubSeq(s, 1, Len(s) - 1))
    BY <1>0, <1>4, PopBackFact DEF PopBack, s
  <2>2. Becomes(o, q, SubSeq(s, 1, Len(s) - 1))
    BY <1>4 DEF PopBack, r, s
  <2> HIDE DEF q
  <2> QED  BY <2>1, <2>2, BecomesInv
<1>5. ASSUME NEW v \in Values, Push(o, v)  PROVE IInv'
  <2>1. Holds(PushBack(r, v), Append(s, v))
    BY <1>0, <1>5, PushBackFact DEF Push
  <2> QED  BY <1>5, <2>1, BecomesInv DEF Push, r, s
<1>6. ASSUME NEW v \in Values, NEW off \in Lengths, Insert(o, off, v)  PROVE IInv'
  <2> DEFINE q == [slots |-> Place(Opened(r, off), off, v), size |-> r.size + 1]
  <2>1. Holds(r, s) /\ off \in 0..Len(s)
    BY <1>0, <1>6, LengthsFact DEF Insert, s
  <2>2. Holds(q, Inserted(s, off, v))
    BY <2>1, InsertFact
  <2>3. Becomes(o, q, Inserted(s, off, v))
    BY <1>6 DEF Insert, r, s
  <2> HIDE DEF q
  <2> QED  BY <2>2, <2>3, BecomesInv
<1>7. ASSUME NEW v \in Values, NEW n \in Lengths, Resize(o, n, v)  PROVE IInv'
  <2>1. Holds(r, s) /\ n \in Nat /\ o \in Usable
    BY <1>0, <1>7, LengthsFact DEF Resize
  <2>2. CASE n < r.size
    <3> DEFINE q == [slots |-> DestroyRange(r.slots, n, r.size), size |-> n]
    <3>1. Holds(q, SubSeq(s, 1, n))
      BY <2>1, <2>2, ShrinkFact
    <3>2. Becomes(o, q, SubSeq(s, 1, n))
      BY <1>7, <2>2 DEF Resize, r, s
    <3> HIDE DEF q
    <3> QED  BY <3>1, <3>2, BecomesInv
  <2>3. CASE ~(n < r.size)
    <3> DEFINE q == [slots |-> FillRange(EnsureSpace(r, n - r.size).slots, r.size, n, v), size |-> n]
    <3>1. Holds(q, s \o Copies(n - r.size, v))
      BY <2>1, <2>3, ResizeFact
    <3>2. Becomes(o, q, s \o Copies(n - r.size, v))
      BY <1>7, <2>3 DEF Resize, r, s
    <3> HIDE DEF q
    <3> QED  BY <3>1, <3>2, BecomesInv
  <2> QED  BY <2>2, <2>3
<1>8. ASSUME NEW first \in Lengths, NEW last \in Lengths, Erase(o, first, last)  PROVE IInv'
  <2>1. Holds(r, s) /\ first \in Nat /\ last \in Nat /\ first <= last /\ last <= Len(s)
    BY <1>0, <1>8, LengthsFact DEF Erase, s
  <2>2. Holds(Erased(r, first, last), Removed(s, first, last))
    BY <2>1, ErasedFact
  <2>3. Becomes(o, Erased(r, first, last), Removed(s, first, last))
    BY <1>8 DEF Erase, Removed, r, s
  <2> QED  BY <2>2, <2>3, BecomesInv
<1>9. ASSUME NEW off \in Lengths, NEW j \in Lengths, InsertOwn(o, off, j)  PROVE IInv'
  <2> DEFINE hole == Opened(r, off)
             right == HasSpace(r, 1) /\ (j < off \/ (trivial /\ j = off))
             q(v) == [slots |-> Place(hole, off, v), size |-> r.size + 1]
             u == Inserted(s, off, s[j + 1])
  <2>1. Holds(r, s) /\ off \in 0..Len(s) /\ j \in Nat /\ j < Len(s)
    BY <1>0, <1>9, LengthsFact DEF InsertOwn, s
  <2>2. PICK v \in IF HasSpace(r, 1) /\ hole[j] # Dead THEN {hole[j]} ELSE Values : Breaks(o, q(v), u, ~right)
    BY <1>9 DEF InsertOwn, r, s
  <2>3. ASSUME right  PROVE Holds(q(v), u)
    <3>1. hole[j] = s[j + 1] /\ s[j + 1] \in Values
      BY <2>1, <2>3, OwnFact
    <3>2. v = s[j + 1]
      BY <2>2, <2>3, <3>1
    <3> QED  BY <2>1, <3>1, <3>2, InsertFact
  <2> HIDE DEF q, u
  <2> HIDE DEF right
  <2> QED  BY <2>2, <2>3, BreaksInv
<1>10. ASSUME NEW j \in Lengths, PushOwn(o, j)  PROVE IInv'
  <2> DEFINE stays == HasSpace(r, 1)
             u == Append(s, s[j + 1])
  <2>1. Holds(r, s) /\ s \in Seq(Values) /\ Len(s) \in Nat /\ j \in Nat /\ j < Len(s)
    BY <1>0, <1>10, LengthsFact DEF PushOwn, s
  <2>2. PICK v \in IF stays THEN {r.slots[j]} ELSE Values : Breaks(o, PushBack(r, v), u, ~stays)
    BY <1>10 DEF PushOwn, r, s
  <2>3. ASSUME stays  PROVE Holds(PushBack(r, v), u)
    <3>1. r.slots[j] = s[j + 1] /\ s[j + 1] \in Values
      BY <2>1, OwnSlot
    <3>2. v = s[j + 1]
      BY <2>2, <2>3, <3>1
    <3> QED  BY <2>1, <3>1, <3>2, PushBackFact
  <2> HIDE DEF u, stays
  <2> QED  BY <2>2, <2>3, BreaksInv
<1>11. ASSUME NEW n \in Lengths, NEW j \in Lengths, ResizeOwn(o, n, j)  PROVE IInv'
  <2> DEFINE stays == HasSpace(r, n - r.size)
             q(v) == [slots |-> FillRange(EnsureSpace(r, n - r.size).slots, r.size, n, v), size |-> n]
             u == s \o Copies(n - r.size, s[j + 1])
  <2>1. /\ Holds(r, s) /\ s \in Seq(Values) /\ Len(s) \in Nat /\ r.size = Len(s)
        /\ j \in Nat /\ j < Len(s) /\ n \in Nat /\ ~(n < r.size)
    BY <1>0, <1>11, LengthsFact, HoldsElim DEF ResizeOwn, s
  <2>2. PICK v \in IF stays THEN {r.slots[j]} ELSE Values : Breaks(o, q(v), u, ~stays)
    BY <1>11 DEF ResizeOwn, r, s
  <2>3. ASSUME stays  PROVE Holds(q(v), u)
    <3>1. r.slots[j] = s[j + 1] /\ s[j + 1] \in Values
      BY <2>1, OwnSlot
    <3>2. v = s[j + 1]
      BY <2>2, <2>3, <3>1
    <3> QED  BY <2>1, <3>1, <3>2, ResizeFact
  <2> HIDE DEF q, u, stays
  <2> QED  BY <2>2, <2>3, BreaksInv
<1> QED  BY <1>1, <1>2, <1>3, <1>4, <1>5, <1>6, <1>7, <1>8, <1>9, <1>10, <1>11 DEF Use


LEMMA ThrowInv ==
  ASSUME IInv, NEW o \in Objects, Throw(o)
  PROVE  IInv'
<1> DEFINE r == obj[o]
           s == model[o]
<1>0. ASSUME MayThrow(o)  PROVE Holds(r, s) /\ Len(s) \in Nat /\ r.size = Len(s)
  BY <1>0, UsableHolds, HoldsElim DEF MayThrow
<1> HIDE DEF r, s
<1>1. CASE PushThrows(o)
  BY <1>1, BreaksInv DEF PushThrows
<1>2. ASSUME NEW k \in Lengths, RelocateThrows(o, k)  PROVE IInv'
  <2>1. Holds(r, s) /\ k \in Nat
    BY <1>0, <1>2, LengthsFact DEF RelocateThrows
  <2> DEFINE q == [r EXCEPT !.slots = DestroyRange(@, 0, k)]
  <2>2. Breaks(o, q, s, k > 0)
    BY <1>2 DEF RelocateThrows, r, s
  <2>3. ASSUME k = 0  PROVE Holds(q, s)
    BY <2>1, <2>3, RelocateThrowsFact
  <2> HIDE DEF q
  <2>4. ~(k > 0) => Holds(q, s)
    BY <2>1, <2>3
  <2> QED  BY <2>2, <2>4, BreaksInv
<1>3. ASSUME NEW off \in Lengths, NEW k \in Lengths, InsertThrows(o, off, k)  PROVE IInv'
  <2>1. Holds(r, s) /\ k \in Nat
    BY <1>0, <1>3, LengthsFact DEF InsertThrows
  <2> DEFINE g == EnsureSpace(r, 1)
             q == [g EXCEPT !.slots = ShiftRightSteps(g.slots, g.size, k)]
  <2>2. Breaks(o, q, s, k > 0)
    BY <1>3 DEF InsertThrows, r, s
  <2>3. ASSUME k = 0  PROVE Holds(q, s)
    BY <2>1, <2>3, InsertThrowsFact
  <2> HIDE DEF q
  <2>4. ~(k > 0) => Holds(q, s)
    BY <2>1, <2>3
  <2> QED  BY <2>2, <2>4, BreaksInv
<1>4. ASSUME NEW n \in Lengths, NEW k \in Lengths, ResizeThrows(o, n, k)  PROVE IInv'
  <2>1. Holds(r, s) /\ k \in Nat /\ n \in Nat /\ r.size = Len(s) /\ Len(s) \in Nat /\ Len(s) + k < n
    BY <1>0, <1>4, LengthsFact DEF ResizeThrows, s
  <2>2. PICK m \in Nat : m = n - r.size
    BY <2>1
  <2> DEFINE g == EnsureSpace(r, m)
             q == [g EXCEPT !.slots = FillRange(g.slots, g.size, g.size + k, 0)]
  <2>3. Breaks(o, q, s, k > 0)
    BY <1>4, <2>2 DEF ResizeThrows, r, s
  <2>4. ASSUME k = 0  PROVE Holds(q, s)
    BY <2>1, <2>4, ResizeThrowsFact
  <2> HIDE DEF q
  <2>5. ~(k > 0) => Holds(q, s)
    BY <2>1, <2>4
  <2> QED  BY <2>3, <2>5, BreaksInv
<1>5. ASSUME NEW n \in Lengths, NEW k \in Lengths, AssignThrows(o, n, k)  PROVE IInv'
  <2>1. Holds(r, s) /\ k \in Nat /\ n \in Nat
    BY <1>0, <1>5, LengthsFact DEF AssignThrows
  <2> DEFINE g == GrowTo(Clear(r), n)
             q == [g EXCEPT !.slots = FillRange(g.slots, 0, k, 0)]
  <2>2. Breaks(o, q, <<>>, k > 0)
    BY <1>5 DEF AssignThrows, r
  <2>3. ASSUME k = 0  PROVE Holds(q, <<>>)
    BY <2>1, <2>3, AssignThrowsFact
  <2> HIDE DEF q
  <2>4. ~(k > 0) => Holds(q, <<>>)
    BY <2>1, <2>3
  <2> QED  BY <2>2, <2>4, BreaksInv
<1>6. ASSUME NEW first \in Lengths, NEW last \in Lengths, NEW k \in Lengths, EraseThrows(o, first, last, k)
      PROVE  IInv'
  BY <1>6, BreaksInv DEF EraseThrows
<1> QED  BY <1>1, <1>2, <1>3, <1>4, <1>5, <1>6 DEF Throw

\* Whatever is done to a vector, one that is not broken owns a buffer with the
\* elements of the reference in its first slots and nothing in the others:
\* every loop of every member moves, constructs and destroys exactly those.
THEOREM IInvCorrect == Spec => []IInv
<1>1. Init => IInv
  BY DEF Init, IInv, TypeOK, HoldInv, Usable, Alive
<1>2. IInv /\ [Next]_vars => IInv'
  <2> SUFFICES ASSUME IInv, [Next]_vars  PROVE IInv'
    OBVIOUS
  <2>1. ASSUME NEW o \in Objects, Construction(o) \/ Assignment(o) \/ Use(o) \/ Throw(o)  PROVE IInv'
    BY <2>1, ConstructionInv, AssignmentInv, UseInv, ThrowInv
  <2>2. CASE UNCHANGED vars
    BY <2>2 DEF vars, IInv, TypeOK, HoldInv, Usable, Alive
  <2> QED  BY <2>1, <2>2 DEF Next
<1> QED  BY <1>1, <1>2, PTL DEF Spec

\* operator==: two vectors are equal exactly when their elements are, whatever
\* their capacities.
LEMMA EqualFact ==
  ASSUME NEW r1, NEW s1, Holds(r1, s1), NEW r2, NEW s2, Holds(r2, s2)
  PROVE  Equal(r1, r2) <=> s1 = s2
<1>1. PICK c1 \in Nat : Len(s1) <= c1 /\ r1 = Vec(c1, s1)
  BY HoldsElim
<1>2. PICK c2 \in Nat : Len(s2) <= c2 /\ r2 = Vec(c2, s2)
  BY HoldsElim
<1>3. /\ s1 \in Seq(Values) /\ Len(s1) \in Nat /\ r1.size = Len(s1)
      /\ s2 \in Seq(Values) /\ Len(s2) \in Nat /\ r2.size = Len(s2)
  BY HoldsElim
<1>4. /\ \A i \in 0..(Len(s1) - 1) : r1.slots[i] = s1[i + 1]
      /\ \A i \in 0..(Len(s2) - 1) : r2.slots[i] = s2[i + 1]
  <2>1. r1.slots = Buffer(c1, s1) /\ r2.slots = Buffer(c2, s2)
    BY <1>1, <1>2, VecFields
  <2> QED  BY <1>1, <1>2, <1>3, <2>1 DEF Buffer
<1>5. ASSUME Equal(r1, r2)  PROVE s1 = s2
  <2>1. Len(s1) = Len(s2)
    BY <1>3, <1>5 DEF Equal
  <2>2. ASSUME NEW i \in 1..Len(s1)  PROVE s1[i] = s2[i]
    <3>1. PICK k \in 0..(Len(s1) - 1) : k = i - 1 /\ k + 1 = i
      BY <1>3
    <3>2. r1.slots[k] = r2.slots[k]
      BY <1>3, <1>5 DEF Equal
    <3> QED  BY <1>4, <2>1, <3>1, <3>2
  <2> QED  BY <1>3, <2>1, <2>2
<1>6. ASSUME s1 = s2  PROVE Equal(r1, r2)
  BY <1>3, <1>4, <1>6 DEF Equal
<1> QED  BY <1>5, <1>6

\* A vector that is not broken iterates and compares as a std::vector would
\* after the same history, for any number of vectors, values and elements.
THEOREM ActsAsVectorCorrect == Spec => []ActsAsVector
<1>1. IInv => ActsAsVector
  <2> SUFFICES ASSUME IInv, NEW o \in Usable
               PROVE  /\ Contents(obj[o]) = model[o]
                      /\ \A x \in Usable : Equal(obj[o], obj[x]) <=> model[o] = model[x]
    BY DEF ActsAsVector
  <2>1. Holds(obj[o], model[o])
    BY UsableHolds
  <2>2. ASSUME NEW x \in Usable  PROVE Equal(obj[o], obj[x]) <=> model[o] = model[x]
    BY <2>1, UsableHolds, EqualFact
  <2> QED  BY <2>1, <2>2, ContentsFact
<1> QED  BY <1>1, IInvCorrect, PTL

\* No loop of a vector that is not broken constructs over a live element,
\* destroys one twice or forgets one: elements live exactly in the slots
\* below size_.
THEOREM LifetimesExactCorrect == Spec => []LifetimesExact
<1>1. IInv => LifetimesExact
  <2> SUFFICES ASSUME IInv, NEW o \in Usable, NEW i \in DOMAIN obj[o].slots
               PROVE  /\ obj[o].slots[i] \in Values \cup {Dead}
                      /\ obj[o].slots[i] # Dead <=> i < obj[o].size
    BY DEF LifetimesExact
  <2>1. Holds(obj[o], model[o])
    BY UsableHolds
  <2>2. PICK c \in Nat : Len(model[o]) <= c /\ obj[o] = Vec(c, model[o])
    BY <2>1, HoldsElim
  <2>3. obj[o].slots = Buffer(c, model[o]) /\ obj[o].size = Len(model[o]) /\ model[o] \in Seq(Values)
    BY <2>1, <2>2, VecFields, HoldsElim
  <2>4. i \in 0..(c - 1)
    BY <2>3 DEF Buffer
  <2>5. obj[o].slots[i] = IF i < Len(model[o]) THEN model[o][i + 1] ELSE Dead
    BY <2>3, <2>4 DEF Buffer
  <2> QED  BY <2>3, <2>4, <2>5
<1> QED  BY <1>1, IInvCorrect, PTL
=============================================================================
