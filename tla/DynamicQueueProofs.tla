-------------------------- MODULE DynamicQueueProofs --------------------------
(***************************************************************************)
(* Proofs about DynamicQueue, for any number of queues, buffers and        *)
(* elements.  The inductive invariant says of every queue that is not      *)
(* broken what its storage holds, slot by slot from head_ on, and of every *)
(* buffer who owns it.                                                     *)
(***************************************************************************)
EXTENDS DynamicQueue, Arithmetic, SequenceTheorems

USE ValueAssumption, BoundsAssumption, SizeAssumption

-----------------------------------------------------------------------------
(* The inductive invariant.                                                *)

Storage == UNION {[0..(n - 1) -> Cells] : n \in 0..MaxSize}
Heaps == [Buffers -> Storage \cup {None}]

\* The slot of the i-th element, counted from head_.
Slot(r, i) == IF r.head + i < r.cap THEN r.head + i ELSE r.head + i - r.cap

\* The fields of a queue that has a buffer.
Ring(r) == /\ r \in Fields /\ r.buf # None
           /\ r.cap \in 2..MaxSize /\ r.mask = r.cap - 1
           /\ r.head \in 0..(r.cap - 1) /\ r.tail \in 0..(r.cap - 1)

\* In heap m, a queue with fields r holds exactly the elements s: they live
\* from head_ on, one slot at least is free, and every other slot is raw.
Holds(m, r, s) ==
  /\ s \in Seq(Values)
  /\ r = NoBuffer => s = <<>>
  /\ r # NoBuffer =>
       /\ Ring(r) /\ Len(s) < r.cap /\ r.tail = Slot(r, Len(s))
       /\ m[r.buf] \in [0..(r.cap - 1) -> Cells]
       /\ \A i \in 0..(r.cap - 1) :
            m[r.buf][Slot(r, i)] = IF i < Len(s) THEN s[i + 1] ELSE Raw

\* The buffer of an object, None when there is none.
BufOf(o) == IF obj[o] = None THEN None ELSE obj[o].buf

TypeOK == /\ mem \in Heaps
          /\ obj \in [Objects -> Fields \cup {None}]
          /\ model \in [Objects -> Seq(Values) \cup {None}]
          /\ leaked \subseteq Buffers

HoldInv == \A o \in Usable : Holds(mem, obj[o], model[o]) /\ Len(model[o]) <= MaxLen

OwnInv == /\ \A x, y \in Objects : BufOf(x) = BufOf(y) => x = y \/ BufOf(x) = None
          /\ \A o \in Objects : BufOf(o) \notin leaked
          /\ \A b \in Buffers : mem[b] # None <=> b \in leaked \/ \E o \in Objects : BufOf(o) = b

IInv == TypeOK /\ HoldInv /\ OwnInv

-----------------------------------------------------------------------------
(* Arithmetic of the slots.                                                *)

\* The mask at work on a number below two laps.
LEMMA AndFact ==
  ASSUME NEW c \in Nat, c >= 1, NEW x \in 0..(2 * c - 1)
  PROVE  And(x, c - 1) = IF x < c THEN x ELSE x - c
<1>1. (c - 1) + 1 = c  OBVIOUS
<1>2. CASE x < c
  <2>1. x % c = x  BY <1>2, FirstLap
  <2> QED  BY <1>1, <1>2, <2>1 DEF And
<1>3. CASE ~(x < c)
  <2> DEFINE y == x - c
  <2>1. y \in 0..(c - 1) /\ y \in Nat /\ x = y + c  BY <1>3
  <2> HIDE DEF y
  <2>2. (y + c) % c = y % c  BY <2>1, NextLap
  <2>3. y % c = y  BY <2>1, FirstLap
  <2>4. y = x - c  BY <2>1
  <2> QED  BY <1>1, <1>3, <2>1, <2>2, <2>3, <2>4 DEF And
<1> QED  BY <1>2, <1>3

\* The i-th slot from head_, as the code computes it.
LEMMA SlotFact ==
  ASSUME NEW r, Ring(r), NEW i \in 0..(r.cap - 1)
  PROVE  And(r.head + i, r.mask) = Slot(r, i) /\ Slot(r, i) \in 0..(r.cap - 1)
<1>1. r.cap \in Nat /\ r.cap >= 1 /\ r.mask = r.cap - 1 /\ r.head \in 0..(r.cap - 1)  BY DEF Ring
<1>2. r.head + i \in 0..(2 * r.cap - 1)  BY <1>1
<1>3. And(r.head + i, r.cap - 1) = IF r.head + i < r.cap THEN r.head + i ELSE r.head + i - r.cap
  BY <1>1, <1>2, AndFact
<1> QED  BY <1>1, <1>3 DEF Slot

\* Every slot is counted once.
LEMMA SlotUnique ==
  ASSUME NEW r, Ring(r), NEW i \in 0..(r.cap - 1), NEW j \in 0..(r.cap - 1), Slot(r, i) = Slot(r, j)
  PROVE  i = j
  BY DEF Ring, Slot

LEMMA SlotExists ==
  ASSUME NEW r, Ring(r), NEW j \in 0..(r.cap - 1)
  PROVE  \E i \in 0..(r.cap - 1) : Slot(r, i) = j
<1> DEFINE i == IF j >= r.head THEN j - r.head ELSE j - r.head + r.cap
<1>1. i \in 0..(r.cap - 1) /\ Slot(r, i) = j  BY DEF Ring, Slot
<1> QED  BY <1>1

\* The distance from head_ to tail_, n slots further on a ring of c.
LEMMA Distance ==
  ASSUME NEW c \in Nat, NEW h \in 0..(c - 1), NEW n \in 0..(c - 1), NEW t \in 0..(c - 1),
         t = IF h + n < c THEN h + n ELSE h + n - c
  PROVE  And(t - h + c, c - 1) = n
<1>1. t - h + c \in 0..(2 * c - 1) /\ c >= 1  OBVIOUS
<1>2. And(t - h + c, c - 1) = IF t - h + c < c THEN t - h + c ELSE (t - h + c) - c
  BY <1>1, AndFact
<1>3. CASE h + n < c
  BY <1>2, <1>3
<1>4. CASE ~(h + n < c)
  BY <1>2, <1>4
<1> QED  BY <1>3, <1>4

\* size() is the distance from head_ to tail_.
LEMMA SizeFact ==
  ASSUME NEW m, NEW r, NEW s, Holds(m, r, s)
  PROVE  Size(r) = Len(s) /\ Len(s) \in Nat
<1>0. s \in Seq(Values) /\ Len(s) \in Nat  BY DEF Holds
<1>1. CASE r = NoBuffer
  <2>1. Len(s) = 0  BY <1>1 DEF Holds
  <2>2. Size(r) = (0 - 0 + 0) % (0 + 1)  BY <1>1 DEF NoBuffer, Size, And
  <2> QED  BY <1>0, <2>1, <2>2
<1>2. CASE r # NoBuffer
  <2>1. Ring(r) /\ Len(s) < r.cap /\ r.tail = Slot(r, Len(s))  BY <1>2 DEF Holds
  <2>2. r.cap \in Nat /\ r.cap >= 1 /\ r.mask = r.cap - 1 /\ r.head \in 0..(r.cap - 1) /\ r.tail \in 0..(r.cap - 1)
    BY <2>1 DEF Ring
  <2>3. Len(s) \in 0..(r.cap - 1)  BY <1>0, <2>1, <2>2
  <2>4. r.tail = IF r.head + Len(s) < r.cap THEN r.head + Len(s) ELSE r.head + Len(s) - r.cap
    BY <2>1 DEF Slot
  <2>5. And(r.tail - r.head + r.cap, r.cap - 1) = Len(s)  BY <2>2, <2>3, <2>4, Distance
  <2> QED  BY <1>0, <2>2, <2>5 DEF Size
<1> QED  BY <1>1, <1>2

\* The slots of the elements.
LEMMA LiveFact ==
  ASSUME NEW m, NEW r, NEW s, Holds(m, r, s), r # NoBuffer
  PROVE  Live(r) = {Slot(r, i) : i \in 0..(Len(s) - 1)}
<1>1. Ring(r) /\ Len(s) < r.cap /\ Len(s) \in Nat /\ r.cap \in Nat  BY DEF Holds, Ring
<1>2. Size(r) = Len(s)  BY SizeFact
<1>3. \A i \in 0..(Len(s) - 1) : And(r.head + i, r.mask) = Slot(r, i)  BY <1>1, SlotFact
<1> QED  BY <1>2, <1>3 DEF Live

\* A queue is known by its fields and its own buffer.
LEMMA HoldsFrame ==
  ASSUME NEW m, NEW w, NEW r, NEW s, Holds(m, r, s), r # NoBuffer => w[r.buf] = m[r.buf]
  PROVE  Holds(w, r, s)
  BY DEF Holds

\* A queue without a buffer is empty in every heap.
LEMMA HoldsNothing ==
  ASSUME NEW m
  PROVE  Holds(m, NoBuffer, <<>>)
  BY DEF Holds

\* The fields of a queue.
LEMMA HoldsFields ==
  ASSUME NEW m, NEW r, NEW s, Holds(m, r, s)
  PROVE  /\ r \in Fields
         /\ s \in Seq(Values)
         /\ r.buf = None <=> r = NoBuffer
         /\ r.buf # None => r.buf \in Buffers /\ m[r.buf] \in Storage /\ r.cap \in 2..MaxSize
<1>1. NoBuffer \in Fields /\ NoBuffer.buf = None  BY DEF NoBuffer, Fields
<1>2. ASSUME r # NoBuffer
      PROVE  r \in Fields /\ r.buf # None /\ r.buf \in Buffers /\ r.cap \in 2..MaxSize
  BY <1>2 DEF Holds, Ring, Fields
<1>3. ASSUME r # NoBuffer  PROVE m[r.buf] \in Storage
  <2>1. m[r.buf] \in [0..(r.cap - 1) -> Cells] /\ r.cap \in 0..MaxSize  BY <1>2, <1>3 DEF Holds
  <2> QED  BY <2>1 DEF Storage
<1>4. s \in Seq(Values)  BY DEF Holds
<1> QED  BY <1>1, <1>2, <1>3, <1>4

-----------------------------------------------------------------------------
(* What the helpers do to a queue and to the heap.                         *)

\* A queue whose buffer was old may become st in a heap that was m: it keeps
\* or frees the old buffer, takes at most one that was not in use, and leaves
\* the rest of the heap alone.
Replaces(m, old, st) ==
  /\ st.m \in Heaps
  /\ \A x \in Buffers \ {old, st.r.buf} : st.m[x] = m[x]
  /\ st.r.buf \notin {None, old} => m[st.r.buf] = None
  /\ old \notin {None, st.r.buf} => st.m[old] = None

\* Storage is never taken for no storage.
LEMMA StorageFact ==
  /\ None \notin Storage /\ None \notin Buffers /\ None \notin Fields
  /\ \A n \in 0..MaxSize : [0..(n - 1) -> Cells] \subseteq Storage
<1>1. None \notin Storage  BY NoneAssumption DEF Storage
<1>2. None \notin Buffers /\ None \notin Fields  BY NoneAssumption
<1>3. \A n \in 0..MaxSize : [0..(n - 1) -> Cells] \subseteq Storage  BY DEF Storage
<1> QED  BY <1>1, <1>2, <1>3

\* alloc_buf gives a buffer that is not in use.
LEMMA FreshFact ==
  ASSUME NEW m, \E b \in Buffers : m[b] = None
  PROVE  FreshBuffer(m) \in Buffers /\ m[FreshBuffer(m)] = None
  BY DEF FreshBuffer

\* free_buf.
LEMMA FreeFact ==
  ASSUME NEW m \in Heaps, NEW r, r.buf \in Buffers \cup {None}
  PROVE  LET w == FreeBuf([m |-> m, r |-> r])
         IN /\ w \in Heaps
            /\ \A x \in Buffers \ {r.buf} : w[x] = m[x]
            /\ r.buf # None => w[r.buf] = None
<1>1. FreeBuf([m |-> m, r |-> r]) = IF r.buf = None THEN m ELSE [m EXCEPT ![r.buf] = None]
  BY DEF FreeBuf
<1>2. None \notin Buffers  BY StorageFact
<1> QED  BY <1>1, <1>2 DEF Heaps

\* In a ring that does not wrap, the elements end before the buffer does.
LEMMA BeforeEnd ==
  ASSUME NEW hd \in Nat, NEW n \in Nat, NEW tl \in Nat, NEW cp \in Nat, NEW i \in Nat,
         tl = hd + n \/ tl = hd + n - cp, hd < tl, i < n, n < cp, tl < cp
  PROVE  hd + i < cp
  OBVIOUS

\* The memcpy of one or two runs and the loop of moves alike put the elements
\* to the front of the new buffer, in order.
LEMMA RelocatedFact ==
  ASSUME NEW m, NEW r, NEW s, Holds(m, r, s), NEW n \in 2..MaxSize, Len(s) < n
  PROVE  LET new == Relocated([m |-> m, r |-> r], n)
         IN /\ new \in [0..(n - 1) -> Cells]
            /\ \A i \in 0..(n - 1) : new[i] = IF i < Len(s) THEN s[i + 1] ELSE Raw
<1> DEFINE new == Relocated([m |-> m, r |-> r], n)
<1>1. new = [i \in 0..(n - 1) |->
               IF r.buf = None \/ i >= Size(r) THEN Raw
               ELSE IF trivial
                    THEN IF r.head < r.tail \/ i < r.cap - r.head
                         THEN m[r.buf][r.head + i] ELSE m[r.buf][i - (r.cap - r.head)]
                    ELSE m[r.buf][And(r.head + i, r.mask)]]
  BY DEF Relocated
<1> HIDE DEF new
<1>2. Size(r) = Len(s) /\ Len(s) \in Nat  BY SizeFact
<1>3. s \in Seq(Values) /\ (r.buf = None <=> r = NoBuffer)  BY HoldsFields
<1>4. ASSUME NEW i \in 0..(n - 1)
      PROVE  new[i] = IF i < Len(s) THEN s[i + 1] ELSE Raw
  <2>1. CASE r = NoBuffer
    <3>1. Len(s) = 0  BY <2>1 DEF Holds
    <3>2. new[i] = Raw  BY <1>1, <1>3, <2>1
    <3> QED  BY <3>1, <3>2
  <2>2. CASE r # NoBuffer /\ i >= Len(s)
    <3>1. new[i] = Raw  BY <1>1, <1>2, <2>2
    <3> QED  BY <1>2, <2>2, <3>1
  <2>3. CASE r # NoBuffer /\ i < Len(s)
    <3>1. /\ Ring(r) /\ Len(s) < r.cap /\ r.tail = Slot(r, Len(s))
          /\ \A j \in 0..(r.cap - 1) : m[r.buf][Slot(r, j)] = IF j < Len(s) THEN s[j + 1] ELSE Raw
      BY <2>3 DEF Holds
    <3>2. r.cap \in Nat /\ r.head \in 0..(r.cap - 1) /\ r.tail \in 0..(r.cap - 1)  BY <3>1 DEF Ring
    <3>3. i \in 0..(r.cap - 1)  BY <1>2, <2>3, <3>1, <3>2
    <3>4. m[r.buf][Slot(r, i)] = s[i + 1]  BY <2>3, <3>1, <3>3
    <3>5. And(r.head + i, r.mask) = Slot(r, i)  BY <3>1, <3>3, SlotFact
    <3>6. CASE r.head < r.tail \/ i < r.cap - r.head
      <4>0. PICK n1, hd, tl, cp \in Nat : n1 = Len(s) /\ hd = r.head /\ tl = r.tail /\ cp = r.cap /\ i < n1 /\ n1 < cp
        BY <1>2, <2>3, <3>1, <3>2
      <4>1. Slot(r, i) = r.head + i
        <5>1. tl = hd + n1 \/ tl = hd + n1 - cp
          BY <3>1, <4>0 DEF Slot
        <5>2. i \in Nat /\ hd < cp /\ tl < cp /\ (hd < tl \/ i < cp - hd)
          BY <3>2, <3>3, <3>6, <4>0
        <5>3. hd + i < cp
          <6>1. CASE i < cp - hd
            BY <4>0, <5>2, <6>1
          <6>2. CASE hd < tl
            BY <4>0, <5>1, <5>2, <6>2, BeforeEnd
          <6> QED  BY <5>2, <6>1, <6>2
        <5> QED  BY <4>0, <5>3 DEF Slot
      <4>2. new[i] = m[r.buf][Slot(r, i)]  BY <1>1, <1>2, <1>3, <2>3, <3>5, <3>6, <4>1
      <4> QED  BY <2>3, <3>4, <4>2
    <3>7. CASE ~(r.head < r.tail \/ i < r.cap - r.head)
      <4>1. Slot(r, i) = i - (r.cap - r.head)  BY <3>2, <3>3, <3>7 DEF Slot
      <4>2. new[i] = m[r.buf][Slot(r, i)]  BY <1>1, <1>2, <1>3, <2>3, <3>5, <3>7, <4>1
      <4> QED  BY <2>3, <3>4, <4>2
    <3> QED  BY <3>6, <3>7
  <2> QED  BY <1>2, <2>1, <2>2, <2>3
<1>5. \A i \in 0..(n - 1) : new[i] \in Cells
  <2> SUFFICES ASSUME NEW i \in 0..(n - 1)  PROVE new[i] \in Cells
    OBVIOUS
  <2>1. CASE i < Len(s)
    <3>1. i + 1 \in 1..Len(s)  BY <1>2, <2>1
    <3>2. s[i + 1] \in Values  BY <1>3, <3>1
    <3> QED  BY <1>4, <2>1, <3>2 DEF Cells
  <2>2. CASE ~(i < Len(s))
    BY <1>4, <2>2 DEF Cells
  <2> QED  BY <2>1, <2>2
<1>6. new \in [0..(n - 1) -> Cells]  BY <1>1, <1>5
<1> QED  BY <1>4, <1>6 DEF new

\* A buffer whose first elements are s and that is raw behind them makes a
\* queue that starts at slot 0.
LEMMA FrontHolds ==
  ASSUME NEW m, NEW b \in Buffers, NEW n \in 2..MaxSize, NEW s \in Seq(Values), Len(s) < n,
         m[b] \in [0..(n - 1) -> Cells],
         \A i \in 0..(n - 1) : m[b][i] = IF i < Len(s) THEN s[i + 1] ELSE Raw
  PROVE  Holds(m, [buf |-> b, cap |-> n, mask |-> n - 1, head |-> 0, tail |-> Len(s)], s)
<1> DEFINE r == [buf |-> b, cap |-> n, mask |-> n - 1, head |-> 0, tail |-> Len(s)]
<1>1. Len(s) \in Nat /\ n \in Nat /\ n - 1 \in Nat  OBVIOUS
<1>2. /\ r.buf = b /\ r.cap = n /\ r.mask = n - 1 /\ r.head = 0 /\ r.tail = Len(s)
      /\ r \in Fields /\ r # NoBuffer
  BY <1>1, StorageFact DEF Fields, NoBuffer
<1> HIDE DEF r
<1>3. Ring(r)  BY <1>1, <1>2, StorageFact DEF Ring
<1>4. \A i \in 0..n : Slot(r, i) = IF i < n THEN i ELSE 0  BY <1>1, <1>2 DEF Slot
<1>5. r.tail = Slot(r, Len(s))  BY <1>1, <1>2, <1>4
<1>6. Holds(m, r, s)  BY <1>1, <1>2, <1>3, <1>4, <1>5 DEF Holds
<1> QED  BY <1>6 DEF r

\* grow_to.
LEMMA GrowFact ==
  ASSUME NEW m \in Heaps, NEW r, NEW s, Holds(m, r, s), NEW n \in 2..MaxSize, Len(s) < n,
         \E b \in Buffers : m[b] = None
  PROVE  LET st == GrowTo([m |-> m, r |-> r], n)
         IN /\ Replaces(m, r.buf, st) /\ Holds(st.m, st.r, s)
            /\ st.r.buf = FreshBuffer(m) /\ st.r.cap = n
<1> DEFINE b == FreshBuffer(m)
           w == FreeBuf([m |-> m, r |-> r])
           new == Relocated([m |-> m, r |-> r], n)
           f == [buf |-> b, cap |-> n, mask |-> n - 1, head |-> 0, tail |-> Len(s)]
           h == [w EXCEPT ![b] = new]
<1>1. b \in Buffers /\ m[b] = None  BY FreshFact
<1>2. Size(r) = Len(s) /\ Len(s) \in Nat  BY SizeFact
<1>3. /\ r.buf \in Buffers \cup {None} /\ s \in Seq(Values)
      /\ r.buf # None => m[r.buf] \in Storage
  BY HoldsFields
<1>4. b # r.buf  BY <1>1, <1>3, StorageFact
<1>5. /\ w \in Heaps
      /\ \A x \in Buffers \ {r.buf} : w[x] = m[x]
      /\ r.buf # None => w[r.buf] = None
  BY <1>3, FreeFact
<1>6. /\ new \in [0..(n - 1) -> Cells]
      /\ \A i \in 0..(n - 1) : new[i] = IF i < Len(s) THEN s[i + 1] ELSE Raw
  BY RelocatedFact
<1>7. GrowTo([m |-> m, r |-> r], n) = [m |-> h, r |-> f]  BY <1>2 DEF GrowTo
<1>8. f.buf = b /\ f.cap = n  OBVIOUS
<1> HIDE DEF b, w, new
<1>9. new \in Storage  BY <1>6, StorageFact
<1>10. h \in Heaps /\ h[b] = new /\ \A x \in Buffers \ {b} : h[x] = w[x]
  BY <1>1, <1>5, <1>9 DEF Heaps
<1> HIDE DEF h
<1>11. Holds(h, f, s)  BY <1>1, <1>3, <1>6, <1>10, FrontHolds
<1> HIDE DEF f
<1>12. Replaces(m, r.buf, [m |-> h, r |-> f])
  BY <1>1, <1>3, <1>4, <1>5, <1>8, <1>10 DEF Replaces
<1> QED  BY <1>7, <1>8, <1>11, <1>12 DEF b

\* A queue that is left as it is.
LEMMA ReplacesSelf ==
  ASSUME NEW m \in Heaps, NEW r
  PROVE  Replaces(m, r.buf, [m |-> m, r |-> r])
  BY DEF Replaces

\* Further work on the new buffer alone.
LEMMA ReplacesThen ==
  ASSUME NEW m, NEW old, NEW st, NEW h, NEW f, Replaces(m, old, st),
         h \in Heaps, f.buf = st.r.buf, \A x \in Buffers \ {f.buf} : h[x] = st.m[x],
         old \in Buffers \cup {None}
  PROVE  Replaces(m, old, [m |-> h, r |-> f])
  BY DEF Replaces

\* round_up_to_po2 within the bounds.
LEMMA RoundUpFact ==
  ASSUME NEW n \in 1..(MaxLen + 1)
  PROVE  RoundUpPo2(n) \in 1..MaxSize /\ RoundUpPo2(n) >= n
<1>1. n # 0 /\ \E p \in 1..MaxSize : IsRoundUp(p, n)  BY GrowthAssumption
<1>2. RoundUpPo2(n) \in 1..MaxSize /\ IsRoundUp(RoundUpPo2(n), n)  BY <1>1 DEF RoundUpPo2
<1> QED  BY <1>2 DEF IsRoundUp

\* ensure_space: after it a slot is free beside the sentinel.
LEMMA EnsureFact ==
  ASSUME NEW m \in Heaps, NEW r, NEW s, Holds(m, r, s), Len(s) < MaxLen,
         \E b \in Buffers : m[b] = None
  PROVE  LET st == EnsureSpace([m |-> m, r |-> r])
         IN /\ Replaces(m, r.buf, st) /\ Holds(st.m, st.r, s)
            /\ st.r # NoBuffer /\ Len(s) + 1 < st.r.cap
<1> DEFINE n == IF r.cap = 0 THEN 8 ELSE r.cap * 2
<1>1. Size(r) = Len(s) /\ Len(s) \in Nat  BY SizeFact
<1>2. /\ r = NoBuffer => r.cap = 0
      /\ r # NoBuffer => r.cap \in 2..MaxSize /\ Len(s) < r.cap
  BY DEF Holds, Ring, NoBuffer
<1>3. CASE SpaceLeft(r)
  <2>1. Len(s) + 1 < r.cap  BY <1>1, <1>3 DEF SpaceLeft
  <2>2. r # NoBuffer  BY <1>1, <1>2, <2>1
  <2>3. EnsureSpace([m |-> m, r |-> r]) = [m |-> m, r |-> r]  BY <1>3 DEF EnsureSpace
  <2> QED  BY <2>1, <2>2, <2>3, ReplacesSelf
<1>4. CASE ~SpaceLeft(r)
  <2>1. ~(Len(s) + 1 < r.cap)  BY <1>1, <1>4 DEF SpaceLeft
  <2>2. n \in 2..MaxSize /\ Len(s) + 1 < n
    <3>1. CASE r = NoBuffer
      <4>1. Len(s) = 0  BY <3>1 DEF Holds
      <4> QED  BY <1>2, <3>1, <4>1, GrowthAssumption
    <3>2. CASE r # NoBuffer
      <4>1. r.cap \in Nat /\ r.cap >= 2 /\ r.cap = Len(s) + 1  BY <1>1, <1>2, <2>1, <3>2
      <4>2. n = r.cap * 2  BY <4>1
      <4>3. r.cap * 2 <= 2 * MaxLen /\ r.cap * 2 \in Nat /\ r.cap < r.cap * 2  BY <1>1, <4>1
      <4> QED  BY <1>1, <4>1, <4>2, <4>3, GrowthAssumption
    <3> QED  BY <3>1, <3>2
  <2>3. EnsureSpace([m |-> m, r |-> r]) = GrowTo([m |-> m, r |-> r], n)  BY <1>4 DEF EnsureSpace
  <2> HIDE DEF n
  <2>4. Len(s) < n /\ n # 0  BY <1>1, <2>2
  <2> DEFINE st == GrowTo([m |-> m, r |-> r], n)
  <2>5. Replaces(m, r.buf, st) /\ Holds(st.m, st.r, s) /\ st.r.cap = n
    BY <2>2, <2>4, GrowFact
  <2>6. NoBuffer.cap = 0  BY DEF NoBuffer
  <2> HIDE DEF st
  <2>7. st.r # NoBuffer  BY <2>4, <2>5, <2>6
  <2> QED  BY <2>2, <2>3, <2>5, <2>7 DEF st
<1> QED  BY <1>3, <1>4

\* reserve.
LEMMA ReserveFact ==
  ASSUME NEW m \in Heaps, NEW r, NEW s, Holds(m, r, s), NEW n \in 0..MaxLen,
         \E b \in Buffers : m[b] = None
  PROVE  LET st == Reserve([m |-> m, r |-> r], n)
         IN Replaces(m, r.buf, st) /\ Holds(st.m, st.r, s)
<1>1. Len(s) \in Nat  BY SizeFact
<1>2. CASE n > Capacity(r)
  <2>1. Len(s) <= Capacity(r) /\ Capacity(r) \in Nat
    <3>1. CASE r = NoBuffer
      BY <3>1 DEF Holds, NoBuffer, Capacity
    <3>2. CASE r # NoBuffer
      <4>1. r.cap \in 2..MaxSize /\ Len(s) < r.cap  BY <3>2 DEF Holds, Ring
      <4> QED  BY <1>1, <4>1 DEF Capacity
    <3> QED  BY <3>1, <3>2
  <2>2. n + 1 \in 1..(MaxLen + 1) /\ n + 1 >= 2 /\ Len(s) < n + 1  BY <1>1, <1>2, <2>1
  <2>3. RoundUpPo2(n + 1) \in 1..MaxSize /\ RoundUpPo2(n + 1) >= n + 1  BY <2>2, RoundUpFact
  <2>4. RoundUpPo2(n + 1) \in 2..MaxSize /\ Len(s) < RoundUpPo2(n + 1)  BY <1>1, <2>2, <2>3
  <2>5. Reserve([m |-> m, r |-> r], n) = GrowTo([m |-> m, r |-> r], RoundUpPo2(n + 1))
    BY <1>2 DEF Reserve
  <2> QED  BY <2>4, <2>5, GrowFact
<1>3. CASE ~(n > Capacity(r))
  <2>1. Reserve([m |-> m, r |-> r], n) = [m |-> m, r |-> r]  BY <1>3 DEF Reserve
  <2> QED  BY <2>1, ReplacesSelf
<1> QED  BY <1>2, <1>3

\* The slot after the i-th.
LEMMA SlotNext ==
  ASSUME NEW r, Ring(r), NEW i \in 0..(r.cap - 1)
  PROVE  /\ And(Slot(r, i) + 1, r.mask) \in 0..(r.cap - 1)
         /\ i + 1 < r.cap => And(Slot(r, i) + 1, r.mask) = Slot(r, i + 1)
         /\ i + 1 = r.cap => And(Slot(r, i) + 1, r.mask) = r.head
<1>1. r.cap \in Nat /\ r.cap >= 1 /\ r.mask = r.cap - 1 /\ r.head \in 0..(r.cap - 1)  BY DEF Ring
<1>2. Slot(r, i) \in 0..(r.cap - 1)  BY SlotFact
<1> DEFINE x == Slot(r, i) + 1
<1>3. x \in 0..(2 * r.cap - 1)  BY <1>1, <1>2
<1>4. And(x, r.mask) = IF x < r.cap THEN x ELSE x - r.cap  BY <1>1, <1>3, AndFact
<1> HIDE DEF x
<1>5. And(x, r.mask) \in 0..(r.cap - 1)  BY <1>1, <1>2, <1>4 DEF x
<1>6. i + 1 < r.cap => And(x, r.mask) = Slot(r, i + 1)  BY <1>1, <1>4 DEF x, Slot
<1>7. i + 1 = r.cap => And(x, r.mask) = r.head  BY <1>1, <1>4 DEF x, Slot
<1> QED  BY <1>5, <1>6, <1>7 DEF x

\* construct(slot(tail_), v); tail_ = advance(tail_).
LEMMA PushFact ==
  ASSUME NEW m \in Heaps, NEW r, NEW s, Holds(m, r, s), r # NoBuffer, Len(s) + 1 < r.cap,
         NEW v \in Values
  PROVE  LET st == PushBack([m |-> m, r |-> r], v)
         IN /\ Holds(st.m, st.r, Append(s, v)) /\ st.r.buf = r.buf
            /\ st.m \in Heaps /\ \A x \in Buffers \ {r.buf} : st.m[x] = m[x]
<1> DEFINE f == [r EXCEPT !.tail = Advance(r, r.tail)]
           c == [m[r.buf] EXCEPT ![r.tail] = v]
           h == [m EXCEPT ![r.buf] = c]
           n == Len(s)
           t == Append(s, v)
<1>1. /\ Ring(r) /\ n < r.cap /\ r.tail = Slot(r, n) /\ s \in Seq(Values)
      /\ m[r.buf] \in [0..(r.cap - 1) -> Cells]
      /\ \A i \in 0..(r.cap - 1) : m[r.buf][Slot(r, i)] = IF i < n THEN s[i + 1] ELSE Raw
  BY DEF Holds
<1>2. /\ r \in Fields /\ r.buf \in Buffers /\ r.buf # None
      /\ r.cap \in 2..MaxSize /\ r.cap \in Nat /\ r.mask = r.cap - 1
      /\ r.head \in 0..(r.cap - 1) /\ r.tail \in 0..(r.cap - 1)
  BY <1>1 DEF Ring, Fields
<1>3. n \in Nat /\ n + 1 < r.cap /\ n \in 0..(r.cap - 1)  BY <1>1, <1>2
<1>4. PushBack([m |-> m, r |-> r], v) = [m |-> h, r |-> f]  BY DEF PushBack
<1>5. t \in Seq(Values) /\ Len(t) = n + 1 /\ \A i \in 0..n : t[i + 1] = IF i < n THEN s[i + 1] ELSE v
  BY <1>1, <1>3
<1>6. Advance(r, r.tail) = Slot(r, n + 1) /\ Slot(r, n + 1) \in 0..(r.cap - 1)
  <2>1. And(Slot(r, n) + 1, r.mask) = Slot(r, n + 1) /\ And(Slot(r, n) + 1, r.mask) \in 0..(r.cap - 1)
    BY <1>1, <1>3, SlotNext
  <2> QED  BY <1>1, <2>1 DEF Advance
<1>7. /\ f \in Fields /\ f.buf = r.buf /\ f.cap = r.cap /\ f.mask = r.mask /\ f.head = r.head
      /\ f.tail = Slot(r, n + 1)
  BY <1>2, <1>6 DEF Fields
<1> HIDE DEF n, t, f
<1>8. c \in [0..(r.cap - 1) -> Cells]  BY <1>1, <1>2 DEF Cells
<1>9. \A i \in 0..(r.cap - 1) : c[Slot(r, i)] = IF i < n + 1 THEN t[i + 1] ELSE Raw
  <2> SUFFICES ASSUME NEW i \in 0..(r.cap - 1)
               PROVE  c[Slot(r, i)] = IF i < n + 1 THEN t[i + 1] ELSE Raw
    OBVIOUS
  <2>1. Slot(r, i) \in 0..(r.cap - 1)  BY <1>1, SlotFact
  <2>2. CASE i = n
    <3>1. c[Slot(r, i)] = v  BY <1>1, <1>2, <2>2
    <3> QED  BY <1>3, <1>5, <2>2, <3>1
  <2>3. CASE i # n
    <3>1. Slot(r, i) # r.tail  BY <1>1, <1>3, <2>3, SlotUnique
    <3>2. c[Slot(r, i)] = m[r.buf][Slot(r, i)]  BY <1>1, <1>2, <2>1, <3>1
    <3> HIDE DEF c
    <3>3. i < n + 1 <=> i < n  BY <1>3, <2>3
    <3>4. i < n => t[i + 1] = s[i + 1]  BY <1>3, <1>5
    <3> QED  BY <1>1, <3>2, <3>3, <3>4
  <2> QED  BY <2>2, <2>3
<1> HIDE DEF c
<1>10. c \in Storage  BY <1>2, <1>8, StorageFact
<1>11. h \in Heaps /\ h[r.buf] = c /\ \A x \in Buffers \ {r.buf} : h[x] = m[x]
  BY <1>2, <1>10 DEF Heaps
<1> HIDE DEF h
<1>12. \A i : Slot(f, i) = Slot(r, i)  BY <1>7 DEF Slot
<1>13. Ring(f) /\ f # NoBuffer  BY <1>2, <1>6, <1>7 DEF Ring, NoBuffer
<1>14. Holds(h, f, t)  BY <1>3, <1>5, <1>7, <1>8, <1>9, <1>11, <1>12, <1>13 DEF Holds
<1> QED  BY <1>4, <1>7, <1>11, <1>14 DEF t

\* With head_ one slot further, the i-th slot is what the next one was.
LEMMA SlotShift ==
  ASSUME NEW r, NEW f, NEW c \in Nat, c >= 2, NEW h \in 0..(c - 1), r.cap = c, r.head = h,
         f.cap = c, f.head = IF h + 1 < c THEN h + 1 ELSE 0
  PROVE  /\ \A i \in 0..(c - 2) : Slot(f, i) = Slot(r, i + 1)
         /\ Slot(f, c - 1) = Slot(r, 0)
<1> DEFINE at(g, i) == IF g + i < c THEN g + i ELSE g + i - c
<1>1. \A i : Slot(r, i) = at(h, i) /\ Slot(f, i) = at(f.head, i)  BY DEF Slot
<1>2. CASE h + 1 < c
  <2>1. /\ \A i \in 0..(c - 2) : at(h + 1, i) = at(h, i + 1)
        /\ at(h + 1, c - 1) = at(h, 0)
    BY <1>2
  <2>2. f.head = h + 1  BY <1>2
  <2> HIDE DEF at
  <2> QED  BY <1>1, <2>1, <2>2
<1>3. CASE ~(h + 1 < c)
  <2>1. /\ \A i \in 0..(c - 2) : at(0, i) = at(h, i + 1)
        /\ at(0, c - 1) = at(h, 0)
    BY <1>3
  <2>2. f.head = 0  BY <1>3
  <2> HIDE DEF at
  <2> QED  BY <1>1, <2>1, <2>2
<1> QED  BY <1>2, <1>3

\* destroy(slot(head_)); head_ = advance(head_).
LEMMA PopFact ==
  ASSUME NEW m \in Heaps, NEW r, NEW s, Holds(m, r, s), s # <<>>
  PROVE  LET st == PopFront([m |-> m, r |-> r])
         IN /\ Holds(st.m, st.r, Tail(s)) /\ st.r.buf = r.buf
            /\ st.m \in Heaps /\ \A x \in Buffers \ {r.buf} : st.m[x] = m[x]
<1> DEFINE f == [r EXCEPT !.head = Advance(r, r.head)]
           c == [m[r.buf] EXCEPT ![r.head] = Raw]
           h == [m EXCEPT ![r.buf] = c]
           n == Len(s)
           t == Tail(s)
<1>1. /\ r # NoBuffer
      /\ Ring(r) /\ n < r.cap /\ r.tail = Slot(r, n) /\ s \in Seq(Values)
      /\ m[r.buf] \in [0..(r.cap - 1) -> Cells]
      /\ \A i \in 0..(r.cap - 1) : m[r.buf][Slot(r, i)] = IF i < n THEN s[i + 1] ELSE Raw
  BY DEF Holds
<1>2. /\ r \in Fields /\ r.buf \in Buffers /\ r.buf # None
      /\ r.cap \in 2..MaxSize /\ r.cap \in Nat /\ r.mask = r.cap - 1
      /\ r.head \in 0..(r.cap - 1) /\ r.tail \in 0..(r.cap - 1)
  BY <1>1 DEF Ring, Fields
<1>3. n \in Nat /\ n >= 1  BY <1>1
<1>4. PopFront([m |-> m, r |-> r]) = [m |-> h, r |-> f]  BY DEF PopFront
<1>5. t \in Seq(Values) /\ Len(t) = n - 1 /\ \A i \in 0..(n - 2) : t[i + 1] = s[i + 2]
  BY <1>1, <1>3
<1>6. Slot(r, 0) = r.head  BY <1>2 DEF Slot
<1>7. Advance(r, r.head) = Slot(r, 1) /\ Slot(r, 1) \in 0..(r.cap - 1)
  <2>1. 0 \in 0..(r.cap - 1) /\ 0 + 1 < r.cap  BY <1>2
  <2>2. And(Slot(r, 0) + 1, r.mask) = Slot(r, 0 + 1) /\ And(Slot(r, 0) + 1, r.mask) \in 0..(r.cap - 1)
    BY <1>1, <2>1, SlotNext
  <2> QED  BY <1>6, <2>2 DEF Advance
<1>8. /\ f \in Fields /\ f.buf = r.buf /\ f.cap = r.cap /\ f.mask = r.mask /\ f.tail = r.tail
      /\ f.head = Slot(r, 1)
  BY <1>2, <1>7 DEF Fields
<1> HIDE DEF n, t, f
<1>9. c \in [0..(r.cap - 1) -> Cells]  BY <1>1, <1>2 DEF Cells
<1>10. /\ c[Slot(r, 0)] = Raw
       /\ \A i \in 1..(r.cap - 1) : c[Slot(r, i)] = IF i < n THEN s[i + 1] ELSE Raw
  <2>1. c[Slot(r, 0)] = Raw  BY <1>1, <1>2, <1>6
  <2> SUFFICES ASSUME NEW i \in 1..(r.cap - 1)
               PROVE  c[Slot(r, i)] = IF i < n THEN s[i + 1] ELSE Raw
    BY <2>1
  <2>2. i \in 0..(r.cap - 1) /\ 0 \in 0..(r.cap - 1) /\ i # 0  BY <1>2
  <2>3. Slot(r, i) # r.head  BY <1>1, <1>6, <2>2, SlotUnique
  <2>4. Slot(r, i) \in 0..(r.cap - 1)  BY <1>1, <2>2, SlotFact
  <2>5. c[Slot(r, i)] = m[r.buf][Slot(r, i)]  BY <1>1, <1>2, <2>3, <2>4
  <2> HIDE DEF c
  <2> QED  BY <1>1, <2>2, <2>5
<1> HIDE DEF c
<1>11. c \in Storage  BY <1>2, <1>9, StorageFact
<1>12. h \in Heaps /\ h[r.buf] = c /\ \A x \in Buffers \ {r.buf} : h[x] = m[x]
  BY <1>2, <1>11 DEF Heaps
<1> HIDE DEF h
<1>13. /\ \A i \in 0..(r.cap - 2) : Slot(f, i) = Slot(r, i + 1)
       /\ Slot(f, r.cap - 1) = Slot(r, 0)
  <2>1. r.cap >= 2 /\ f.head = IF r.head + 1 < r.cap THEN r.head + 1 ELSE 0
    <3>1. ~(r.head + 1 < r.cap) => r.head + 1 - r.cap = 0  BY <1>2
    <3> QED  BY <1>2, <1>8, <3>1 DEF Slot
  <2>2. f.cap = r.cap  BY <1>8
  <2> QED  BY <1>2, <2>1, <2>2, SlotShift
<1>14. Ring(f) /\ f # NoBuffer  BY <1>2, <1>7, <1>8 DEF Ring, NoBuffer
<1>15. \A i \in 0..(r.cap - 1) : c[Slot(f, i)] = IF i < n - 1 THEN t[i + 1] ELSE Raw
  <2> SUFFICES ASSUME NEW i \in 0..(r.cap - 1)
               PROVE  c[Slot(f, i)] = IF i < n - 1 THEN t[i + 1] ELSE Raw
    OBVIOUS
  <2>1. CASE i = r.cap - 1
    <3>1. ~(i < n - 1)  BY <1>1, <1>2, <1>3, <2>1
    <3> QED  BY <1>10, <1>13, <2>1, <3>1
  <2>2. CASE i # r.cap - 1
    <3>1. i \in 0..(r.cap - 2) /\ i + 1 \in 1..(r.cap - 1)  BY <1>2, <2>2
    <3>2. c[Slot(f, i)] = IF i + 1 < n THEN s[(i + 1) + 1] ELSE Raw  BY <1>10, <1>13, <3>1
    <3>3. i + 1 < n <=> i < n - 1  BY <1>3
    <3>4. i < n - 1 => t[i + 1] = s[(i + 1) + 1]  BY <1>3, <1>5
    <3> QED  BY <3>2, <3>3, <3>4
  <2> QED  BY <2>1, <2>2
<1>16. f.tail = Slot(f, n - 1) /\ n - 1 < f.cap
  <2>1. n - 1 \in 0..(r.cap - 2) /\ (n - 1) + 1 = n  BY <1>1, <1>2, <1>3
  <2> QED  BY <1>1, <1>2, <1>3, <1>8, <1>13, <2>1
<1>17. Holds(h, f, t)  BY <1>5, <1>8, <1>9, <1>12, <1>14, <1>15, <1>16 DEF Holds
<1> QED  BY <1>4, <1>8, <1>12, <1>17 DEF t

\* head_ = tail_ = 0.
LEMMA RestartFact ==
  ASSUME NEW r \in Fields
  PROVE  [r EXCEPT !.head = 0, !.tail = 0]
           = [buf |-> r.buf, cap |-> r.cap, mask |-> r.mask, head |-> 0, tail |-> 0]
<1> DEFINE g == [r EXCEPT !.head = 0]
           f == [g EXCEPT !.tail = 0]
<1>1. /\ g \in Fields /\ g.buf = r.buf /\ g.cap = r.cap /\ g.mask = r.mask /\ g.head = 0
  BY DEF Fields
<1> HIDE DEF g
<1>2. f = [buf |-> g.buf, cap |-> g.cap, mask |-> g.mask, head |-> g.head, tail |-> 0]
  BY <1>1 DEF Fields
<1>3. f = [buf |-> r.buf, cap |-> r.cap, mask |-> r.mask, head |-> 0, tail |-> 0]  BY <1>1, <1>2
<1> QED  BY <1>3 DEF g

\* clear: no element is left alive.
LEMMA ClearFact ==
  ASSUME NEW m \in Heaps, NEW r, NEW s, Holds(m, r, s)
  PROVE  LET st == Clear([m |-> m, r |-> r])
         IN /\ Holds(st.m, st.r, <<>>) /\ st.r.buf = r.buf
            /\ st.m \in Heaps /\ \A x \in Buffers \ {r.buf} : st.m[x] = m[x]
<1> DEFINE f == [r EXCEPT !.head = 0, !.tail = 0]
           c == [i \in DOMAIN m[r.buf] |-> IF i \in Live(r) THEN Raw ELSE m[r.buf][i]]
           h == [m EXCEPT ![r.buf] = c]
<1>0. r.buf = None <=> r = NoBuffer  BY HoldsFields
<1>1. CASE r = NoBuffer
  <2>1. Clear([m |-> m, r |-> r]) = [m |-> m, r |-> f]  BY <1>0, <1>1 DEF Clear
  <2>2. f = NoBuffer
    <3>1. r \in Fields  BY HoldsFields
    <3>2. f = [buf |-> r.buf, cap |-> r.cap, mask |-> r.mask, head |-> 0, tail |-> 0]
      BY <3>1, RestartFact
    <3> HIDE DEF f
    <3> QED  BY <1>1, <3>2 DEF NoBuffer
  <2> HIDE DEF f
  <2> QED  BY <1>1, <2>1, <2>2, HoldsNothing
<1>2. CASE r # NoBuffer
  <2>1. /\ Ring(r) /\ s \in Seq(Values) /\ Len(s) \in Nat /\ Len(s) < r.cap
        /\ m[r.buf] \in [0..(r.cap - 1) -> Cells]
        /\ \A i \in 0..(r.cap - 1) : m[r.buf][Slot(r, i)] = IF i < Len(s) THEN s[i + 1] ELSE Raw
    BY <1>2 DEF Holds
  <2>2. /\ r \in Fields /\ r.buf \in Buffers /\ r.buf # None
        /\ r.cap \in 2..MaxSize /\ r.cap \in Nat /\ r.mask = r.cap - 1
    BY <2>1 DEF Ring, Fields
  <2>3. Clear([m |-> m, r |-> r]) = [m |-> h, r |-> f]  BY <2>2 DEF Clear
  <2>4. Live(r) = {Slot(r, i) : i \in 0..(Len(s) - 1)}  BY <1>2, LiveFact
  <2>5. \A i \in 0..(r.cap - 1) : c[i] = Raw
    <3> SUFFICES ASSUME NEW j \in 0..(r.cap - 1)  PROVE c[j] = Raw
      OBVIOUS
    <3>1. PICK i \in 0..(r.cap - 1) : Slot(r, i) = j  BY <2>1, SlotExists
    <3>2. CASE i < Len(s)
      <4>1. j \in Live(r)  BY <2>1, <2>4, <3>1, <3>2
      <4> QED  BY <2>1, <4>1
    <3>3. CASE ~(i < Len(s))
      <4>1. m[r.buf][j] = Raw  BY <2>1, <3>1, <3>3
      <4> QED  BY <2>1, <4>1
    <3> QED  BY <3>2, <3>3
  <2>6. c \in [0..(r.cap - 1) -> Cells]
    <3>1. DOMAIN c = 0..(r.cap - 1) /\ c = [i \in 0..(r.cap - 1) |-> c[i]]  BY <2>1
    <3> HIDE DEF c
    <3> QED  BY <2>5, <3>1 DEF Cells
  <2> HIDE DEF c
  <2>7. c \in Storage  BY <2>2, <2>6, StorageFact
  <2>8. h \in Heaps /\ h[r.buf] = c /\ \A x \in Buffers \ {r.buf} : h[x] = m[x]
    BY <2>2, <2>7 DEF Heaps
  <2> HIDE DEF h
  <2>9. f = [buf |-> r.buf, cap |-> r.cap, mask |-> r.cap - 1, head |-> 0, tail |-> 0]
    <3>1. f = [buf |-> r.buf, cap |-> r.cap, mask |-> r.mask, head |-> 0, tail |-> 0]
      BY <2>2, RestartFact
    <3> HIDE DEF f
    <3> QED  BY <2>2, <3>1
  <2> HIDE DEF f
  <2>10. <<>> \in Seq(Values) /\ Len(<<>>) = 0 /\ 0 < r.cap  BY <2>2
  <2>11. \A i \in 0..(r.cap - 1) : h[r.buf][i] = IF i < Len(<<>>) THEN <<>>[i + 1] ELSE Raw
    BY <2>5, <2>8, <2>10
  <2>12. Holds(h, [buf |-> r.buf, cap |-> r.cap, mask |-> r.cap - 1, head |-> 0, tail |-> Len(<<>>)], <<>>)
    BY <2>2, <2>6, <2>8, <2>10, <2>11, FrontHolds
  <2>13. Holds(h, f, <<>>) /\ f.buf = r.buf  BY <2>9, <2>10, <2>12
  <2> QED  BY <2>3, <2>8, <2>13
<1> QED  BY <1>1, <1>2

\* ~queue, and the death of an assignment's temporary.
LEMMA DestroyedFact ==
  ASSUME NEW m \in Heaps, NEW r, NEW s, Holds(m, r, s)
  PROVE  LET w == Destroyed([m |-> m, r |-> r])
         IN /\ w \in Heaps
            /\ \A x \in Buffers \ {r.buf} : w[x] = m[x]
            /\ r.buf # None => w[r.buf] = None
<1> DEFINE st == Clear([m |-> m, r |-> r])
<1>1. /\ st.r.buf = r.buf /\ st.m \in Heaps
      /\ \A x \in Buffers \ {r.buf} : st.m[x] = m[x]
  BY ClearFact
<1>2. r.buf \in Buffers \cup {None}  BY HoldsFields
<1>3. st = [m |-> st.m, r |-> st.r]  BY DEF Clear
<1>4. Destroyed([m |-> m, r |-> r]) = FreeBuf([m |-> st.m, r |-> st.r])  BY <1>3 DEF Destroyed
<1> HIDE DEF st
<1>5. LET w == FreeBuf([m |-> st.m, r |-> st.r])
      IN /\ w \in Heaps
         /\ \A x \in Buffers \ {st.r.buf} : w[x] = st.m[x]
         /\ st.r.buf # None => w[st.r.buf] = None
  BY <1>1, <1>2, FreeFact
<1> QED  BY <1>1, <1>4, <1>5

\* The copying constructors.
LEMMA FilledFact ==
  ASSUME NEW m \in Heaps, NEW s \in Seq(Values), Len(s) <= MaxLen, \E b \in Buffers : m[b] = None
  PROVE  LET st == Filled(m, s)
         IN /\ Replaces(m, None, st) /\ Holds(st.m, st.r, s)
            /\ s # <<>> => st.r.buf = FreshBuffer(m)
<1>0. Len(s) \in 0..MaxLen /\ Len(s) \in Nat  OBVIOUS
<1>1. Holds(m, NoBuffer, <<>>) /\ NoBuffer.buf = None  BY HoldsNothing DEF NoBuffer
<1> DEFINE none == [m |-> m, r |-> NoBuffer]
<1>2. CASE s = <<>>
  <2>1. Len(s) = 0 /\ Capacity(NoBuffer) = 0  BY <1>2 DEF Capacity, NoBuffer
  <2>2. Filled(m, s) = none  BY <1>2, <2>1 DEF Filled, Reserve
  <2> QED  BY <1>1, <1>2, <2>2, ReplacesSelf
<1>3. CASE s # <<>>
  <2> DEFINE n == RoundUpPo2(Len(s) + 1)
             st == GrowTo(none, n)
             b == FreshBuffer(m)
             c == [i \in DOMAIN st.m[b] |-> IF i < Len(s) THEN s[i + 1] ELSE Raw]
             h == [st.m EXCEPT ![b] = c]
             f == [buf |-> b, cap |-> n, mask |-> n - 1, head |-> 0, tail |-> Len(s)]
  <2>1. Len(s) >= 1 /\ Len(s) + 1 \in 1..(MaxLen + 1) /\ Len(s) > Capacity(NoBuffer)
    BY <1>0, <1>3 DEF Capacity, NoBuffer
  <2>2. n \in 2..MaxSize /\ Len(s) < n /\ n \in Nat
    <3>1. n \in 1..MaxSize /\ n >= Len(s) + 1  BY <2>1, RoundUpFact
    <3> HIDE DEF n
    <3> QED  BY <1>0, <2>1, <3>1
  <2> HIDE DEF n
  <2>3. Len(<<>>) < n  BY <2>2
  <2>4. Replaces(m, None, st) /\ Holds(st.m, st.r, <<>>) /\ st.r.buf = b /\ st.r.cap = n
    BY <1>1, <2>2, <2>3, GrowFact
  <2>5. Size(NoBuffer) = 0  BY <1>1, SizeFact
  <2>6. st.r = [buf |-> b, cap |-> n, mask |-> n - 1, head |-> 0, tail |-> 0]
    BY <2>5 DEF GrowTo
  <2>7. Reserve(none, Len(s)) = st  BY <2>1 DEF Reserve, n
  <2>8. Filled(m, s) = [m |-> [st.m EXCEPT ![st.r.buf] =
                                 [i \in DOMAIN @ |-> IF i < Len(s) THEN s[i + 1] ELSE Raw]],
                        r |-> [st.r EXCEPT !.tail = And(Len(s), st.r.mask)]]
    BY <1>3, <2>7 DEF Filled
  <2>9. b \in Buffers /\ b # None  BY FreshFact, StorageFact
  <2> HIDE DEF st
  <2>10. st.m \in Heaps  BY <2>4 DEF Replaces
  <2>11. st.r.mask = n - 1 /\ st.r # NoBuffer  BY <2>4, <2>6, <2>9, <1>1
  <2>12. st.m[b] \in [0..(n - 1) -> Cells]  BY <2>4, <2>11 DEF Holds
  <2>13. And(Len(s), n - 1) = Len(s)
    <3>1. Len(s) \in 0..(2 * n - 1) /\ n >= 1  BY <1>0, <2>2
    <3> QED  BY <2>2, <3>1, AndFact
  <2>14. Filled(m, s) = [m |-> h, r |-> f]
    <3>1. [st.r EXCEPT !.tail = And(Len(s), st.r.mask)] = f  BY <2>6, <2>11, <2>13
    <3>2. [st.m EXCEPT ![st.r.buf] = [i \in DOMAIN @ |-> IF i < Len(s) THEN s[i + 1] ELSE Raw]] = h
      BY <2>4, <2>9, <2>10 DEF Heaps
    <3> HIDE DEF h, f
    <3> QED  BY <2>8, <3>1, <3>2
  <2>15. \A i \in 0..(n - 1) : c[i] = IF i < Len(s) THEN s[i + 1] ELSE Raw  BY <2>12
  <2>16. c \in [0..(n - 1) -> Cells]
    <3>1. \A i \in 0..(n - 1) : i < Len(s) => s[i + 1] \in Values
      <4> SUFFICES ASSUME NEW i \in 0..(n - 1), i < Len(s)  PROVE s[i + 1] \in Values
        OBVIOUS
      <4>1. i + 1 \in 1..Len(s)  BY <1>0, <2>2
      <4> QED  BY <4>1
    <3>2. DOMAIN c = 0..(n - 1) /\ c = [i \in 0..(n - 1) |-> c[i]]  BY <2>12
    <3> HIDE DEF c
    <3> QED  BY <2>15, <3>1, <3>2 DEF Cells
  <2> HIDE DEF c
  <2>17. c \in Storage  BY <2>2, <2>16, StorageFact
  <2>18. h \in Heaps /\ h[b] = c /\ \A x \in Buffers \ {b} : h[x] = st.m[x]
    BY <2>9, <2>10, <2>17 DEF Heaps
  <2> HIDE DEF h
  <2>19. Holds(h, f, s)  BY <2>2, <2>9, <2>15, <2>16, <2>18, FrontHolds
  <2>20. f.buf = b  OBVIOUS
  <2> HIDE DEF f
  <2>21. Replaces(m, None, [m |-> h, r |-> f])  BY <2>4, <2>18, <2>20, ReplacesThen
  <2> QED  BY <2>14, <2>19, <2>20, <2>21
<1> QED  BY <1>2, <1>3

\* The loop from head_ to tail_ meets the elements in order.
LEMMA ContentsFact ==
  ASSUME NEW m, NEW r, NEW s, Holds(m, r, s)
  PROVE  Contents([m |-> m, r |-> r]) = s
<1>1. Size(r) = Len(s) /\ Len(s) \in Nat /\ s \in Seq(Values)  BY SizeFact, HoldsFields
<1>2. Contents([m |-> m, r |-> r]) = [i \in 1..Len(s) |-> m[r.buf][And(r.head + i - 1, r.mask)]]
  BY <1>1 DEF Contents
<1>3. ASSUME NEW i \in 1..Len(s)
      PROVE  m[r.buf][And(r.head + i - 1, r.mask)] = s[i]
  <2>1. r # NoBuffer  BY <1>1 DEF Holds
  <2>2. /\ Ring(r) /\ Len(s) < r.cap /\ r.cap \in Nat /\ r.head \in Nat
        /\ \A j \in 0..(r.cap - 1) : m[r.buf][Slot(r, j)] = IF j < Len(s) THEN s[j + 1] ELSE Raw
    BY <2>1 DEF Holds, Ring
  <2>3. i - 1 \in 0..(r.cap - 1) /\ i - 1 < Len(s) /\ (i - 1) + 1 = i /\ r.head + i - 1 = r.head + (i - 1)
    BY <1>1, <2>2
  <2>4. And(r.head + (i - 1), r.mask) = Slot(r, i - 1)  BY <2>2, <2>3, SlotFact
  <2> QED  BY <2>2, <2>3, <2>4
<1>4. s = [i \in 1..Len(s) |-> s[i]]  BY <1>1
<1> QED  BY <1>2, <1>3, <1>4

-----------------------------------------------------------------------------
(* How steps preserve who owns which buffer.                               *)

\* What the invariant says of one object.
LEMMA OwnedFact ==
  ASSUME IInv
  PROVE  /\ \A x \in Objects : /\ BufOf(x) \in Buffers \cup {None}
                               /\ BufOf(x) # None => mem[BufOf(x)] # None
         /\ \A x \in Usable : /\ x \in Objects /\ obj[x] \in Fields /\ BufOf(x) = obj[x].buf
                              /\ Holds(mem, obj[x], model[x]) /\ Len(model[x]) <= MaxLen
                              /\ model[x] \in Seq(Values) /\ Len(model[x]) \in Nat
         /\ mem \in Heaps
<1>1. ASSUME NEW x \in Objects  PROVE BufOf(x) \in Buffers \cup {None}
  BY DEF IInv, TypeOK, BufOf, Fields
<1>2. ASSUME NEW x \in Objects, BufOf(x) # None  PROVE mem[BufOf(x)] # None
  BY <1>1, <1>2 DEF IInv, OwnInv
<1>3. ASSUME NEW x \in Usable
      PROVE  /\ x \in Objects /\ obj[x] \in Fields /\ BufOf(x) = obj[x].buf
             /\ Holds(mem, obj[x], model[x]) /\ Len(model[x]) <= MaxLen
             /\ model[x] \in Seq(Values) /\ Len(model[x]) \in Nat
  <2>1. x \in Objects /\ obj[x] # None  BY <1>3 DEF Usable, Alive
  <2>2. Holds(mem, obj[x], model[x]) /\ Len(model[x]) <= MaxLen  BY <1>3 DEF IInv, HoldInv
  <2>3. obj[x] \in Fields /\ model[x] \in Seq(Values)  BY <2>2, HoldsFields
  <2> QED  BY <2>1, <2>2, <2>3 DEF BufOf
<1>4. mem \in Heaps  BY DEF IInv, TypeOK
<1> QED  BY <1>1, <1>2, <1>3, <1>4

\* One object exchanges its buffer with the heap.
LEMMA OwnStep ==
  ASSUME IInv, NEW o \in Objects, NEW new, new \in Buffers \cup {None},
         Replaces(mem, BufOf(o), [m |-> mem', r |-> [buf |-> new]]),
         new # None => mem'[new] # None,
         BufOf(o)' = new, \A x \in Objects \ {o} : BufOf(x)' = BufOf(x), leaked' = leaked
  PROVE  /\ OwnInv'
         /\ \A x \in Objects \ {o} : BufOf(x) # None => mem'[BufOf(x)] = mem[BufOf(x)]
<1> DEFINE old == BufOf(o)
<1>1. /\ \A x \in Buffers \ {old, new} : mem'[x] = mem[x]
      /\ new \notin {None, old} => mem[new] = None
      /\ old \notin {None, new} => mem'[old] = None
  BY DEF Replaces
<1>2. /\ \A x, y \in Objects : BufOf(x) = BufOf(y) => x = y \/ BufOf(x) = None
      /\ \A x \in Objects : BufOf(x) \notin leaked
      /\ \A b \in Buffers : mem[b] # None <=> b \in leaked \/ \E x \in Objects : BufOf(x) = b
      /\ leaked \subseteq Buffers
  BY DEF IInv, OwnInv, TypeOK
<1>3. \A x \in Objects : /\ BufOf(x) \in Buffers \cup {None}
                         /\ BufOf(x) # None => mem[BufOf(x)] # None
  BY OwnedFact
<1>4. None \notin Buffers  BY StorageFact
<1>5. ASSUME NEW x \in Objects \ {o}, BufOf(x) # None
      PROVE  BufOf(x) \in Buffers \ {old, new}
  BY <1>1, <1>2, <1>3, <1>5
<1> HIDE DEF old
<1>6. \A x, y \in Objects : BufOf(x)' = BufOf(y)' => x = y \/ BufOf(x)' = None
  <2> SUFFICES ASSUME NEW x \in Objects, NEW y \in Objects, BufOf(x)' = BufOf(y)', BufOf(x)' # None
               PROVE  x = y
    OBVIOUS
  <2>1. CASE x = o /\ y # o  BY <1>5, <2>1
  <2>2. CASE x # o /\ y = o  BY <1>5, <2>2
  <2>3. CASE x # o /\ y # o  BY <1>2, <2>3
  <2> QED  BY <2>1, <2>2, <2>3
<1>7. \A x \in Objects : BufOf(x)' \notin leaked'
  <2>1. new \notin leaked  BY <1>1, <1>2, <1>4 DEF old
  <2> QED  BY <1>2, <2>1
<1>8. ASSUME NEW b \in Buffers
      PROVE  mem'[b] # None <=> b \in leaked' \/ \E x \in Objects : BufOf(x)' = b
  <2>1. CASE b = new  BY <1>4, <2>1
  <2>2. CASE b # new /\ b = old
    <3>1. mem'[b] = None  BY <1>1, <1>4, <2>2
    <3>2. b \notin leaked  BY <1>2, <2>2 DEF old
    <3>3. \A x \in Objects : BufOf(x)' # b
      <4> SUFFICES ASSUME NEW x \in Objects, BufOf(x)' = b  PROVE FALSE
        OBVIOUS
      <4>1. x # o  BY <2>2
      <4> QED  BY <1>4, <1>5, <2>2, <4>1
    <3> QED  BY <3>1, <3>2, <3>3
  <2>3. CASE b # new /\ b # old
    <3>1. mem'[b] = mem[b]  BY <1>1, <2>3
    <3>2. (\E x \in Objects : BufOf(x)' = b) <=> (\E x \in Objects : BufOf(x) = b)
      <4>1. \A x \in Objects : BufOf(x)' = b <=> BufOf(x) = b  BY <2>3 DEF old
      <4> QED  BY <4>1
    <3> QED  BY <1>2, <3>1, <3>2
  <2> QED  BY <2>1, <2>2, <2>3
<1>9. OwnInv'  BY <1>6, <1>7, <1>8, Zenon DEF OwnInv
<1>10. \A x \in Objects \ {o} : BufOf(x) # None => mem'[BufOf(x)] = mem[BufOf(x)]  BY <1>1, <1>5
<1> QED  BY <1>9, <1>10

\* A move or a swap: o takes over the buffer of rhs; rhs gets o's, or nothing
\* and o's is freed.
LEMMA ExchangeStep ==
  ASSUME IInv, NEW o \in Objects, NEW rhs \in Objects, o # rhs,
         BufOf(o)' = BufOf(rhs), BufOf(rhs)' \in {None, BufOf(o)},
         \A x \in Objects \ {o, rhs} : BufOf(x)' = BufOf(x), leaked' = leaked,
         \A b \in Buffers : mem'[b] = IF b = BufOf(o) /\ BufOf(rhs)' = None THEN None ELSE mem[b]
  PROVE  OwnInv'
<1>1. /\ \A x, y \in Objects : BufOf(x) = BufOf(y) => x = y \/ BufOf(x) = None
      /\ \A x \in Objects : BufOf(x) \notin leaked
      /\ \A b \in Buffers : mem[b] # None <=> b \in leaked \/ \E x \in Objects : BufOf(x) = b
      /\ leaked \subseteq Buffers
  BY DEF IInv, OwnInv, TypeOK
<1>2. \A x \in Objects : BufOf(x) \in Buffers \cup {None}  BY OwnedFact
<1>3. None \notin Buffers  BY StorageFact
<1>4. \A x, y \in Objects : BufOf(x)' = BufOf(y)' => x = y \/ BufOf(x)' = None
  <2> SUFFICES ASSUME NEW x \in Objects, NEW y \in Objects, BufOf(x)' = BufOf(y)', BufOf(x)' # None
               PROVE  x = y
    OBVIOUS
  <2> DEFINE from(z) == IF z = o THEN rhs ELSE IF z = rhs THEN o ELSE z
  <2>1. \A z \in Objects : BufOf(z)' # None => from(z) \in Objects /\ BufOf(z)' = BufOf(from(z))
    OBVIOUS
  <2>2. from(x) = from(y)  BY <1>1, <2>1
  <2> QED  BY <2>2
<1>5. \A x \in Objects : BufOf(x)' \notin leaked'  BY <1>1, <1>3
<1>6. ASSUME NEW b \in Buffers
      PROVE  mem'[b] # None <=> b \in leaked' \/ \E x \in Objects : BufOf(x)' = b
  <2>1. CASE b = BufOf(o) /\ BufOf(rhs)' = None
    <3>1. mem'[b] = None /\ b \notin leaked  BY <1>1, <2>1
    <3>2. \A x \in Objects : BufOf(x)' # b
      <4> SUFFICES ASSUME NEW x \in Objects, BufOf(x)' = b  PROVE FALSE
        OBVIOUS
      <4>1. CASE x = o  BY <1>1, <1>3, <2>1, <4>1
      <4>2. CASE x = rhs  BY <1>3, <2>1, <4>2
      <4>3. CASE x \notin {o, rhs}  BY <1>1, <1>3, <2>1, <4>3
      <4> QED  BY <4>1, <4>2, <4>3
    <3> QED  BY <3>1, <3>2
  <2>2. CASE ~(b = BufOf(o) /\ BufOf(rhs)' = None)
    <3>1. mem'[b] = mem[b]  BY <2>2
    <3>2. (\E x \in Objects : BufOf(x)' = b) => \E x \in Objects : BufOf(x) = b  BY <1>3
    <3>3. ASSUME NEW x \in Objects, BufOf(x) = b
          PROVE  \E y \in Objects : BufOf(y)' = b
      <4>1. CASE x = o
        <5>1. BufOf(rhs)' = b  BY <2>2, <3>3, <4>1
        <5> QED  BY <5>1
      <4>2. CASE x = rhs
        <5>1. BufOf(o)' = b  BY <3>3, <4>2
        <5> QED  BY <5>1
      <4>3. CASE x \notin {o, rhs}
        <5>1. BufOf(x)' = b  BY <3>3, <4>3
        <5> QED  BY <5>1
      <4> QED  BY <4>1, <4>2, <4>3
    <3> QED  BY <1>1, <3>1, <3>2, <3>3
  <2> QED  BY <2>1, <2>2
<1> QED  BY <1>4, <1>5, <1>6, Zenon DEF OwnInv

\* A throw leaves buffer b, just allocated, without an owner.
LEMMA LeakStep ==
  ASSUME IInv, NEW b \in Buffers, mem[b] = None, mem'[b] # None, obj' = obj,
         leaked' = leaked \cup {b}, \A x \in Buffers \ {b} : mem'[x] = None <=> mem[x] = None
  PROVE  OwnInv'
<1>1. /\ \A x, y \in Objects : BufOf(x) = BufOf(y) => x = y \/ BufOf(x) = None
      /\ \A x \in Objects : BufOf(x) \notin leaked
      /\ \A c \in Buffers : mem[c] # None <=> c \in leaked \/ \E x \in Objects : BufOf(x) = c
  BY DEF IInv, OwnInv
<1>2. \A x : BufOf(x)' = BufOf(x)  BY DEF BufOf
<1>3. None \notin Buffers  BY StorageFact
<1>4. \A x \in Objects : BufOf(x) # b  BY <1>1
<1>5. ASSUME NEW c \in Buffers
      PROVE  mem'[c] # None <=> c \in leaked' \/ \E x \in Objects : BufOf(x)' = c
  <2>1. CASE c = b  BY <2>1
  <2>2. CASE c # b
    <3>1. mem'[c] # None <=> mem[c] # None  BY <2>2
    <3>2. c \in leaked' <=> c \in leaked  BY <2>2
    <3> QED  BY <1>1, <1>2, <3>1, <3>2
  <2> QED  BY <2>1, <2>2
<1>6. \A x, y \in Objects : BufOf(x)' = BufOf(y)' => x = y \/ BufOf(x)' = None  BY <1>1, <1>2
<1>7. \A x \in Objects : BufOf(x)' \notin leaked'  BY <1>1, <1>2, <1>4
<1> QED  BY <1>5, <1>6, <1>7, Zenon DEF OwnInv

\* A queue that the step does not touch.
LEMMA OthersHold ==
  ASSUME IInv, NEW x \in Usable, obj'[x] = obj[x], model'[x] = model[x],
         BufOf(x) # None => mem'[BufOf(x)] = mem[BufOf(x)]
  PROVE  Holds(mem', obj'[x], model'[x]) /\ Len(model'[x]) <= MaxLen
<1>1. Holds(mem, obj[x], model[x]) /\ Len(model[x]) <= MaxLen /\ BufOf(x) = obj[x].buf
  BY OwnedFact
<1>2. obj[x].buf = None <=> obj[x] = NoBuffer  BY <1>1, HoldsFields
<1>3. Holds(mem', obj[x], model[x])  BY <1>1, <1>2, HoldsFrame
<1> QED  BY <1>1, <1>3

\* The members that work on one object.
LEMMA BecomesInv ==
  ASSUME IInv, NEW o \in Objects, NEW st, NEW s, Becomes(o, st, s),
         Replaces(mem, BufOf(o), st), Holds(st.m, st.r, s), Len(s) <= MaxLen
  PROVE  IInv'
<1>1. /\ mem' = st.m /\ obj' = [obj EXCEPT ![o] = st.r] /\ model' = [model EXCEPT ![o] = s]
      /\ leaked' = leaked /\ broken' = broken
  BY DEF Becomes, history
<1>2. /\ st.r \in Fields /\ s \in Seq(Values) /\ st.r # None
      /\ st.r.buf \in Buffers \cup {None} /\ (st.r.buf # None => st.m[st.r.buf] # None)
  BY HoldsFields, StorageFact DEF NoBuffer
<1>3. /\ obj \in [Objects -> Fields \cup {None}] /\ model \in [Objects -> Seq(Values) \cup {None}]
      /\ leaked \subseteq Buffers
  BY DEF IInv, TypeOK
<1>4. TypeOK'
  <2>1. mem' \in Heaps  BY <1>1 DEF Replaces
  <2>2. obj' \in [Objects -> Fields \cup {None}]  BY <1>1, <1>2, <1>3
  <2>3. model' \in [Objects -> Seq(Values) \cup {None}]  BY <1>1, <1>2, <1>3
  <2> QED  BY <1>1, <1>3, <2>1, <2>2, <2>3 DEF TypeOK, Heaps, Storage
<1>5. obj'[o] = st.r /\ model'[o] = s /\ \A x \in Objects \ {o} : obj'[x] = obj[x] /\ model'[x] = model[x]
  BY <1>1, <1>3
<1>6. BufOf(o)' = st.r.buf /\ \A x \in Objects \ {o} : BufOf(x)' = BufOf(x)
  BY <1>2, <1>5 DEF BufOf
<1>7. Replaces(mem, BufOf(o), [m |-> mem', r |-> [buf |-> st.r.buf]])  BY <1>1 DEF Replaces
<1>8. /\ OwnInv'
      /\ \A x \in Objects \ {o} : BufOf(x) # None => mem'[BufOf(x)] = mem[BufOf(x)]
  BY <1>1, <1>2, <1>6, <1>7, OwnStep
<1>9. ASSUME NEW x \in Usable'
      PROVE  Holds(mem', obj'[x], model'[x]) /\ Len(model'[x]) <= MaxLen
  <2>1. x \in Objects /\ obj'[x] # None /\ x \notin broken  BY <1>1, <1>9 DEF Usable, Alive
  <2>2. CASE x = o  BY <1>1, <1>5, <2>2
  <2>3. CASE x # o
    <3>1. x \in Usable /\ obj'[x] = obj[x] /\ model'[x] = model[x]
      BY <1>5, <2>1, <2>3 DEF Usable, Alive
    <3> QED  BY <1>8, <2>1, <2>3, <3>1, OthersHold
  <2> QED  BY <2>2, <2>3
<1>10. HoldInv'  BY <1>9 DEF HoldInv
<1> QED  BY <1>4, <1>8, <1>10 DEF IInv

-----------------------------------------------------------------------------
(* Every action preserves the invariant.                                   *)

\* Nothing is there before construction.
LEMMA Unborn ==
  ASSUME NEW o \in Objects, o \notin Alive
  PROVE  BufOf(o) = None
  BY DEF Alive, BufOf

LEMMA ConstructCapacityInv ==
  ASSUME IInv, NEW o \in Objects, NEW n \in 0..MaxLen, ConstructCapacity(o, n)
  PROVE  IInv'
<1> DEFINE st == Reserve([m |-> mem, r |-> NoBuffer], n)
<1>1. mem \in Heaps /\ \E b \in Buffers : mem[b] = None  BY OwnedFact DEF ConstructCapacity, CanAllocate
<1>2. BufOf(o) = None /\ NoBuffer.buf = None  BY Unborn DEF ConstructCapacity, NoBuffer
<1>3. Holds(mem, NoBuffer, <<>>)  BY HoldsNothing
<1>4. Replaces(mem, BufOf(o), st) /\ Holds(st.m, st.r, <<>>)  BY <1>1, <1>2, <1>3, ReserveFact
<1>5. Becomes(o, st, <<>>)  BY DEF ConstructCapacity
<1> HIDE DEF st
<1>6. Len(<<>>) <= MaxLen  OBVIOUS
<1> QED  BY <1>4, <1>5, <1>6, BecomesInv

LEMMA ConstructListInv ==
  ASSUME IInv, NEW o \in Objects, NEW s \in Seq(Values), Len(s) <= MaxLen, ConstructList(o, s)
  PROVE  IInv'
<1> DEFINE st == Filled(mem, s)
<1>1. mem \in Heaps /\ \E b \in Buffers : mem[b] = None  BY OwnedFact DEF ConstructList, CanAllocate
<1>2. BufOf(o) = None  BY Unborn DEF ConstructList
<1>3. Replaces(mem, BufOf(o), st) /\ Holds(st.m, st.r, s)  BY <1>1, <1>2, FilledFact
<1>4. Becomes(o, st, s)  BY DEF ConstructList
<1> HIDE DEF st
<1> QED  BY <1>3, <1>4, BecomesInv

LEMMA ConstructCopyInv ==
  ASSUME IInv, NEW o \in Objects, NEW rhs \in Objects, ConstructCopy(o, rhs)
  PROVE  IInv'
<1>1. rhs \in Usable  BY DEF ConstructCopy
<1>2. Holds(mem, obj[rhs], model[rhs]) /\ Len(model[rhs]) <= MaxLen /\ model[rhs] \in Seq(Values)
  BY <1>1, OwnedFact
<1>3. Contents(State(rhs)) = model[rhs]  BY <1>2, ContentsFact DEF State
<1>4. ConstructList(o, model[rhs])  BY <1>3 DEF ConstructCopy, ConstructList
<1> QED  BY <1>2, <1>4, ConstructListInv

LEMMA AssignFromInv ==
  ASSUME IInv, NEW o \in Usable, NEW s \in Seq(Values), Len(s) <= MaxLen, CanAllocate,
         AssignFrom(o, s, s)
  PROVE  IInv'
<1> DEFINE tmp == Filled(mem, s)
           w == Destroyed([m |-> tmp.m, r |-> obj[o]])
           st == [m |-> w, r |-> tmp.r]
<1>1. mem \in Heaps /\ \E b \in Buffers : mem[b] = None  BY OwnedFact DEF CanAllocate
<1>2. Replaces(mem, None, tmp) /\ Holds(tmp.m, tmp.r, s)  BY <1>1, FilledFact
<1>3. Becomes(o, st, s)  BY DEF AssignFrom
<1> HIDE DEF tmp
<1>4. /\ o \in Objects /\ BufOf(o) = obj[o].buf /\ Holds(mem, obj[o], model[o])
      /\ obj[o].buf \in Buffers \cup {None} /\ (obj[o].buf # None => mem[obj[o].buf] # None)
  BY OwnedFact
<1>5. /\ tmp.m \in Heaps
      /\ \A x \in Buffers \ {None, tmp.r.buf} : tmp.m[x] = mem[x]
      /\ tmp.r.buf # None => mem[tmp.r.buf] = None
  BY <1>2 DEF Replaces
<1>6. None \notin Buffers /\ tmp.r.buf \in Buffers \cup {None}
  BY <1>2, HoldsFields, StorageFact
<1>7. obj[o].buf # None => obj[o].buf # tmp.r.buf  BY <1>4, <1>5
<1>8. obj[o] = NoBuffer <=> obj[o].buf = None  BY <1>4, HoldsFields
<1>9. obj[o] # NoBuffer => tmp.m[obj[o].buf] = mem[obj[o].buf]  BY <1>4, <1>5, <1>7, <1>8
<1>10. Holds(tmp.m, obj[o], model[o])  BY <1>4, <1>9, HoldsFrame
<1>11. /\ w \in Heaps
       /\ \A x \in Buffers \ {obj[o].buf} : w[x] = tmp.m[x]
       /\ obj[o].buf # None => w[obj[o].buf] = None
  BY <1>5, <1>10, DestroyedFact
<1> HIDE DEF w
<1>12. tmp.r = NoBuffer <=> tmp.r.buf = None  BY <1>2, HoldsFields
<1>13. tmp.r # NoBuffer => w[tmp.r.buf] = tmp.m[tmp.r.buf]  BY <1>6, <1>7, <1>11, <1>12
<1>14. Holds(w, tmp.r, s)  BY <1>2, <1>13, HoldsFrame
<1>15. Replaces(mem, BufOf(o), st)
  <2>1. st.m = w /\ st.r = tmp.r  OBVIOUS
  <2> HIDE DEF st
  <2>2. \A x \in Buffers \ {obj[o].buf, tmp.r.buf} : w[x] = mem[x]  BY <1>5, <1>6, <1>11
  <2> QED  BY <1>4, <1>5, <1>11, <2>1, <2>2 DEF Replaces
<1>16. Holds(st.m, st.r, s)  BY <1>14
<1> HIDE DEF st
<1> QED  BY <1>3, <1>4, <1>15, <1>16, BecomesInv

LEMMA AssignCopyInv ==
  ASSUME IInv, NEW o \in Objects, NEW rhs \in Objects, AssignCopy(o, rhs)
  PROVE  IInv'
<1>1. o \in Usable /\ rhs \in Usable /\ CanAllocate  BY DEF AssignCopy
<1>2. Holds(mem, obj[rhs], model[rhs]) /\ Len(model[rhs]) <= MaxLen /\ model[rhs] \in Seq(Values)
  BY <1>1, OwnedFact
<1>3. Contents(State(rhs)) = model[rhs]  BY <1>2, ContentsFact DEF State
<1>4. AssignFrom(o, model[rhs], model[rhs])  BY <1>3 DEF AssignCopy
<1> QED  BY <1>1, <1>2, <1>4, AssignFromInv

LEMMA AssignListInv ==
  ASSUME IInv, NEW o \in Objects, NEW s \in Seq(Values), Len(s) <= MaxLen, AssignList(o, s)
  PROVE  IInv'
  BY AssignFromInv DEF AssignList

\* An update at two places.
LEMMA TwoUpdates ==
  ASSUME NEW S, NEW T, NEW g \in [S -> T], NEW a \in S, NEW b \in S, a # b, NEW u, NEW v
  PROVE  LET h == [g EXCEPT ![a] = u, ![b] = v]
         IN h[a] = u /\ h[b] = v /\ \A x \in S \ {a, b} : h[x] = g[x]
<1> DEFINE k == [g EXCEPT ![a] = u]
           h == [k EXCEPT ![b] = v]
<1>1. DOMAIN k = S /\ k[a] = u /\ \A x \in S \ {a, b} : k[x] = g[x]  OBVIOUS
<1> HIDE DEF k
<1>2. h[a] = k[a] /\ h[b] = v /\ \A x \in S \ {a, b} : h[x] = k[x]  BY <1>1
<1>3. h[a] = u /\ h[b] = v /\ \A x \in S \ {a, b} : h[x] = g[x]  BY <1>1, <1>2
<1> QED  BY <1>3 DEF k

\* The moves and swap: rhs is left with f and holds t.
LEMMA ExchangeInv ==
  ASSUME IInv, NEW o \in Objects, NEW rhs \in Usable, o # rhs, NEW f, NEW t,
         \/ f = NoBuffer /\ t = <<>>
         \/ o \in Usable /\ f = obj[o] /\ t = model[o],
         obj' = [obj EXCEPT ![o] = obj[rhs], ![rhs] = f],
         model' = [model EXCEPT ![o] = model[rhs], ![rhs] = t],
         broken' = broken, leaked' = leaked, mem' \in Heaps,
         \A b \in Buffers : mem'[b] = IF b = BufOf(o) /\ f.buf = None THEN None ELSE mem[b]
  PROVE  IInv'
<1>1. /\ rhs \in Objects /\ obj[rhs] \in Fields /\ BufOf(rhs) = obj[rhs].buf
      /\ Holds(mem, obj[rhs], model[rhs]) /\ Len(model[rhs]) <= MaxLen
      /\ model[rhs] \in Seq(Values)
  BY OwnedFact
<1>2. f \in Fields /\ f # None /\ obj[rhs] # None /\ t \in Seq(Values) /\ Len(t) <= MaxLen
  <2>1. CASE f = NoBuffer /\ t = <<>>
    <3>1. NoBuffer \in Fields  BY DEF NoBuffer, Fields
    <3> QED  BY <1>1, <2>1, <3>1, StorageFact
  <2>2. CASE o \in Usable /\ f = obj[o] /\ t = model[o]  BY <1>1, <2>2, OwnedFact, StorageFact
  <2> QED  BY <2>1, <2>2
<1>3. /\ obj \in [Objects -> Fields \cup {None}] /\ model \in [Objects -> Seq(Values) \cup {None}]
      /\ leaked \subseteq Buffers
  BY DEF IInv, TypeOK
<1>4. /\ obj'[o] = obj[rhs] /\ obj'[rhs] = f /\ model'[o] = model[rhs] /\ model'[rhs] = t
      /\ \A x \in Objects \ {o, rhs} : obj'[x] = obj[x] /\ model'[x] = model[x]
  <2>1. obj'[o] = obj[rhs] /\ obj'[rhs] = f /\ \A x \in Objects \ {o, rhs} : obj'[x] = obj[x]
    BY <1>1, <1>3, TwoUpdates
  <2>2. model'[o] = model[rhs] /\ model'[rhs] = t /\ \A x \in Objects \ {o, rhs} : model'[x] = model[x]
    BY <1>1, <1>3, TwoUpdates
  <2> QED  BY <2>1, <2>2
<1>5. TypeOK'
  <2>1. obj' \in [Objects -> Fields \cup {None}]  BY <1>1, <1>2, <1>3
  <2>2. model' \in [Objects -> Seq(Values) \cup {None}]  BY <1>1, <1>2, <1>3
  <2> QED  BY <1>3, <2>1, <2>2 DEF TypeOK, Heaps, Storage
<1>6. /\ BufOf(o)' = BufOf(rhs) /\ BufOf(rhs)' = f.buf
      /\ \A x \in Objects \ {o, rhs} : BufOf(x)' = BufOf(x)
  <2>1. \A x : BufOf(x)' = IF obj'[x] = None THEN None ELSE obj'[x].buf  BY DEF BufOf
  <2>2. BufOf(o)' = BufOf(rhs)  BY <1>1, <1>2, <1>4, <2>1
  <2>3. BufOf(rhs)' = f.buf  BY <1>2, <1>4, <2>1
  <2>4. ASSUME NEW x \in Objects \ {o, rhs}  PROVE BufOf(x)' = BufOf(x)
    <3>1. obj'[x] = obj[x]  BY <1>4
    <3>2. BufOf(x) = IF obj[x] = None THEN None ELSE obj[x].buf  BY DEF BufOf
    <3> QED  BY <2>1, <3>1, <3>2
  <2> QED  BY <2>2, <2>3, <2>4
<1>7. f.buf \in {None, BufOf(o)}
  <2>1. CASE f = NoBuffer  BY <2>1 DEF NoBuffer
  <2>2. CASE o \in Usable /\ f = obj[o]  BY <2>2, OwnedFact
  <2> QED  BY <2>1, <2>2
<1>8. OwnInv'  BY <1>1, <1>6, <1>7, ExchangeStep
<1>9. \A x \in Objects : /\ BufOf(x) \in Buffers \cup {None}
                         /\ BufOf(x) = BufOf(o) => x = o \/ BufOf(x) = None
  BY OwnedFact DEF IInv, OwnInv
<1>10. \A x \in Objects \ {o} : BufOf(x) # None => mem'[BufOf(x)] = mem[BufOf(x)]  BY <1>9
<1>11. ASSUME NEW x \in Usable'
       PROVE  Holds(mem', obj'[x], model'[x]) /\ Len(model'[x]) <= MaxLen
  <2>1. x \in Objects /\ obj'[x] # None /\ x \notin broken  BY <1>11 DEF Usable, Alive
  <2>2. CASE x = o
    <3>1. obj[rhs] = NoBuffer <=> BufOf(rhs) = None  BY <1>1, HoldsFields
    <3>2. Holds(mem', obj[rhs], model[rhs])  BY <1>1, <1>10, <3>1, HoldsFrame
    <3> QED  BY <1>1, <1>4, <2>2, <3>2
  <2>3. CASE x = rhs
    <3>1. CASE f = NoBuffer /\ t = <<>>
      BY <1>2, <1>4, <2>3, <3>1, HoldsNothing
    <3>2. CASE o \in Usable /\ f = obj[o] /\ t = model[o]
      <4>1. Holds(mem, obj[o], model[o]) /\ BufOf(o) = obj[o].buf  BY <3>2, OwnedFact
      <4>2. obj[o].buf = None <=> obj[o] = NoBuffer  BY <4>1, HoldsFields
      <4>3. obj[o] # NoBuffer => mem'[obj[o].buf] = mem[obj[o].buf]  BY <1>9, <3>2, <4>1, <4>2
      <4>4. Holds(mem', obj[o], model[o])  BY <4>1, <4>3, HoldsFrame
      <4> QED  BY <1>2, <1>4, <2>3, <3>2, <4>4
    <3> QED  BY <3>1, <3>2
  <2>4. CASE x \notin {o, rhs}
    <3>1. x \in Usable /\ obj'[x] = obj[x] /\ model'[x] = model[x]
      BY <1>4, <2>1, <2>4 DEF Usable, Alive
    <3> QED  BY <1>10, <2>1, <2>4, <3>1, OthersHold
  <2> QED  BY <2>2, <2>3, <2>4
<1>12. HoldInv'  BY <1>11 DEF HoldInv
<1> QED  BY <1>5, <1>8, <1>12 DEF IInv

LEMMA ConstructMoveInv ==
  ASSUME IInv, NEW o \in Objects, NEW rhs \in Objects, ConstructMove(o, rhs)
  PROVE  IInv'
<1>1. /\ o \notin Alive /\ rhs \in Usable /\ mem' = mem /\ broken' = broken /\ leaked' = leaked
      /\ obj' = [obj EXCEPT ![o] = obj[rhs], ![rhs] = NoBuffer]
      /\ model' = [model EXCEPT ![o] = model[rhs], ![rhs] = <<>>]
  BY DEF ConstructMove, history
<1>2. o # rhs  BY <1>1 DEF Usable
<1>3. BufOf(o) = None /\ None \notin Buffers  BY <1>1, Unborn, StorageFact
<1>4. mem' \in Heaps  BY <1>1, OwnedFact
<1>5. \A b \in Buffers : mem'[b] = IF b = BufOf(o) /\ NoBuffer.buf = None THEN None ELSE mem[b]
  BY <1>1, <1>3
<1> QED  BY <1>1, <1>2, <1>4, <1>5, ExchangeInv

LEMMA AssignMoveInv ==
  ASSUME IInv, NEW o \in Objects, NEW rhs \in Objects, AssignMove(o, rhs)
  PROVE  IInv'
<1>1. /\ o \in Usable /\ rhs \in Usable /\ o # rhs /\ broken' = broken /\ leaked' = leaked
      /\ mem' = Destroyed([m |-> mem, r |-> obj[o]])
      /\ obj' = [obj EXCEPT ![o] = obj[rhs], ![rhs] = NoBuffer]
      /\ model' = [model EXCEPT ![o] = model[rhs], ![rhs] = <<>>]
  BY DEF AssignMove, history, State
<1>2. mem \in Heaps /\ Holds(mem, obj[o], model[o]) /\ BufOf(o) = obj[o].buf  BY <1>1, OwnedFact
<1>3. /\ mem' \in Heaps
      /\ \A x \in Buffers \ {obj[o].buf} : mem'[x] = mem[x]
      /\ obj[o].buf # None => mem'[obj[o].buf] = None
  BY <1>1, <1>2, DestroyedFact
<1>4. None \notin Buffers /\ NoBuffer.buf = None  BY StorageFact DEF NoBuffer
<1>5. \A b \in Buffers : mem'[b] = IF b = BufOf(o) /\ NoBuffer.buf = None THEN None ELSE mem[b]
  BY <1>2, <1>3, <1>4
<1> QED  BY <1>1, <1>3, <1>5, ExchangeInv

LEMMA SwapInv ==
  ASSUME IInv, NEW o \in Objects, NEW rhs \in Objects, Swap(o, rhs)
  PROVE  IInv'
<1>1. /\ o \in Usable /\ rhs \in Usable /\ o # rhs /\ broken' = broken /\ leaked' = leaked
      /\ mem' = mem
      /\ obj' = [obj EXCEPT ![o] = obj[rhs], ![rhs] = obj[o]]
      /\ model' = [model EXCEPT ![o] = model[rhs], ![rhs] = model[o]]
  BY DEF Swap, history
<1>2. mem' \in Heaps /\ BufOf(o) = obj[o].buf /\ None \notin Buffers  BY <1>1, OwnedFact, StorageFact
<1>3. \A b \in Buffers : mem'[b] = IF b = BufOf(o) /\ obj[o].buf = None THEN None ELSE mem[b]
  BY <1>1, <1>2
<1> QED  BY <1>1, <1>2, <1>3, ExchangeInv

LEMMA DestructInv ==
  ASSUME IInv, NEW o \in Objects, Destruct(o)
  PROVE  IInv'
<1>1. /\ o \in Usable /\ broken' = broken /\ leaked' = leaked
      /\ mem' = Destroyed([m |-> mem, r |-> obj[o]])
      /\ obj' = [obj EXCEPT ![o] = None] /\ model' = [model EXCEPT ![o] = None]
  BY DEF Destruct, history, State
<1>2. mem \in Heaps /\ Holds(mem, obj[o], model[o]) /\ BufOf(o) = obj[o].buf  BY <1>1, OwnedFact
<1>3. /\ mem' \in Heaps
      /\ \A x \in Buffers \ {obj[o].buf} : mem'[x] = mem[x]
      /\ obj[o].buf # None => mem'[obj[o].buf] = None
  BY <1>1, <1>2, DestroyedFact
<1>4. /\ obj \in [Objects -> Fields \cup {None}] /\ model \in [Objects -> Seq(Values) \cup {None}]
      /\ leaked \subseteq Buffers
  BY DEF IInv, TypeOK
<1>5. TypeOK'
  <2>1. obj' \in [Objects -> Fields \cup {None}]  BY <1>1, <1>4
  <2>2. model' \in [Objects -> Seq(Values) \cup {None}]  BY <1>1, <1>4
  <2> QED  BY <1>1, <1>3, <1>4, <2>1, <2>2 DEF TypeOK, Heaps, Storage
<1>6. obj'[o] = None /\ \A x \in Objects \ {o} : obj'[x] = obj[x] /\ model'[x] = model[x]
  BY <1>1, <1>4
<1>7. BufOf(o)' = None /\ \A x \in Objects \ {o} : BufOf(x)' = BufOf(x)  BY <1>6 DEF BufOf
<1>8. Replaces(mem, BufOf(o), [m |-> mem', r |-> [buf |-> None]])  BY <1>2, <1>3 DEF Replaces
<1>9. /\ OwnInv'
      /\ \A x \in Objects \ {o} : BufOf(x) # None => mem'[BufOf(x)] = mem[BufOf(x)]
  BY <1>1, <1>7, <1>8, OwnStep
<1>10. ASSUME NEW x \in Usable'
       PROVE  Holds(mem', obj'[x], model'[x]) /\ Len(model'[x]) <= MaxLen
  <2>1. x \in Objects \ {o} /\ x \in Usable  BY <1>1, <1>6, <1>10 DEF Usable, Alive
  <2> QED  BY <1>6, <1>9, <2>1, OthersHold
<1>11. HoldInv'  BY <1>10 DEF HoldInv
<1> QED  BY <1>5, <1>9, <1>11 DEF IInv

LEMMA ReserveForInv ==
  ASSUME IInv, NEW o \in Objects, NEW n \in 0..MaxLen, ReserveFor(o, n)
  PROVE  IInv'
<1> DEFINE st == Reserve([m |-> mem, r |-> obj[o]], n)
<1>1. o \in Usable /\ (\E b \in Buffers : mem[b] = None) /\ Becomes(o, st, model[o])
  BY DEF ReserveFor, CanAllocate, State
<1>2. /\ mem \in Heaps /\ BufOf(o) = obj[o].buf /\ Holds(mem, obj[o], model[o])
      /\ Len(model[o]) <= MaxLen
  BY <1>1, OwnedFact
<1>3. Replaces(mem, BufOf(o), st) /\ Holds(st.m, st.r, model[o])  BY <1>1, <1>2, ReserveFact
<1> HIDE DEF st
<1> QED  BY <1>1, <1>2, <1>3, BecomesInv

LEMMA ShrinkToFitInv ==
  ASSUME IInv, NEW o \in Objects, ShrinkToFit(o)
  PROVE  IInv'
<1> DEFINE me == [m |-> mem, r |-> obj[o]]
           n == RoundUpPo2(Size(obj[o]) + 1)
<1>1. /\ o \in Usable /\ \E b \in Buffers : mem[b] = None
      /\ Becomes(o, CASE Size(obj[o]) = 0 -> [m |-> FreeBuf(me), r |-> NoBuffer]
                      [] Size(obj[o]) > 0 /\ n < obj[o].cap -> GrowTo(me, n)
                      [] OTHER -> me, model[o])
  BY DEF ShrinkToFit, CanAllocate, State
<1>2. /\ mem \in Heaps /\ BufOf(o) = obj[o].buf /\ Holds(mem, obj[o], model[o])
      /\ Len(model[o]) <= MaxLen /\ obj[o].buf \in Buffers \cup {None}
  BY <1>1, OwnedFact
<1>3. Size(obj[o]) = Len(model[o]) /\ Len(model[o]) \in Nat /\ model[o] \in Seq(Values)
  BY <1>2, SizeFact, HoldsFields
<1>4. CASE Size(obj[o]) = 0
  <2> DEFINE st == [m |-> FreeBuf(me), r |-> NoBuffer]
  <2>1. Becomes(o, st, model[o])  BY <1>1, <1>4
  <2>2. model[o] = <<>>
    <3>1. Len(model[o]) = 0  BY <1>3, <1>4
    <3> QED  BY <1>3, <3>1, EmptySeq
  <2>3. /\ FreeBuf(me) \in Heaps
        /\ \A x \in Buffers \ {obj[o].buf} : FreeBuf(me)[x] = mem[x]
        /\ obj[o].buf # None => FreeBuf(me)[obj[o].buf] = None
    BY <1>2, FreeFact
  <2>4. st.m = FreeBuf(me) /\ st.r = NoBuffer /\ st.r.buf = None  BY DEF NoBuffer
  <2> HIDE DEF st, me
  <2>5. Replaces(mem, BufOf(o), st)  BY <1>2, <2>3, <2>4 DEF Replaces
  <2>6. Holds(st.m, st.r, model[o])  BY <2>2, <2>4, HoldsNothing
  <2> QED  BY <1>2, <2>1, <2>5, <2>6, BecomesInv
<1>5. CASE Size(obj[o]) > 0 /\ n < obj[o].cap
  <2>1. Size(obj[o]) # 0  BY <1>3, <1>5
  <2>2. Becomes(o, GrowTo(me, n), model[o])
    <3> HIDE DEF n, me
    <3> QED  BY <1>1, <1>5, <2>1
  <2>3. Size(obj[o]) + 1 \in 1..(MaxLen + 1) /\ Size(obj[o]) + 1 >= 2  BY <1>2, <1>3, <1>5
  <2>4. n \in 1..MaxSize /\ n >= Size(obj[o]) + 1  BY <2>3, RoundUpFact
  <2> HIDE DEF n
  <2>5. n \in 2..MaxSize /\ Len(model[o]) < n  BY <1>3, <2>3, <2>4
  <2> DEFINE st == GrowTo(me, n)
  <2>6. Replaces(mem, BufOf(o), st) /\ Holds(st.m, st.r, model[o])  BY <1>1, <1>2, <2>5, GrowFact
  <2> HIDE DEF st
  <2>7. Becomes(o, st, model[o])  BY <2>2 DEF st
  <2> QED  BY <1>2, <2>6, <2>7, BecomesInv
<1>6. CASE ~(Size(obj[o]) = 0) /\ ~(Size(obj[o]) > 0 /\ n < obj[o].cap)
  <2>1. Becomes(o, me, model[o])
    <3> HIDE DEF n, me
    <3> QED  BY <1>1, <1>6
  <2>2. Replaces(mem, BufOf(o), me)  BY <1>2, ReplacesSelf
  <2>3. Holds(me.m, me.r, model[o])  BY <1>2
  <2> HIDE DEF me
  <2> QED  BY <1>2, <2>1, <2>2, <2>3, BecomesInv
<1> QED  BY <1>4, <1>5, <1>6

\* ensure_space and the construction of an element behind the last one.
LEMMA EnsureAndPush ==
  ASSUME IInv, NEW o \in Usable, CanAllocate, Len(model[o]) < MaxLen, NEW v \in Values
  PROVE  LET st == PushBack(EnsureSpace(State(o)), v)
         IN Replaces(mem, BufOf(o), st) /\ Holds(st.m, st.r, Append(model[o], v))
<1> DEFINE a == EnsureSpace([m |-> mem, r |-> obj[o]])
           st == PushBack([m |-> a.m, r |-> a.r], v)
           t == Append(model[o], v)
<1>1. /\ mem \in Heaps /\ BufOf(o) = obj[o].buf /\ Holds(mem, obj[o], model[o])
      /\ BufOf(o) \in Buffers \cup {None}
  BY OwnedFact
<1>2. /\ Replaces(mem, BufOf(o), a) /\ Holds(a.m, a.r, model[o])
      /\ a.r # NoBuffer /\ Len(model[o]) + 1 < a.r.cap
  BY <1>1, EnsureFact DEF CanAllocate
<1>3. PushBack(EnsureSpace(State(o)), v) = st  BY DEF PushBack, State
<1> HIDE DEF a
<1>4. a.m \in Heaps  BY <1>2 DEF Replaces
<1>5. /\ Holds(st.m, st.r, t) /\ st.r.buf = a.r.buf
      /\ st.m \in Heaps /\ \A x \in Buffers \ {a.r.buf} : st.m[x] = a.m[x]
  BY <1>2, <1>4, PushFact
<1> HIDE DEF st
<1>6. Replaces(mem, BufOf(o), [m |-> st.m, r |-> st.r])  BY <1>1, <1>2, <1>5, ReplacesThen
<1>7. Replaces(mem, BufOf(o), st)  BY <1>6 DEF Replaces
<1> QED  BY <1>3, <1>5, <1>7

LEMMA PushInv ==
  ASSUME IInv, NEW o \in Objects, NEW v \in Values, Push(o, v)
  PROVE  IInv'
<1> DEFINE st == PushBack(EnsureSpace(State(o)), v)
<1>1. /\ o \in Usable /\ CanAllocate /\ Len(model[o]) < MaxLen
      /\ Becomes(o, st, Append(model[o], v))
  BY DEF Push
<1>2. Replaces(mem, BufOf(o), st) /\ Holds(st.m, st.r, Append(model[o], v))
  BY <1>1, EnsureAndPush
<1>3. model[o] \in Seq(Values) /\ Len(model[o]) \in Nat  BY <1>1, OwnedFact
<1>4. Len(Append(model[o], v)) <= MaxLen  BY <1>1, <1>3
<1> HIDE DEF st
<1> QED  BY <1>1, <1>2, <1>4, BecomesInv

LEMMA PushThrowsInv ==
  ASSUME IInv, NEW o \in Objects, PushThrows(o)
  PROVE  IInv'
<1> DEFINE st == EnsureSpace([m |-> mem, r |-> obj[o]])
<1>1. o \in Usable /\ (\E b \in Buffers : mem[b] = None) /\ Len(model[o]) < MaxLen /\ Becomes(o, st, model[o])
  BY DEF PushThrows, CanAllocate, State
<1>2. /\ mem \in Heaps /\ BufOf(o) = obj[o].buf /\ Holds(mem, obj[o], model[o])
      /\ Len(model[o]) <= MaxLen
  BY <1>1, OwnedFact
<1>3. Replaces(mem, BufOf(o), st) /\ Holds(st.m, st.r, model[o])  BY <1>1, <1>2, EnsureFact
<1> HIDE DEF st
<1> QED  BY <1>1, <1>2, <1>3, BecomesInv

\* The slot before tail_, n slots from head_ on a ring of c.
LEMMA BeforeTail ==
  ASSUME NEW c \in Nat, NEW h \in 0..(c - 1), NEW n \in 1..(c - 1), NEW t \in 0..(c - 1),
         t = IF h + n < c THEN h + n ELSE h + n - c
  PROVE  And(t - 1 + c, c - 1) = IF h + (n - 1) < c THEN h + (n - 1) ELSE h + (n - 1) - c
<1> DEFINE x == t - 1 + c
<1>1. x \in 0..(2 * c - 1) /\ c >= 1  OBVIOUS
<1>2. And(x, c - 1) = IF x < c THEN x ELSE x - c  BY <1>1, AndFact
<1>3. x = t - 1 + c  OBVIOUS
<1> HIDE DEF x
<1>4. CASE h + n < c
  <2>1. t = h + n  BY <1>4
  <2>2. And(x, c - 1) = IF h + (n - 1) < c THEN h + (n - 1) ELSE h + (n - 1) - c
    BY <1>2, <1>3, <1>4, <2>1
  <2> QED  BY <2>2 DEF x
<1>5. CASE h + n = c
  <2>1. t = 0  BY <1>5
  <2>2. And(x, c - 1) = IF h + (n - 1) < c THEN h + (n - 1) ELSE h + (n - 1) - c
    BY <1>2, <1>3, <1>5, <2>1
  <2> QED  BY <2>2 DEF x
<1>6. CASE h + n > c
  <2>1. t = h + n - c /\ t >= 1  BY <1>6
  <2>2. And(x, c - 1) = IF h + (n - 1) < c THEN h + (n - 1) ELSE h + (n - 1) - c
    BY <1>2, <1>3, <1>6, <2>1
  <2> QED  BY <2>2 DEF x
<1>7. h + n < c \/ h + n = c \/ h + n > c  OBVIOUS
<1> QED  BY <1>4, <1>5, <1>6, <1>7

\* front() is the first element, back() the last.
LEMMA FrontFact ==
  ASSUME NEW m, NEW r, NEW s, Holds(m, r, s), s # <<>>
  PROVE  /\ Front([m |-> m, r |-> r]) = s[1] /\ Head(s) = s[1] /\ s[1] \in Values
         /\ Back([m |-> m, r |-> r]) = s[Len(s)]
<1>1. /\ r # NoBuffer /\ Ring(r) /\ s \in Seq(Values) /\ Len(s) < r.cap /\ r.tail = Slot(r, Len(s))
      /\ \A i \in 0..(r.cap - 1) : m[r.buf][Slot(r, i)] = IF i < Len(s) THEN s[i + 1] ELSE Raw
  BY DEF Holds
<1>2. Len(s) \in Nat /\ Len(s) >= 1  BY <1>1
<1>3. /\ r.cap \in Nat /\ r.cap >= 2 /\ r.mask = r.cap - 1
      /\ r.head \in 0..(r.cap - 1) /\ r.tail \in 0..(r.cap - 1)
  BY <1>1 DEF Ring
<1>4. Slot(r, 0) = r.head  BY <1>3 DEF Slot
<1>5. m[r.buf][r.head] = s[0 + 1]  BY <1>1, <1>2, <1>3, <1>4
<1>6. Head(s) = s[1] /\ s[1] \in Values  BY <1>1, <1>2
<1> DEFINE k == Len(s) - 1
<1>7. k \in 0..(r.cap - 1) /\ k < Len(s) /\ k + 1 = Len(s) /\ Len(s) \in 1..(r.cap - 1)
  BY <1>1, <1>2, <1>3
<1>8. r.tail = IF r.head + Len(s) < r.cap THEN r.head + Len(s) ELSE r.head + Len(s) - r.cap
  BY <1>1 DEF Slot
<1>9. And(r.tail - 1 + r.cap, r.cap - 1) = IF r.head + k < r.cap THEN r.head + k ELSE r.head + k - r.cap
  BY <1>3, <1>7, <1>8, BeforeTail
<1>10. And(r.tail - 1 + r.cap, r.mask) = Slot(r, k)  BY <1>3, <1>9 DEF Slot
<1> HIDE DEF k
<1>11. m[r.buf][And(r.tail - 1 + r.cap, r.mask)] = s[Len(s)]  BY <1>1, <1>7, <1>10
<1> QED  BY <1>5, <1>6, <1>11 DEF Front, Back

LEMMA PushOwnFrontInv ==
  ASSUME IInv, NEW o \in Objects, PushOwnFront(o)
  PROVE  IInv'
<1> DEFINE v == Front([m |-> mem, r |-> obj[o]])
           st == PushBack([m |-> mem, r |-> obj[o]], v)
           s == model[o]
<1>1. /\ o \in Usable /\ Len(s) \in 1..(MaxLen - 1) /\ SpaceLeft(obj[o])
      /\ Becomes(o, st, Append(s, Head(s)))
  BY DEF PushOwnFront, State
<1>2. /\ mem \in Heaps /\ BufOf(o) = obj[o].buf /\ Holds(mem, obj[o], s)
      /\ s \in Seq(Values) /\ Len(s) \in Nat /\ BufOf(o) \in Buffers \cup {None}
  BY <1>1, OwnedFact
<1>3. s # <<>>  BY <1>1, <1>2
<1>4. v = Head(s) /\ v \in Values  BY <1>2, <1>3, FrontFact
<1>5. obj[o] # NoBuffer  BY <1>2, <1>3 DEF Holds
<1>6. Len(s) + 1 < obj[o].cap
  <2>1. Size(obj[o]) = Len(s)  BY <1>2, SizeFact
  <2> QED  BY <1>1, <2>1 DEF SpaceLeft
<1> HIDE DEF v
<1>7. /\ Holds(st.m, st.r, Append(s, v)) /\ st.r.buf = obj[o].buf
      /\ st.m \in Heaps /\ \A x \in Buffers \ {obj[o].buf} : st.m[x] = mem[x]
  BY <1>2, <1>4, <1>5, <1>6, PushFact
<1> HIDE DEF st
<1>8. Replaces(mem, BufOf(o), st)  BY <1>2, <1>7 DEF Replaces
<1>9. Len(Append(s, v)) <= MaxLen  BY <1>1, <1>2, <1>4
<1> QED  BY <1>1, <1>4, <1>7, <1>8, <1>9, BecomesInv

LEMMA PushOwnFrontGrowingInv ==
  ASSUME IInv, NEW o \in Objects, PushOwnFrontGrowing(o)
  PROVE  IInv'
<1> DEFINE s == model[o]
<1>1. /\ o \in Usable /\ CanAllocate /\ Len(s) \in 1..(MaxLen - 1)
      /\ model' = [model EXCEPT ![o] = Append(s, Head(s))]
      /\ broken' = broken \cup {o} /\ leaked' = leaked
  BY DEF PushOwnFrontGrowing, IInv, TypeOK
<1>2. PICK v \in Values : LET st == PushBack(EnsureSpace(State(o)), v)
                          IN mem' = st.m /\ obj' = [obj EXCEPT ![o] = st.r]
  BY DEF PushOwnFrontGrowing
<1> DEFINE st == PushBack(EnsureSpace(State(o)), v)
<1>3. /\ mem \in Heaps /\ Holds(mem, obj[o], s) /\ s \in Seq(Values) /\ Len(s) \in Nat
  BY <1>1, OwnedFact
<1>4. s # <<>> /\ Len(s) < MaxLen  BY <1>1, <1>3
<1>5. Head(s) \in Values  BY <1>3, <1>4, FrontFact
<1>6. Replaces(mem, BufOf(o), st) /\ Holds(st.m, st.r, Append(s, v))  BY <1>1, <1>4, EnsureAndPush
<1>7. mem' = st.m /\ obj' = [obj EXCEPT ![o] = st.r]  BY <1>2
<1> HIDE DEF st
<1>8. /\ st.r \in Fields /\ st.r # None
      /\ st.r.buf \in Buffers \cup {None} /\ (st.r.buf # None => st.m[st.r.buf] # None)
  BY <1>6, HoldsFields, StorageFact DEF NoBuffer
<1>9. /\ obj \in [Objects -> Fields \cup {None}] /\ model \in [Objects -> Seq(Values) \cup {None}]
      /\ leaked \subseteq Buffers
  BY DEF IInv, TypeOK
<1>10. TypeOK'
  <2>1. mem' \in Heaps  BY <1>6, <1>7 DEF Replaces
  <2>2. obj' \in [Objects -> Fields \cup {None}]  BY <1>7, <1>8, <1>9
  <2>3. Append(s, Head(s)) \in Seq(Values)  BY <1>3, <1>5
  <2>4. model' \in [Objects -> Seq(Values) \cup {None}]  BY <1>1, <1>9, <2>3
  <2> QED  BY <1>1, <1>9, <2>1, <2>2, <2>4 DEF TypeOK, Heaps, Storage
<1>11. /\ obj'[o] = st.r
       /\ \A x \in Objects \ {o} : obj'[x] = obj[x] /\ model'[x] = model[x]
  BY <1>1, <1>7, <1>9
<1>12. BufOf(o)' = st.r.buf /\ \A x \in Objects \ {o} : BufOf(x)' = BufOf(x)
  BY <1>8, <1>11 DEF BufOf
<1>13. Replaces(mem, BufOf(o), [m |-> mem', r |-> [buf |-> st.r.buf]])  BY <1>6, <1>7 DEF Replaces
<1>14. /\ OwnInv'
       /\ \A x \in Objects \ {o} : BufOf(x) # None => mem'[BufOf(x)] = mem[BufOf(x)]
  BY <1>1, <1>7, <1>8, <1>12, <1>13, OwnStep
<1>15. ASSUME NEW x \in Usable'
       PROVE  Holds(mem', obj'[x], model'[x]) /\ Len(model'[x]) <= MaxLen
  <2>1. x \in Objects \ {o} /\ obj'[x] # None /\ x \notin broken  BY <1>1, <1>15 DEF Usable, Alive
  <2>2. x \in Usable /\ obj'[x] = obj[x] /\ model'[x] = model[x]
    BY <1>11, <2>1 DEF Usable, Alive
  <2> QED  BY <1>14, <2>1, <2>2, OthersHold
<1>16. HoldInv'  BY <1>15 DEF HoldInv
<1> QED  BY <1>10, <1>14, <1>16 DEF IInv

LEMMA PopInv ==
  ASSUME IInv, NEW o \in Objects, Pop(o)
  PROVE  IInv'
<1> DEFINE st == PopFront([m |-> mem, r |-> obj[o]])
           s == model[o]
<1>1. o \in Usable /\ s # <<>> /\ Becomes(o, st, Tail(s))  BY DEF Pop, State
<1>2. /\ mem \in Heaps /\ BufOf(o) = obj[o].buf /\ Holds(mem, obj[o], s)
      /\ s \in Seq(Values) /\ Len(s) \in Nat /\ Len(s) <= MaxLen
  BY <1>1, OwnedFact
<1>3. /\ Holds(st.m, st.r, Tail(s)) /\ st.r.buf = obj[o].buf
      /\ st.m \in Heaps /\ \A x \in Buffers \ {obj[o].buf} : st.m[x] = mem[x]
  BY <1>1, <1>2, PopFact
<1> HIDE DEF st
<1>4. Replaces(mem, BufOf(o), st)  BY <1>2, <1>3 DEF Replaces
<1>5. Len(Tail(s)) <= MaxLen  BY <1>1, <1>2
<1> QED  BY <1>1, <1>3, <1>4, <1>5, BecomesInv

LEMMA ClearAllInv ==
  ASSUME IInv, NEW o \in Objects, ClearAll(o)
  PROVE  IInv'
<1> DEFINE st == Clear([m |-> mem, r |-> obj[o]])
<1>1. o \in Usable /\ Becomes(o, st, <<>>)  BY DEF ClearAll, State
<1>2. mem \in Heaps /\ BufOf(o) = obj[o].buf /\ Holds(mem, obj[o], model[o])  BY <1>1, OwnedFact
<1>3. /\ Holds(st.m, st.r, <<>>) /\ st.r.buf = obj[o].buf
      /\ st.m \in Heaps /\ \A x \in Buffers \ {obj[o].buf} : st.m[x] = mem[x]
  BY <1>2, ClearFact
<1> HIDE DEF st
<1>4. Replaces(mem, BufOf(o), st)  BY <1>2, <1>3 DEF Replaces
<1>5. Len(<<>>) <= MaxLen  OBVIOUS
<1> QED  BY <1>1, <1>3, <1>4, <1>5, BecomesInv

\* A throw that leaks buffer b; the queue o alone may have lost elements, and
\* is broken then.
LEMMA LeakInv ==
  ASSUME IInv, NEW o \in Objects, NEW b \in Buffers, mem[b] = None, mem' \in Heaps, mem'[b] # None,
         obj' = obj, model' = model, leaked' = leaked \cup {b}, broken \subseteq broken',
         \A x \in Buffers \ {b} : \/ mem'[x] = mem[x]
                                  \/ x = BufOf(o) /\ o \in broken' /\ mem'[x] # None
  PROVE  IInv'
<1>1. /\ obj \in [Objects -> Fields \cup {None}] /\ model \in [Objects -> Seq(Values) \cup {None}]
      /\ leaked \subseteq Buffers
  BY DEF IInv, TypeOK
<1>2. TypeOK'  BY <1>1 DEF TypeOK, Heaps, Storage
<1>3. /\ \A x \in Objects : /\ BufOf(x) \in Buffers \cup {None}
                            /\ BufOf(x) # None => mem[BufOf(x)] # None
      /\ \A x \in Objects : BufOf(x) = BufOf(o) => x = o \/ BufOf(x) = None
  BY OwnedFact DEF IInv, OwnInv
<1>4. \A x \in Buffers \ {b} : mem'[x] = None <=> mem[x] = None  BY <1>3, StorageFact
<1>5. OwnInv'  BY <1>4, LeakStep
<1>6. ASSUME NEW x \in Usable'
      PROVE  Holds(mem', obj'[x], model'[x]) /\ Len(model'[x]) <= MaxLen
  <2>1. x \in Objects /\ x \notin broken' /\ x \in Usable  BY <1>6 DEF Usable, Alive
  <2>2. ASSUME BufOf(x) # None  PROVE mem'[BufOf(x)] = mem[BufOf(x)]
    <3>1. BufOf(x) \in Buffers \ {b}  BY <1>3, <2>1, <2>2
    <3>2. BufOf(x) = BufOf(o) => x = o  BY <1>3, <2>1, <2>2
    <3> QED  BY <2>1, <3>1, <3>2
  <2> QED  BY <2>1, <2>2, OthersHold
<1>7. HoldInv'  BY <1>6 DEF HoldInv
<1> QED  BY <1>2, <1>5, <1>7 DEF IInv

\* What stands for the storage of a leaked buffer.
LEMMA LeakedCell ==
  [i \in {0} |-> Raw] \in Storage /\ [i \in {0} |-> Raw] # None
<1>1. 1 \in 0..MaxSize  BY GrowthAssumption
<1>2. [i \in {0} |-> Raw] \in [0..(1 - 1) -> Cells]
  <2>1. 0..(1 - 1) = {0}  OBVIOUS
  <2> QED  BY <2>1 DEF Cells
<1>3. [i \in {0} |-> Raw] \in Storage  BY <1>1, <1>2 DEF Storage
<1> QED  BY <1>3, StorageFact

LEMMA FillThrowsInv ==
  ASSUME IInv, NEW o \in Objects,
         NEW s \in Seq(Values), Len(s) <= MaxLen, NEW n \in 0..MaxLen, FillThrows(s, n)
  PROVE  IInv'
<1> DEFINE all == Filled(mem, s)
           b == FreshBuffer(mem)
           cell == [i \in {0} |-> Raw]
<1>1. /\ (\E x \in Buffers : mem[x] = None) /\ n < Len(s)
      /\ obj' = obj /\ model' = model /\ broken' = broken
  BY DEF FillThrows, CanAllocate
<1>2. mem \in Heaps /\ Len(s) \in Nat
  BY DEF IInv, TypeOK
<1>3. s # <<>>  BY <1>1, <1>2
<1>4. Replaces(mem, None, all) /\ Holds(all.m, all.r, s) /\ all.r.buf = b
  BY <1>1, <1>2, <1>3, FilledFact
<1>5. b \in Buffers /\ mem[b] = None /\ b # None  BY <1>1, FreshFact, StorageFact
<1> DEFINE half == [all.m EXCEPT ![all.r.buf] = [i \in DOMAIN @ |-> IF i < n THEN @[i] ELSE Raw]]
<1>6. Leak(half, b)  BY <1>4 DEF FillThrows
<1> HIDE DEF all, b
<1>7. all.m \in Heaps /\ \A x \in Buffers \ {b} : all.m[x] = mem[x]
  BY <1>4, StorageFact DEF Replaces
<1>8. DOMAIN half = Buffers /\ \A x \in Buffers \ {b} : half[x] = mem[x]
  BY <1>4, <1>5, <1>7 DEF Heaps
<1> HIDE DEF half
<1>9. mem' = [half EXCEPT ![b] = cell] /\ leaked' = leaked \cup {b}  BY <1>6 DEF Leak
<1>10. cell \in Storage /\ cell # None  BY LeakedCell
<1> HIDE DEF cell
<1>11. mem'[b] = cell /\ (\A x \in Buffers \ {b} : mem'[x] = mem[x]) /\ DOMAIN mem' = Buffers
  BY <1>5, <1>8, <1>9
<1>12. mem' \in Heaps
  <2>1. \A x \in Buffers : mem'[x] \in Storage \cup {None}  BY <1>2, <1>10, <1>11 DEF Heaps
  <2>2. mem' = [x \in Buffers |-> mem'[x]]  BY <1>8, <1>9
  <2> QED  BY <2>1, <2>2 DEF Heaps
<1> QED  BY <1>1, <1>5, <1>9, <1>10, <1>11, <1>12, LeakInv

LEMMA CopyThrowsInv ==
  ASSUME IInv, NEW rhs \in Objects, NEW n \in 0..MaxLen, CopyThrows(rhs, n)
  PROVE  IInv'
<1>1. rhs \in Usable  BY DEF CopyThrows
<1>2. Holds(mem, obj[rhs], model[rhs]) /\ model[rhs] \in Seq(Values) /\ Len(model[rhs]) <= MaxLen /\ mem \in Heaps
  BY <1>1, OwnedFact
<1>3. Contents(State(rhs)) = model[rhs]  BY <1>2, ContentsFact DEF State
<1>4. FillThrows(model[rhs], n)  BY <1>3 DEF CopyThrows
<1> QED  BY <1>2, <1>4, FillThrowsInv

LEMMA RelocateThrowsInv ==
  ASSUME IInv, NEW o \in Objects, NEW n \in 0..MaxLen, RelocateThrows(o, n)
  PROVE  IInv'
<1> DEFINE r == obj[o]
           b == FreshBuffer(mem)
           gone == {And(r.head + i, r.mask) : i \in 0..(n - 1)}
           c == [i \in DOMAIN mem[r.buf] |-> IF i \in gone THEN Raw ELSE mem[r.buf][i]]
           m1 == [mem EXCEPT ![r.buf] = c]
           cell == [i \in {0} |-> Raw]
           new(k) == [i \in 0..(k - 1) |-> IF i < n THEN Relocated(State(o), k)[i] ELSE Raw]
<1>1. /\ o \in Usable /\ (\E x \in Buffers : mem[x] = None) /\ n < Size(r)
      /\ obj' = obj /\ model' = model
      /\ broken' = IF n > 0 THEN broken \cup {o} ELSE broken
  BY DEF RelocateThrows, CanAllocate
<1>2. /\ mem \in Heaps /\ Holds(mem, r, model[o]) /\ BufOf(o) = r.buf
      /\ r.buf # None => mem[r.buf] # None
  BY <1>1, OwnedFact
<1>3. Size(r) = Len(model[o]) /\ Len(model[o]) \in Nat  BY <1>2, SizeFact
<1>4. r # NoBuffer
  <2>1. model[o] # <<>>  BY <1>1, <1>3
  <2> QED  BY <1>2, <2>1 DEF Holds
<1>5. r.buf \in Buffers /\ r.buf # None /\ r.cap \in 2..MaxSize  BY <1>2, <1>4, HoldsFields
<1>6. mem[r.buf] \in [0..(r.cap - 1) -> Cells]  BY <1>2, <1>4 DEF Holds
<1>7. b \in Buffers /\ mem[b] = None /\ b # r.buf  BY <1>1, <1>2, <1>5, FreshFact
<1>8. PICK k \in GrowthTargets(r) :
        Leak([mem EXCEPT ![r.buf] = [i \in DOMAIN @ |-> IF i \in gone THEN Raw ELSE @[i]],
                         ![b] = new(k)], b)
  BY DEF RelocateThrows
<1>9. Leak([m1 EXCEPT ![b] = new(k)], b)
  <2>1. [mem EXCEPT ![r.buf] = [i \in DOMAIN @ |-> IF i \in gone THEN Raw ELSE @[i]],
                    ![b] = new(k)] = [m1 EXCEPT ![b] = new(k)]
    <3>1. [mem EXCEPT ![r.buf] = [i \in DOMAIN @ |-> IF i \in gone THEN Raw ELSE @[i]]] = m1
      BY <1>2, <1>5 DEF Heaps
    <3> HIDE DEF m1, new, gone
    <3> QED  BY <3>1
  <2> QED  BY <1>8, <2>1
<1>10. c \in [0..(r.cap - 1) -> Cells] /\ (n = 0 => c = mem[r.buf])
  <2>1. DOMAIN mem[r.buf] = 0..(r.cap - 1) /\ Raw \in Cells  BY <1>6 DEF Cells
  <2>2. c \in [0..(r.cap - 1) -> Cells]
    <3> HIDE DEF gone
    <3> QED  BY <1>6, <2>1
  <2>3. ASSUME n = 0  PROVE c = mem[r.buf]
    <3>1. gone = {}  BY <2>3
    <3> HIDE DEF gone
    <3> QED  BY <1>6, <3>1
  <2> QED  BY <2>2, <2>3
<1> HIDE DEF c, b, gone
<1>11. c \in Storage /\ c # None
  <2>1. r.cap \in 0..MaxSize  BY <1>5
  <2> QED  BY <1>10, <2>1, StorageFact
<1>12. DOMAIN m1 = Buffers /\ m1[r.buf] = c /\ \A x \in Buffers \ {r.buf} : m1[x] = mem[x]
  BY <1>2, <1>5 DEF Heaps
<1> HIDE DEF m1
<1>13. mem' = [[m1 EXCEPT ![b] = new(k)] EXCEPT ![b] = cell] /\ leaked' = leaked \cup {b}
  BY <1>9 DEF Leak
<1>14. cell \in Storage /\ cell # None  BY LeakedCell
<1> HIDE DEF cell, new
<1>15. DOMAIN mem' = Buffers /\ mem'[b] = cell /\ \A x \in Buffers \ {b} : mem'[x] = m1[x]
  <2> DEFINE m2 == [m1 EXCEPT ![b] = new(k)]
  <2>1. DOMAIN m2 = Buffers /\ \A x \in Buffers \ {b} : m2[x] = m1[x]  BY <1>7, <1>12
  <2>2. mem' = [m2 EXCEPT ![b] = cell]  BY <1>13
  <2> HIDE DEF m2
  <2> QED  BY <1>7, <2>1, <2>2
<1>16. mem'[r.buf] = c /\ \A x \in Buffers \ {b, r.buf} : mem'[x] = mem[x]
  BY <1>5, <1>7, <1>12, <1>15
<1>17. mem' \in Heaps
  <2>1. \A x \in Buffers : mem'[x] \in Storage \cup {None}
    BY <1>2, <1>11, <1>14, <1>15, <1>16 DEF Heaps
  <2>2. mem' = [x \in DOMAIN mem' |-> mem'[x]]  BY <1>13
  <2> QED  BY <1>15, <2>1, <2>2 DEF Heaps
<1>18. \A x \in Buffers \ {b} : \/ mem'[x] = mem[x]
                                \/ x = BufOf(o) /\ o \in broken' /\ mem'[x] # None
  <2>1. CASE n = 0  BY <1>10, <1>16, <2>1
  <2>2. CASE n # 0
    <3>1. o \in broken'  BY <1>1, <2>2
    <3> QED  BY <1>2, <1>11, <1>16, <3>1
  <2> QED  BY <2>1, <2>2
<1>19. broken \subseteq broken'  BY <1>1
<1> QED  BY <1>1, <1>7, <1>13, <1>14, <1>15, <1>17, <1>18, <1>19, LeakInv

-----------------------------------------------------------------------------
(* The invariant, and what follows from it.                                *)

LEMMA InitIInv == Init => IInv
<1> SUFFICES ASSUME Init  PROVE IInv
  OBVIOUS
<1>1. TypeOK  BY DEF Init, TypeOK, Heaps
<1>2. \A o \in Objects : BufOf(o) = None  BY DEF Init, BufOf
<1>3. OwnInv
  <2>1. \A b \in Buffers : mem[b] = None /\ b # None  BY StorageFact DEF Init
  <2>2. leaked = {}  BY DEF Init
  <2> QED  BY <1>2, <2>1, <2>2 DEF OwnInv
<1>4. Usable = {}  BY DEF Init, Usable, Alive
<1>5. HoldInv  BY <1>4 DEF HoldInv
<1> QED  BY <1>1, <1>3, <1>5 DEF IInv

\* The lists and the new elements that the clients use.
LEMMA ListFact ==
  ASSUME NEW s \in Lists
  PROVE  s \in Seq(Values) /\ Len(s) <= MaxLen
<1>1. PICK n \in 0..(MaxLen - 1) : s = [i \in 1..n |-> i % K]  BY DEF Lists
<1>2. \A i \in 1..n : i % K \in Values
  <2> SUFFICES ASSUME NEW i \in 1..n  PROVE i % K \in Values
    OBVIOUS
  <2>1. i \in Nat /\ K \in Nat /\ K >= 1  OBVIOUS
  <2>2. i % K \in 0..(K - 1)  BY <2>1, DivMod
  <2> QED  BY <2>2 DEF Values
<1>3. n \in Nat /\ n <= MaxLen  OBVIOUS
<1>4. s \in [1..n -> Values]  BY <1>1, <1>2
<1>5. s \in Seq(Values)  BY <1>3, <1>4
<1>6. Len(s) = n  BY <1>3, <1>4, <1>5
<1> QED  BY <1>3, <1>5, <1>6

LEMMA NewValueFact ==
  ASSUME IInv, NEW o \in Usable, NEW v \in NewValues(model[o])
  PROVE  v \in Values
<1>1. model[o] \in Seq(Values) /\ Len(model[o]) \in Nat  BY OwnedFact
<1>2. K \in Nat /\ K >= 1  OBVIOUS
<1>3. CASE model[o] \in {None, <<>>}
  <2>1. v = 0  BY <1>3 DEF NewValues
  <2> QED  BY <1>2, <2>1 DEF Values
<1>4. CASE model[o] \notin {None, <<>>}
  <2>1. v = (model[o][Len(model[o])] + 1) % K  BY <1>4 DEF NewValues
  <2>2. Len(model[o]) \in 1..Len(model[o])  BY <1>1, <1>4, EmptySeq
  <2>3. model[o][Len(model[o])] \in Values  BY <1>1, <2>2
  <2>4. model[o][Len(model[o])] + 1 \in Nat  BY <2>3 DEF Values
  <2>5. (model[o][Len(model[o])] + 1) % K \in 0..(K - 1)  BY <1>2, <2>4, DivMod
  <2> QED  BY <2>1, <2>5 DEF Values
<1> QED  BY <1>3, <1>4

LEMMA ConstructionInv ==
  ASSUME IInv, NEW o \in Objects, Construction(o)
  PROVE  IInv'
<1>1. CASE \E n \in {0, MaxLen} : ConstructCapacity(o, n)
  <2>1. {0, MaxLen} \subseteq 0..MaxLen  OBVIOUS
  <2> QED  BY <1>1, <2>1, ConstructCapacityInv
<1>2. CASE \E s \in Lists : ConstructList(o, s)
  BY <1>2, ListFact, ConstructListInv
<1>3. CASE \E s \in Lists : AssignList(o, s)
  BY <1>3, ListFact, AssignListInv
<1>4. CASE \E rhs \in Objects : ConstructCopy(o, rhs)
  BY <1>4, ConstructCopyInv
<1>5. CASE \E rhs \in Objects : ConstructMove(o, rhs)
  BY <1>5, ConstructMoveInv
<1>6. CASE \E rhs \in Objects : AssignCopy(o, rhs)
  BY <1>6, AssignCopyInv
<1>7. CASE \E rhs \in Objects : AssignMove(o, rhs)
  BY <1>7, AssignMoveInv
<1>8. CASE \E rhs \in Objects : Swap(o, rhs)
  BY <1>8, SwapInv
<1>9. CASE Destruct(o)
  BY <1>9, DestructInv
<1>10. ASSUME NEW s \in Lists, NEW n \in 0..MaxLen, ListThrows(o, s, n)  PROVE IInv'
  <2>1. s \in Seq(Values) /\ Len(s) <= MaxLen  BY ListFact
  <2> QED  BY <1>10, <2>1, FillThrowsInv DEF ListThrows
<1> QED  BY <1>1, <1>2, <1>3, <1>4, <1>5, <1>6, <1>7, <1>8, <1>9, <1>10 DEF Construction

LEMMA UseInv ==
  ASSUME IInv, NEW o \in Objects, Use(o)
  PROVE  IInv'
<1>1. CASE \E n \in 0..MaxLen : ReserveFor(o, n)
  BY <1>1, ReserveForInv
<1>2. CASE \E n \in 0..MaxLen : RelocateThrows(o, n)
  BY <1>2, RelocateThrowsInv
<1>3. CASE \E n \in 0..MaxLen : CopyThrows(o, n)
  BY <1>3, CopyThrowsInv
<1>4. CASE ShrinkToFit(o)
  BY <1>4, ShrinkToFitInv
<1>5. CASE \E v \in NewValues(model[o]) : Push(o, v)
  <2>1. PICK v \in NewValues(model[o]) : Push(o, v)  BY <1>5
  <2>2. o \in Usable  BY <2>1 DEF Push
  <2>3. v \in Values  BY <2>2, NewValueFact
  <2> QED  BY <2>1, <2>3, PushInv
<1>6. CASE PushThrows(o)
  BY <1>6, PushThrowsInv
<1>7. CASE PushOwnFront(o)
  BY <1>7, PushOwnFrontInv
<1>8. CASE PushOwnFrontGrowing(o)
  BY <1>8, PushOwnFrontGrowingInv
<1>9. CASE Pop(o)
  BY <1>9, PopInv
<1>10. CASE ClearAll(o)
  BY <1>10, ClearAllInv
<1> QED  BY <1>1, <1>2, <1>3, <1>4, <1>5, <1>6, <1>7, <1>8, <1>9, <1>10 DEF Use

\* For any number of queues, buffers and elements, through growth, shrinking,
\* copies, moves, swaps and exceptions: the storage of every queue that is not
\* broken holds its elements, slot by slot, and every buffer has its owner.
THEOREM IInvCorrect == Spec => []IInv
<1>1. ASSUME IInv, [Next]_vars  PROVE IInv'
  <2>1. CASE Next
    <3>1. PICK o \in Objects : Construction(o) \/ Use(o)  BY <2>1 DEF Next
    <3> QED  BY <1>1, <3>1, ConstructionInv, UseInv
  <2>2. CASE UNCHANGED vars
    <3>1. /\ mem' = mem /\ obj' = obj /\ model' = model /\ broken' = broken /\ leaked' = leaked
      BY <2>2 DEF vars
    <3>2. TypeOK'  BY <1>1, <3>1 DEF IInv, TypeOK, Heaps, Storage
    <3>3. Usable' = Usable  BY <3>1 DEF Usable, Alive
    <3>4. HoldInv'  BY <1>1, <3>1, <3>3 DEF IInv, HoldInv
    <3>5. \A x : BufOf(x)' = BufOf(x)  BY <3>1 DEF BufOf
    <3>6. OwnInv'  BY <1>1, <3>1, <3>5, Zenon DEF IInv, OwnInv
    <3> QED  BY <3>2, <3>4, <3>6 DEF IInv
  <2> QED  BY <1>1, <2>1, <2>2
<1> QED  BY <1>1, InitIInv, PTL DEF Spec

\* For every history of calls, a queue that is not broken shows what a
\* std::queue would: size, front, back, the elements in order, and equality of
\* two queues that are laid out differently.
THEOREM ActsAsQueueCorrect == Spec => []ActsAsQueue
<1>1. ASSUME IInv  PROVE ActsAsQueue
  <2> SUFFICES ASSUME NEW o \in Usable
               PROVE  /\ \A x \in Usable : Equal(State(o), State(x)) <=> model[o] = model[x]
                      /\ Size(State(o).r) = Len(model[o])
                      /\ Contents(State(o)) = model[o]
                      /\ model[o] # <<>> => /\ Front(State(o)) = model[o][1]
                                            /\ Back(State(o)) = model[o][Len(model[o])]
    BY DEF ActsAsQueue
  <2>1. \A x \in Usable : Holds(mem, obj[x], model[x])  BY <1>1, OwnedFact
  <2>2. \A x \in Usable : State(x) = [m |-> mem, r |-> obj[x]] /\ State(x).r = obj[x] /\ State(x).m = mem
    BY DEF State
  <2>3. Size(State(o).r) = Len(model[o])  BY <2>1, <2>2, SizeFact
  <2>4. Contents(State(o)) = model[o]  BY <2>1, <2>2, ContentsFact
  <2>5. model[o] # <<>> => /\ Front(State(o)) = model[o][1]
                           /\ Back(State(o)) = model[o][Len(model[o])]
    BY <2>1, <2>2, FrontFact
  <2>6. ASSUME NEW x \in Usable
        PROVE  Equal(State(o), State(x)) <=> model[o] = model[x]
    <3> DEFINE at(y, i) == mem[obj[y].buf][And(obj[y].head + i, obj[y].mask)]
               s == model[o]
               t == model[x]
    <3>1. /\ Size(obj[o]) = Len(s) /\ Size(obj[x]) = Len(t)
          /\ s \in Seq(Values) /\ t \in Seq(Values) /\ Len(s) \in Nat /\ Len(t) \in Nat
      BY <2>1, SizeFact, HoldsFields
    <3>2. ASSUME NEW y \in Usable, NEW i \in 0..(Len(model[y]) - 1)
          PROVE  at(y, i) = model[y][i + 1]
      <4>1. Holds(mem, obj[y], model[y])  BY <2>1
      <4>2. Len(model[y]) \in Nat /\ model[y] # <<>>  BY <4>1, SizeFact
      <4>3. /\ Ring(obj[y]) /\ Len(model[y]) < obj[y].cap /\ obj[y].cap \in Nat
            /\ \A j \in 0..(obj[y].cap - 1) :
                 mem[obj[y].buf][Slot(obj[y], j)] = IF j < Len(model[y]) THEN model[y][j + 1] ELSE Raw
        BY <4>1, <4>2 DEF Holds, Ring
      <4>4. i \in 0..(obj[y].cap - 1) /\ i < Len(model[y])  BY <4>2, <4>3
      <4>5. And(obj[y].head + i, obj[y].mask) = Slot(obj[y], i)  BY <4>3, <4>4, SlotFact
      <4> QED  BY <4>3, <4>4, <4>5
    <3>3. Equal(State(o), State(x)) <=> Len(s) = Len(t) /\ \A i \in 0..(Len(s) - 1) : at(o, i) = at(x, i)
      BY <2>2, <3>1 DEF Equal
    <3> HIDE DEF at
    <3>4. ASSUME s = t  PROVE Equal(State(o), State(x))
      BY <3>2, <3>3, <3>4
    <3>5. ASSUME Equal(State(o), State(x))  PROVE s = t
      <4>1. Len(s) = Len(t) /\ \A i \in 0..(Len(s) - 1) : s[i + 1] = t[i + 1]  BY <3>2, <3>3, <3>5
      <4>2. \A i \in 1..Len(s) : s[i] = t[i]
        <5> SUFFICES ASSUME NEW i \in 1..Len(s)  PROVE s[i] = t[i]
          OBVIOUS
        <5>1. i - 1 \in 0..(Len(s) - 1) /\ (i - 1) + 1 = i  BY <3>1
        <5> QED  BY <4>1, <5>1
      <4> QED  BY <3>1, <4>1, <4>2, SeqEqual
    <3> QED  BY <3>4, <3>5
  <2> QED  BY <2>3, <2>4, <2>5, <2>6
<1> QED  BY <1>1, IInvCorrect, PTL

\* For every history of calls, the elements alive in a queue's buffer are the
\* ones from head_ to tail_, so that each is destroyed exactly once.
THEOREM LifetimesExactCorrect == Spec => []LifetimesExact
<1>1. ASSUME IInv  PROVE LifetimesExact
  <2> SUFFICES ASSUME NEW o \in Usable, obj[o].buf # None, mem[obj[o].buf] # None,
                      NEW j \in DOMAIN mem[obj[o].buf]
               PROVE  mem[obj[o].buf][j] # Raw <=> j \in Live(obj[o])
    BY DEF LifetimesExact
  <2> DEFINE r == obj[o]
             s == model[o]
  <2>1. Holds(mem, r, s) /\ Len(s) \in Nat /\ s \in Seq(Values)  BY <1>1, OwnedFact
  <2>2. r # NoBuffer  BY DEF NoBuffer
  <2>3. /\ Ring(r) /\ Len(s) < r.cap /\ r.cap \in Nat /\ mem[r.buf] \in [0..(r.cap - 1) -> Cells]
        /\ \A i \in 0..(r.cap - 1) : mem[r.buf][Slot(r, i)] = IF i < Len(s) THEN s[i + 1] ELSE Raw
    BY <2>1, <2>2 DEF Holds, Ring
  <2>4. Live(r) = {Slot(r, i) : i \in 0..(Len(s) - 1)}  BY <2>1, <2>2, LiveFact
  <2>5. j \in 0..(r.cap - 1)  BY <2>3
  <2>6. PICK i \in 0..(r.cap - 1) : Slot(r, i) = j  BY <2>3, <2>5, SlotExists
  <2>7. CASE i < Len(s)
    <3>1. i + 1 \in 1..Len(s)  BY <2>1, <2>7
    <3>2. s[i + 1] \in Values  BY <2>1, <3>1
    <3>3. mem[r.buf][j] # Raw  BY <2>3, <2>6, <2>7, <3>2
    <3>4. j \in Live(r)  BY <2>1, <2>4, <2>6, <2>7
    <3> QED  BY <3>3, <3>4
  <2>8. CASE ~(i < Len(s))
    <3>1. mem[r.buf][j] = Raw  BY <2>3, <2>6, <2>8
    <3>2. j \notin Live(r)
      <4> SUFFICES ASSUME j \in Live(r)  PROVE FALSE
        OBVIOUS
      <4>1. PICK k \in 0..(Len(s) - 1) : j = Slot(r, k)  BY <2>4
      <4>2. k \in 0..(r.cap - 1) /\ k < Len(s)  BY <2>1, <2>3, <4>1
      <4>3. i = k  BY <2>3, <2>6, <4>1, <4>2, SlotUnique
      <4> QED  BY <2>8, <4>2, <4>3
    <3> QED  BY <3>1, <3>2
  <2> QED  BY <2>7, <2>8
<1> QED  BY <1>1, IInvCorrect, PTL

\* For every history of calls, a throw in the middle of a copy or of a
\* relocation included: no two queues share a buffer, none holds a freed one,
\* and only what a throw left behind has no owner.
THEOREM BuffersOwnedCorrect == Spec => []BuffersOwned
<1>1. ASSUME IInv  PROVE BuffersOwned
  <2>1. \A x \in Alive : x \in Objects /\ BufOf(x) = obj[x].buf  BY DEF Alive, BufOf
  <2>2. \A x, y \in Alive : obj[x].buf = obj[y].buf => x = y \/ obj[x].buf = None
    <3>1. \A x, y \in Objects : BufOf(x) = BufOf(y) => x = y \/ BufOf(x) = None
      BY <1>1 DEF IInv, OwnInv
    <3> QED  BY <2>1, <3>1
  <2>3. {i \in Buffers : mem[i] # None} = leaked \cup ({obj[x].buf : x \in Alive} \ {None})
    <3>1. leaked \subseteq Buffers /\ None \notin Buffers  BY <1>1, StorageFact DEF IInv, TypeOK
    <3>2. \A b \in Buffers : mem[b] # None <=> b \in leaked \/ \E x \in Objects : BufOf(x) = b
      BY <1>1 DEF IInv, OwnInv
    <3>3. \A x \in Objects : BufOf(x) \in Buffers \cup {None}  BY <1>1, OwnedFact
    <3>4. \A x \in Objects : BufOf(x) # None => x \in Alive  BY DEF BufOf, Alive
    <3>5. ASSUME NEW b \in Buffers, mem[b] # None
          PROVE  b \in leaked \cup ({obj[x].buf : x \in Alive} \ {None})
      <4>1. CASE b \in leaked  BY <4>1
      <4>2. CASE \E x \in Objects : BufOf(x) = b
        <5>1. PICK x \in Objects : BufOf(x) = b  BY <4>2
        <5>2. x \in Alive /\ obj[x].buf = b /\ b # None  BY <2>1, <3>1, <3>4, <5>1
        <5> QED  BY <5>2
      <4> QED  BY <3>2, <3>5, <4>1, <4>2
    <3>6. ASSUME NEW b \in leaked \cup ({obj[x].buf : x \in Alive} \ {None})
          PROVE  b \in Buffers /\ mem[b] # None
      <4>1. CASE b \in leaked  BY <3>1, <3>2, <4>1
      <4>2. CASE b \notin leaked
        <5>1. PICK x \in Alive : obj[x].buf = b /\ b # None  BY <3>6, <4>2
        <5>2. x \in Objects /\ BufOf(x) = b  BY <2>1, <5>1
        <5> QED  BY <3>2, <3>3, <5>1, <5>2
      <4> QED  BY <4>1, <4>2
    <3> QED  BY <3>5, <3>6
  <2> QED  BY <2>2, <2>3 DEF BuffersOwned
<1> QED  BY <1>1, IInvCorrect, PTL
=============================================================================
