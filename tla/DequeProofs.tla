----------------------------- MODULE DequeProofs -----------------------------
(***************************************************************************)
(* Proofs about Deque, for every chunk size and map, and any number of     *)
(* deques, chunks and elements.  The inductive invariant says of every     *)
(* deque which chunks it has, what each slot of them holds, and that no    *)
(* other deque has them.                                                   *)
(***************************************************************************)
EXTENDS Deque, Arithmetic, FiniteSetTheorems

-----------------------------------------------------------------------------
(* Places: the p-th slot after the beginning of a chunk is in the chunk    *)
(* Node(p) further on, at offset Off(p).                                   *)

Row(k) == ChunkElems * k
Node(p) == p \div ChunkElems
Off(p) == p % ChunkElems

LEMMA ChunkFact == ChunkElems \in Nat /\ ChunkElems >= 1
  BY SizeAssumption

\* The first places of two chunks are a chunk apart at least.
LEMMA RowFact ==
  /\ Row(0) = 0
  /\ \A k \in Nat : Row(k) \in Nat /\ Row(k + 1) = Row(k) + ChunkElems
  /\ \A k, l \in Nat : k < l => Row(k) + ChunkElems <= Row(l)
<1>1. ASSUME NEW k \in Nat  PROVE Row(k) \in Nat /\ Row(k + 1) = Row(k) + ChunkElems
  BY ChunkFact DEF Row
<1>2. ASSUME NEW k \in Nat, NEW l \in Nat, k < l  PROVE Row(k) + ChunkElems <= Row(l)
  BY <1>2, ChunkFact, LapStep DEF Row
<1>3. Row(0) = 0
  BY ChunkFact DEF Row
<1> QED  BY <1>1, <1>2, <1>3

\* A place has one node and one offset.
LEMMA PlaceFact ==
  ASSUME NEW p \in Nat
  PROVE  Node(p) \in Nat /\ Off(p) \in Offsets /\ Off(p) \in Nat /\ p = Row(Node(p)) + Off(p)
<1>1. PICK c \in Nat : c = ChunkElems /\ c >= 1
  BY ChunkFact
<1>2. p % c \in 0..(c - 1) /\ p \div c \in Nat /\ p = c * (p \div c) + (p % c)
  BY <1>1, DivMod
<1>3. PICK q \in Nat, r \in 0..(c - 1) : q = Node(p) /\ r = Off(p) /\ p = c * q + r
  BY <1>1, <1>2 DEF Node, Off
<1>4. Row(Node(p)) = c * q
  BY <1>1, <1>3 DEF Row
<1> QED  BY <1>1, <1>3, <1>4 DEF Offsets

LEMMA PlaceUnique ==
  ASSUME NEW k \in Nat, NEW l \in Nat, NEW i \in Offsets, NEW j \in Offsets, Row(k) + i = Row(l) + j
  PROVE  k = l /\ i = j
<1>1. i \in Nat /\ j \in Nat /\ i < ChunkElems /\ j < ChunkElems /\ ChunkElems \in Nat
  BY ChunkFact DEF Offsets
<1>2. Row(k) \in Nat /\ Row(l) \in Nat
  BY RowFact
<1>3. ~(k < l)
  <2> SUFFICES ASSUME k < l  PROVE FALSE
    OBVIOUS
  <2>1. Row(k) + ChunkElems <= Row(l)
    BY RowFact
  <2> QED  BY <1>1, <1>2, <2>1
<1>4. ~(l < k)
  <2> SUFFICES ASSUME l < k  PROVE FALSE
    OBVIOUS
  <2>1. Row(l) + ChunkElems <= Row(k)
    BY RowFact
  <2> QED  BY <1>1, <1>2, <2>1
<1>5. k = l
  BY <1>3, <1>4
<1> QED  BY <1>1, <1>2, <1>5

LEMMA NodeUnique ==
  ASSUME NEW k \in Nat, NEW j \in Offsets
  PROVE  Row(k) + j \in Nat /\ Node(Row(k) + j) = k /\ Off(Row(k) + j) = j
<1>1. PICK p \in Nat : p = Row(k) + j
  BY ChunkFact, RowFact DEF Offsets
<1>2. Node(p) \in Nat /\ Off(p) \in Offsets /\ p = Row(Node(p)) + Off(p)
  BY PlaceFact
<1>3. Node(p) = k /\ Off(p) = j
  BY <1>1, <1>2, PlaceUnique
<1> QED  BY <1>1, <1>3

LEMMA NodeOrder ==
  ASSUME NEW p \in Nat, NEW q \in Nat, p <= q
  PROVE  Node(p) <= Node(q)
<1>1. /\ Node(p) \in Nat /\ Off(p) \in Nat /\ Off(p) < ChunkElems /\ p = Row(Node(p)) + Off(p)
      /\ Node(q) \in Nat /\ Off(q) \in Nat /\ Off(q) < ChunkElems /\ q = Row(Node(q)) + Off(q)
  BY PlaceFact, ChunkFact DEF Offsets
<1>2. Row(Node(p)) \in Nat /\ Row(Node(q)) \in Nat /\ ChunkElems \in Nat
  BY <1>1, RowFact, ChunkFact
<1> SUFFICES ASSUME Node(q) < Node(p)  PROVE FALSE
  BY <1>1
<1>3. Row(Node(q)) + ChunkElems <= Row(Node(p))
  BY <1>1, RowFact
<1> QED  BY <1>1, <1>2, <1>3

\* The iterator at a place.
At(p) == It(Node(p), Off(p))

LEMMA AtFact ==
  ASSUME NEW p \in Nat
  PROVE  At(p).node = Node(p) /\ At(p).off = Off(p) /\ At(p) \in Iterators
<1>1. Node(p) \in Nat /\ Off(p) \in Offsets
  BY PlaceFact
<1> QED  BY <1>1 DEF At, It, Iterators

\* The iterator with node k and offset j.
LEMMA AtPlace ==
  ASSUME NEW p \in Nat, NEW k \in Nat, NEW j \in Offsets, p = Row(k) + j
  PROVE  It(k, j) = At(p)
  BY NodeUnique DEF At

LEMMA AtNext ==
  ASSUME NEW p \in Nat
  PROVE  Incremented(At(p)) = At(p + 1) /\ Decremented(At(p + 1)) = At(p)
<1>1. PICK k \in Nat, j \in Offsets : k = Node(p) /\ j = Off(p) /\ p = Row(k) + j
  BY PlaceFact
<1>2. j \in Nat /\ j < ChunkElems /\ ChunkElems \in Nat /\ 0 \in Offsets
  BY ChunkFact DEF Offsets
<1>3. PICK q \in Nat : q = p + 1
  OBVIOUS
<1>4. At(p) = It(k, j)
  BY <1>1 DEF At
<1>5. Row(k) \in Nat
  BY RowFact
<1>6. CASE j + 1 = ChunkElems
  <2>1. PICK l \in Nat : l = k + 1 /\ Row(l) = Row(k) + ChunkElems
    BY RowFact
  <2>2. q = Row(l) + 0
    BY <1>1, <1>2, <1>3, <1>5, <1>6, <2>1
  <2>3. It(l, 0) = At(q)
    BY <1>2, <2>2, AtPlace
  <2>4. Incremented(It(k, j)) = It(l, 0)
    BY <1>6, <2>1 DEF Incremented, It
  <2>5. l - 1 = k /\ ChunkElems - 1 = j
    BY <1>2, <1>6, <2>1
  <2>6. Decremented(It(l, 0)) = It(k, j)
    BY <2>5 DEF Decremented, It
  <2> QED  BY <1>3, <1>4, <2>3, <2>4, <2>6
<1>7. CASE j + 1 # ChunkElems
  <2>1. PICK i \in Nat : i = j + 1
    BY <1>2
  <2>2. i \in Offsets /\ i # 0
    BY <1>2, <1>7, <2>1 DEF Offsets
  <2>3. q = Row(k) + i
    <3>1. PICK x \in Nat : x = Row(k)
      BY <1>5
    <3>2. p = x + j
      BY <1>1, <3>1
    <3>3. q = x + i
      BY <1>2, <1>3, <2>1, <3>2
    <3> QED  BY <3>1, <3>3
  <2>4. It(k, i) = At(q)
    BY <2>2, <2>3, AtPlace
  <2>5. Incremented(It(k, j)) = It(k, i)
    BY <1>7, <2>1 DEF Incremented, It
  <2>6. i - 1 = j
    BY <1>2, <2>1
  <2>7. Decremented(It(k, i)) = It(k, j)
    BY <2>2, <2>6 DEF Decremented, It
  <2> QED  BY <1>3, <1>4, <2>4, <2>5, <2>7
<1> QED  BY <1>6, <1>7

\* A jump by n.
LEMMA AtPlus ==
  ASSUME NEW p \in Nat, NEW n \in Int, p + n >= 0
  PROVE  Plus(At(p), n) = At(p + n)
<1>1. PICK k \in Nat, j \in Offsets : k = Node(p) /\ j = Off(p) /\ p = Row(k) + j
  BY PlaceFact
<1>2. PICK c \in Nat : c = ChunkElems /\ c >= 1
  BY ChunkFact
<1>3. j \in Nat /\ j < c /\ Offsets = 0..(c - 1)
  BY <1>2 DEF Offsets
<1>4. PICK q \in Nat : q = p + n
  OBVIOUS
<1>5. PICK o \in Int : o = n + j
  BY <1>3
<1>6. At(p) = It(k, j) /\ Row(k) = c * k
  BY <1>1, <1>2 DEF At, Row
<1>7. q = c * k + o
  <2>1. PICK x \in Nat : x = c * k
    OBVIOUS
  <2>2. p = x + j
    BY <1>1, <1>6, <2>1
  <2>3. q = x + o
    BY <1>3, <1>4, <1>5, <2>2
  <2> QED  BY <2>1, <2>3
<1>8. CASE o \in Offsets
  <2>1. Plus(It(k, j), n) = It(k, o)
    BY <1>5, <1>8 DEF Plus, It
  <2>2. It(k, o) = At(q)
    BY <1>6, <1>7, <1>8, AtPlace
  <2> QED  BY <1>4, <1>6, <2>1, <2>2
<1>9. CASE o \notin Offsets /\ o > 0
  <2>1. PICK t \in Nat, r \in 0..(c - 1) : t = o \div c /\ o = c * t + r
    <3>1. PICK y \in Nat : y = o
      BY <1>9
    <3>2. y % c \in 0..(c - 1) /\ y \div c \in Nat /\ y = c * (y \div c) + (y % c)
      BY <1>2, DivMod
    <3> QED  BY <3>1, <3>2
  <2>2. PICK l \in Nat : l = k + t
    OBVIOUS
  <2>3. o - t * c = r /\ c * l = c * k + c * t
    BY <2>1, <2>2
  <2>4. Plus(It(k, j), n) = It(l, r)
    BY <1>2, <1>5, <1>9, <2>1, <2>2, <2>3 DEF Plus, It
  <2>5. q = Row(l) + r /\ r \in Offsets
    BY <1>2, <1>3, <1>7, <2>1, <2>3 DEF Row
  <2>6. It(l, r) = At(q)
    BY <2>5, AtPlace
  <2> QED  BY <1>4, <1>6, <2>4, <2>6
<1>10. CASE o \notin Offsets /\ ~(o > 0)
  <2>1. PICK x \in Nat : x = -o - 1
    <3>1. o # 0
      BY <1>2, <1>3, <1>10
    <3> QED  BY <1>10, <3>1
  <2>2. PICK t \in Nat, r \in 0..(c - 1) : t = x \div c /\ x = c * t + r
    BY <1>2, DivMod
  <2>3. PICK u \in Int : u = -t - 1
    OBVIOUS
  <2>4. PICK l \in Int : l = k + u
    OBVIOUS
  <2>5. PICK i \in Offsets : i = c - 1 - r
    BY <1>2, <1>3
  <2>6. u * c = -(c * t) - c /\ c * l = c * k - c * t - c
    BY <2>3, <2>4
  <2>7. c * t \in Int /\ c * k \in Int /\ c * l \in Int
    BY <2>2, <2>4
  <2>8. o - u * c = i
    BY <2>1, <2>2, <2>5, <2>6, <2>7
  <2>9. q = c * l + i
    BY <1>7, <2>1, <2>2, <2>5, <2>6, <2>7
  <2>10. l \in Nat
    <3>1. SUFFICES ASSUME l <= -1  PROVE FALSE
      BY <2>4
    <3>2. PICK w \in Nat : l = -1 - w
      <4>1. -1 - l \in Nat /\ l = -1 - (-1 - l)
        BY <3>1
      <4> QED  BY <4>1
    <3>3. c * l = -c - c * w /\ c * w \in Nat
      BY <3>2
    <3> QED  BY <1>3, <2>5, <2>7, <2>9, <3>3
  <2>11. Plus(It(k, j), n) = It(l, i)
    <3>1. -o - 1 = x /\ ~(n + j > 0) /\ n + j = o
      BY <1>5, <1>10, <2>1
    <3>2. -((-(n + j) - 1) \div ChunkElems) - 1 = u
      BY <1>2, <2>2, <2>3, <3>1
    <3> QED  BY <1>2, <1>10, <2>4, <2>8, <3>1, <3>2 DEF Plus, It
  <2>12. It(l, i) = At(q)
    BY <1>2, <2>9, <2>10, AtPlace DEF Row
  <2> QED  BY <1>4, <1>6, <2>11, <2>12
<1> QED  BY <1>8, <1>9, <1>10

LEMMA AtMinus ==
  ASSUME NEW p \in Nat, NEW q \in Nat
  PROVE  Minus(At(p), At(q)) = p - q
<1>1. PICK k \in Nat, j \in Nat : At(p) = It(k, j) /\ p = ChunkElems * k + j
  BY PlaceFact DEF At, Row
<1>2. PICK l \in Nat, i \in Nat : At(q) = It(l, i) /\ q = ChunkElems * l + i
  BY PlaceFact DEF At, Row
<1>3. PICK c \in Nat : c = ChunkElems
  BY ChunkFact
<1>4. c * (k - l - 1) = c * k - c * l - c /\ c * k \in Nat /\ c * l \in Nat
  BY <1>3
<1>5. Minus(It(k, j), It(l, i)) = c * (k - l - 1) + j + (c - i)
  BY <1>3 DEF Minus, It
<1> QED  BY <1>1, <1>2, <1>3, <1>4, <1>5

LEMMA AtLess ==
  ASSUME NEW p \in Nat, NEW q \in Nat
  PROVE  (Less(At(p), At(q)) <=> p < q) /\ (At(p) = At(q) <=> p = q)
<1>1. PICK k \in Nat, j \in Offsets : At(p) = It(k, j) /\ p = Row(k) + j
  BY PlaceFact DEF At
<1>2. PICK l \in Nat, i \in Offsets : At(q) = It(l, i) /\ q = Row(l) + i
  BY PlaceFact DEF At
<1>3. j \in Nat /\ j < ChunkElems /\ i \in Nat /\ i < ChunkElems /\ ChunkElems \in Nat
  BY ChunkFact DEF Offsets
<1>4. /\ Row(k) \in Nat /\ Row(l) \in Nat
      /\ k < l => Row(k) + ChunkElems <= Row(l)
      /\ l < k => Row(l) + ChunkElems <= Row(k)
  BY RowFact
<1>5. Less(It(k, j), It(l, i)) <=> IF k = l THEN j < i ELSE k < l
  BY DEF Less, It
<1>6. It(k, j) = It(l, i) <=> k = l /\ j = i
  BY DEF It
<1>7. CASE k = l
  BY <1>1, <1>2, <1>3, <1>4, <1>5, <1>6, <1>7
<1>8. CASE k < l
  <2>1. p < q
    BY <1>1, <1>2, <1>3, <1>4, <1>8
  <2> QED  BY <1>1, <1>2, <1>5, <1>6, <1>8, <2>1
<1>9. CASE l < k
  <2>1. q < p
    BY <1>1, <1>2, <1>3, <1>4, <1>9
  <2> QED  BY <1>1, <1>2, <1>5, <1>6, <1>9, <2>1
<1> QED  BY <1>7, <1>8, <1>9

-----------------------------------------------------------------------------
(* What is stored: a map whose chunks are at the nodes lo..hi, and in them *)
(* the elements of s, the first of them at place A.                        *)

Mems == [Chunks -> [Offsets -> Cells] \cup {None}]

Cell(s, A, p) == IF p \in A..(A + Len(s) - 1) THEN s[p - A + 1] ELSE Raw
RowOf(s, A, i) == [j \in Offsets |-> Cell(s, A, Row(i) + j)]

Table(map, ms, lo, hi) ==
  /\ ms \in Nat /\ lo \in Nat /\ hi \in Nat /\ lo <= hi /\ hi < ms
  /\ map \in Maps(ms)
  /\ \A i \in 0..(ms - 1) : map[i] # None <=> i \in lo..hi
  /\ \A i, k \in lo..hi : map[i] = map[k] => i = k

Shows(m, map, lo, hi, A, s) == \A i \in lo..hi : m[map[i]] = RowOf(s, A, i)

In(map, lo, hi) == {map[i] : i \in lo..hi}

\* A step on the heap by the owner of the chunks S, who has the chunks S2
\* afterwards.
Change(m, S, m2, S2) ==
  /\ m \in Mems /\ m2 \in Mems
  /\ S \in SUBSET Chunks /\ S2 \in SUBSET Chunks
  /\ \A c \in Chunks \ (S \cup S2) : m2[c] = m[c]
  /\ \A c \in S : m[c] # None
  /\ \A c \in S2 : m2[c] # None
  /\ \A c \in S \ S2 : m2[c] = None
  /\ \A c \in S2 \ S : m[c] = None

LEMMA ChangeTwice ==
  ASSUME NEW m, NEW S, NEW m2, NEW S2, NEW m3, NEW S3,
         Change(m, S, m2, S2), Change(m2, S2, m3, S3)
  PROVE  Change(m, S, m3, S3)
<1>1. ASSUME NEW c \in Chunks \ (S \cup S3)  PROVE m3[c] = m[c]
  <2>1. CASE c \in S2
    BY <2>1 DEF Change
  <2>2. CASE c \notin S2
    BY <2>2 DEF Change
  <2> QED  BY <2>1, <2>2
<1>2. ASSUME NEW c \in S \ S3  PROVE m3[c] = None
  <2>1. CASE c \in S2
    BY <2>1 DEF Change
  <2>2. CASE c \notin S2
    BY <2>2 DEF Change
  <2> QED  BY <2>1, <2>2
<1>3. ASSUME NEW c \in S3 \ S  PROVE m[c] = None
  <2>1. CASE c \in S2
    BY <2>1 DEF Change
  <2>2. CASE c \notin S2
    BY <2>2 DEF Change
  <2> QED  BY <2>1, <2>2
<1> QED  BY <1>1, <1>2, <1>3 DEF Change

LEMMA TableFact ==
  ASSUME NEW map, NEW ms, NEW lo, NEW hi, Table(map, ms, lo, hi)
  PROVE  /\ \A i \in lo..hi : i \in 0..(ms - 1) /\ map[i] \in Chunks
         /\ In(map, lo, hi) \in SUBSET Chunks
         /\ lo \in lo..hi /\ hi \in lo..hi
<1>1. ASSUME NEW i \in lo..hi  PROVE i \in 0..(ms - 1) /\ map[i] \in Chunks
  <2>1. i \in 0..(ms - 1)
    BY DEF Table
  <2>2. map[i] # None /\ map[i] \in Chunks \cup {None}
    BY <2>1 DEF Table, Maps
  <2> QED  BY <2>1, <2>2
<1>2. lo \in lo..hi /\ hi \in lo..hi
  BY DEF Table
<1> QED  BY <1>1, <1>2 DEF In

LEMMA CellFact ==
  ASSUME NEW s \in Seq(Values), NEW A \in Nat
  PROVE  /\ \A p \in Nat : Cell(s, A, p) \in Cells
         /\ \A p \in Nat : Cell(s, A, p) # Raw <=> A <= p /\ p < A + Len(s)
         /\ \A i \in Nat : RowOf(s, A, i) \in [Offsets -> Cells] /\ RowOf(s, A, i) # None
<1>1. ASSUME NEW p \in Nat
      PROVE  Cell(s, A, p) \in Cells /\ (Cell(s, A, p) # Raw <=> A <= p /\ p < A + Len(s))
  <2>1. CASE p \in A..(A + Len(s) - 1)
    <3>1. p - A + 1 \in 1..Len(s)
      BY <2>1
    <3>2. s[p - A + 1] \in Values
      BY <3>1
    <3>3. A <= p /\ p < A + Len(s)
      BY <2>1
    <3> QED  BY <2>1, <3>2, <3>3, RawAssumption DEF Cell, Cells
  <2>2. CASE p \notin A..(A + Len(s) - 1)
    <3>1. ~(A <= p /\ p < A + Len(s))
      BY <2>2
    <3> QED  BY <2>2, <3>1 DEF Cell, Cells
  <2> QED  BY <2>1, <2>2
<1>2. ASSUME NEW i \in Nat  PROVE RowOf(s, A, i) \in [Offsets -> Cells] /\ RowOf(s, A, i) # None
  <2>1. \A j \in Offsets : Row(i) + j \in Nat
    BY NodeUnique
  <2>2. RowOf(s, A, i) \in [Offsets -> Cells]
    BY <1>1, <2>1 DEF RowOf
  <2> QED  BY <2>2, NoneAssumption
<1> QED  BY <1>1, <1>2

\* The chunks of a map are in use.
LEMMA ShowsFact ==
  ASSUME NEW m \in Mems, NEW map, NEW ms, NEW lo, NEW hi, NEW A \in Nat, NEW s \in Seq(Values),
         Table(map, ms, lo, hi), Shows(m, map, lo, hi, A, s)
  PROVE  /\ \A c \in In(map, lo, hi) : m[c] \in [Offsets -> Cells] /\ m[c] # None
         /\ Change(m, In(map, lo, hi), m, In(map, lo, hi))
<1>1. ASSUME NEW c \in In(map, lo, hi)  PROVE m[c] \in [Offsets -> Cells] /\ m[c] # None
  <2>1. PICK i \in lo..hi : c = map[i]
    BY DEF In
  <2>2. i \in Nat
    BY DEF Table
  <2>3. m[c] = RowOf(s, A, i)
    BY <2>1 DEF Shows
  <2> QED  BY <2>2, <2>3, CellFact
<1>2. In(map, lo, hi) \in SUBSET Chunks
  BY TableFact
<1> QED  BY <1>1, <1>2 DEF Change

\* One element is constructed or destroyed at place p.
Wrote(m, c, j, v) == [m EXCEPT ![c] = [m[c] EXCEPT ![j] = v]]

LEMMA PutFact ==
  ASSUME NEW m, NEW d, NEW p \in Nat, NEW v
  PROVE  Put(St(m, d), At(p), v) = Wrote(m, d.map[Node(p)], Off(p), v)
<1>1. At(p).node = Node(p) /\ At(p).off = Off(p)
  BY AtFact
<1> QED  BY <1>1 DEF Put, St, Wrote

LEMMA WroteFact ==
  ASSUME NEW m \in Mems, NEW c \in Chunks, m[c] \in [Offsets -> Cells], NEW j \in Offsets, NEW v \in Cells
  PROVE  Wrote(m, c, j, v) \in Mems /\ Wrote(m, c, j, v)[c] \in [Offsets -> Cells]
<1>1. [m[c] EXCEPT ![j] = v] \in [Offsets -> Cells]
  OBVIOUS
<1> QED  BY <1>1 DEF Mems, Wrote

\* s2 from place A2 is s from place A but for v at place p.
Written(s, A, p, v, s2, A2) == \A q \in Nat : Cell(s2, A2, q) = IF q = p THEN v ELSE Cell(s, A, q)

LEMMA PutShows ==
  ASSUME NEW m \in Mems, NEW d, NEW map, map = d.map, NEW ms, NEW lo, NEW hi, NEW A \in Nat, NEW s \in Seq(Values),
         Table(map, ms, lo, hi), Shows(m, map, lo, hi, A, s),
         NEW p \in Nat, Node(p) \in lo..hi, NEW v \in Cells,
         NEW A2 \in Nat, NEW s2 \in Seq(Values),
         Written(s, A, p, v, s2, A2),
         NEW m2, m2 = Put(St(m, d), At(p), v)
  PROVE  /\ Shows(m2, map, lo, hi, A2, s2)
         /\ Change(m, In(map, lo, hi), m2, In(map, lo, hi))
         /\ m2 \in Mems
<1> DEFINE k == Node(p)
<1>1. k \in lo..hi /\ map[k] \in Chunks /\ map[k] \in In(map, lo, hi)
  BY TableFact DEF In
<1>2. PICK c \in Chunks : c = map[k]
  BY <1>1
<1>3. m[c] = RowOf(s, A, k) /\ m[c] \in [Offsets -> Cells] /\ m[c] # None
  <2>1. \A e \in In(map, lo, hi) : m[e] \in [Offsets -> Cells] /\ m[e] # None
    BY ShowsFact
  <2>2. m[map[k]] = RowOf(s, A, k)
    BY <1>1 DEF Shows
  <2> QED  BY <1>1, <1>2, <2>1, <2>2
<1>4. /\ m2 = Wrote(m, c, Off(p), v)
      /\ m2 \in Mems /\ m2[c] \in [Offsets -> Cells] /\ m2[c] # None
  <2>1. m2 = Wrote(m, c, Off(p), v)
    <3>1. Put(St(m, d), At(p), v) = Wrote(m, d.map[Node(p)], Off(p), v)
      BY PutFact
    <3>2. d.map[Node(p)] = c
      BY <1>2
    <3> QED  BY <3>1, <3>2
  <2>2. Off(p) \in Offsets
    BY PlaceFact
  <2>3. m2 \in Mems /\ m2[c] \in [Offsets -> Cells]
    BY <1>3, <2>1, <2>2, WroteFact
  <2> QED  BY <2>1, <2>3, NoneAssumption
<1>5. p = Row(k) + Off(p) /\ Off(p) \in Offsets /\ k \in Nat
  BY PlaceFact
<1> HIDE DEF k
<1>6. \A e \in Chunks : e # c => m2[e] = m[e]
  BY <1>4 DEF Mems, Wrote
<1>7. m2[c] = [m[c] EXCEPT ![Off(p)] = v]
  BY <1>4 DEF Mems, Wrote
<1>8. ASSUME NEW i \in lo..hi  PROVE m2[map[i]] = RowOf(s2, A2, i)
  <2>1. i \in Nat /\ map[i] \in Chunks /\ m[map[i]] = RowOf(s, A, i)
    <3>1. map[i] \in Chunks
      BY TableFact
    <3> QED  BY <3>1 DEF Table, Shows
  <2>2. ASSUME NEW j \in Offsets
        PROVE  RowOf(s2, A2, i)[j] = IF i = k /\ j = Off(p) THEN v ELSE RowOf(s, A, i)[j]
    <3>1. PICK q \in Nat : q = Row(i) + j
      BY <2>1, NodeUnique
    <3>2. q = p <=> i = k /\ j = Off(p)
      BY <1>5, <2>1, <3>1, PlaceUnique
    <3>3. RowOf(s2, A2, i)[j] = Cell(s2, A2, q) /\ RowOf(s, A, i)[j] = Cell(s, A, q)
      BY <3>1 DEF RowOf
    <3> QED  BY <3>2, <3>3 DEF Written
  <2>3. RowOf(s2, A2, i) \in [Offsets -> Cells] /\ RowOf(s, A, i) \in [Offsets -> Cells]
    BY <2>1, CellFact
  <2>4. CASE i = k
    <3>1. m2[map[i]] = [RowOf(s, A, i) EXCEPT ![Off(p)] = v]
      BY <1>2, <1>3, <1>7, <2>4
    <3> QED  BY <2>2, <2>3, <2>4, <3>1
  <2>5. CASE i # k
    <3>1. map[i] # c
      BY <1>1, <1>2, <2>5 DEF Table
    <3>2. m2[map[i]] = RowOf(s, A, i)
      BY <1>6, <2>1, <3>1
    <3> QED  BY <2>2, <2>3, <2>5, <3>2
  <2> QED  BY <2>4, <2>5
<1>9. Change(m, In(map, lo, hi), m2, In(map, lo, hi))
  <2>1. In(map, lo, hi) \in SUBSET Chunks /\ \A e \in In(map, lo, hi) : m[e] # None
    BY TableFact, ShowsFact
  <2>2. \A e \in In(map, lo, hi) : m2[e] # None
    BY <1>4, <1>6, <2>1
  <2> QED  BY <1>1, <1>2, <1>4, <1>6, <2>1, <2>2 DEF Change
<1> QED  BY <1>4, <1>8, <1>9 DEF Shows

\* A chunk before or after all elements is empty.
LEMMA EmptyRow ==
  ASSUME NEW s \in Seq(Values), NEW A \in Nat, NEW i \in Nat,
         Len(s) = 0 \/ A + Len(s) <= Row(i) \/ Row(i) + ChunkElems <= A
  PROVE  RowOf(s, A, i) = EmptyChunk
<1>1. ASSUME NEW j \in Offsets  PROVE Cell(s, A, Row(i) + j) = Raw
  <2>1. PICK p \in Nat : p = Row(i) + j
    BY NodeUnique
  <2>2. j \in Nat /\ j < ChunkElems /\ ChunkElems \in Nat
    BY ChunkFact DEF Offsets
  <2>3. PICK r \in Nat : r = Row(i)
    BY RowFact
  <2>4. PICK n \in Nat : n = Len(s)
    OBVIOUS
  <2>5. ~(A <= p /\ p < A + n)
    BY <2>1, <2>2, <2>3, <2>4
  <2> QED  BY <2>1, <2>4, <2>5, CellFact
<1> QED  BY <1>1 DEF RowOf, EmptyChunk

LEMMA EmptyFact == EmptyChunk \in [Offsets -> Cells] /\ EmptyChunk # None
<1>1. EmptyChunk \in [Offsets -> Cells]
  BY DEF EmptyChunk, Cells
<1> QED  BY <1>1, NoneAssumption

\* The map and the heap with one chunk more, next to the others.
Larger(lo, hi, i, lo2, hi2) == (i = hi + 1 /\ lo2 = lo /\ hi2 = i) \/ (i + 1 = lo /\ lo2 = i /\ hi2 = hi)
Linked(map, i, c) == [map EXCEPT ![i] = c]
Taken(m, c) == [m EXCEPT ![c] = EmptyChunk]

LEMMA AddRow ==
  ASSUME NEW m \in Mems, NEW map, NEW ms, NEW lo, NEW hi, NEW A \in Nat, NEW s \in Seq(Values),
         Table(map, ms, lo, hi), Shows(m, map, lo, hi, A, s),
         NEW i \in 0..(ms - 1), NEW lo2 \in Nat, NEW hi2 \in Nat, Larger(lo, hi, i, lo2, hi2),
         NEW c \in Chunks, m[c] = None, RowOf(s, A, i) = EmptyChunk
  PROVE  /\ Table(Linked(map, i, c), ms, lo2, hi2)
         /\ Shows(Taken(m, c), Linked(map, i, c), lo2, hi2, A, s)
         /\ Change(m, In(map, lo, hi), Taken(m, c), In(Linked(map, i, c), lo2, hi2))
         /\ \A k \in lo..hi : Linked(map, i, c)[k] = map[k]
         /\ Taken(m, c) \in Mems
<1>1. PICK map2 : map2 = Linked(map, i, c)
  OBVIOUS
<1>2. PICK m2 : m2 = Taken(m, c)
  OBVIOUS
<1>3. ms \in Nat /\ lo \in Nat /\ hi \in Nat /\ lo <= hi /\ hi < ms /\ map \in [0..(ms - 1) -> Chunks \cup {None}]
  BY DEF Table, Maps
<1>4. map2 \in [0..(ms - 1) -> Chunks \cup {None}] /\ map2[i] = c /\ \A k \in 0..(ms - 1) : k # i => map2[k] = map[k]
  BY <1>1, <1>3 DEF Linked
<1>5. m2 \in Mems /\ m2[c] = EmptyChunk /\ \A e \in Chunks : e # c => m2[e] = m[e]
  BY <1>2, EmptyFact DEF Taken, Mems
<1>6. c \notin In(map, lo, hi) /\ In(map, lo, hi) \in SUBSET Chunks /\ \A e \in In(map, lo, hi) : m[e] # None
  BY TableFact, ShowsFact
<1>7. \A k \in lo..hi : k \in 0..(ms - 1) /\ map[k] \in Chunks /\ map[k] \in In(map, lo, hi) /\ map[k] # c
  BY <1>6, TableFact DEF In
<1>8. /\ lo2 <= hi2 /\ hi2 < ms /\ i \in Nat
      /\ \A k \in Nat : k \in lo2..hi2 <=> k = i \/ k \in lo..hi
      /\ i \notin lo..hi
  BY <1>3 DEF Larger
<1>9. \A k \in lo..hi : map2[k] = map[k]
  BY <1>4, <1>7, <1>8
<1>10. Table(map2, ms, lo2, hi2)
  <2>1. ASSUME NEW k \in 0..(ms - 1)  PROVE map2[k] # None <=> k \in lo2..hi2
    <3>1. map[k] # None <=> k \in lo..hi
      BY DEF Table
    <3>2. c # None
      BY NoneAssumption
    <3> QED  BY <1>3, <1>4, <1>8, <3>1, <3>2
  <2>2. ASSUME NEW k \in lo2..hi2, NEW l \in lo2..hi2, map2[k] = map2[l]  PROVE k = l
    <3>1. (k = i \/ k \in lo..hi) /\ (l = i \/ l \in lo..hi)
      BY <1>8
    <3>2. k \in lo..hi /\ l \in lo..hi => (map[k] = map[l] => k = l)
      BY DEF Table
    <3> QED  BY <1>4, <1>7, <1>9, <2>2, <3>1, <3>2
  <2> QED  BY <1>3, <1>4, <1>8, <2>1, <2>2 DEF Table, Maps
<1>11. Shows(m2, map2, lo2, hi2, A, s)
  <2>1. ASSUME NEW k \in lo2..hi2  PROVE m2[map2[k]] = RowOf(s, A, k)
    <3>1. CASE k = i
      BY <1>4, <1>5, <3>1
    <3>2. CASE k \in lo..hi
      <4>1. m[map[k]] = RowOf(s, A, k)
        BY <3>2 DEF Shows
      <4> QED  BY <1>5, <1>7, <1>9, <3>2, <4>1
    <3> QED  BY <1>8, <3>1, <3>2
  <2> QED  BY <2>1 DEF Shows
<1>12. In(map2, lo2, hi2) = In(map, lo, hi) \cup {c}
  <2>1. ASSUME NEW e \in In(map2, lo2, hi2)  PROVE e \in In(map, lo, hi) \cup {c}
    <3>1. PICK k \in lo2..hi2 : e = map2[k]
      BY DEF In
    <3> QED  BY <1>4, <1>7, <1>8, <1>9, <3>1
  <2>2. ASSUME NEW e \in In(map, lo, hi)  PROVE e \in In(map2, lo2, hi2)
    <3>1. PICK k \in lo..hi : e = map[k]
      BY DEF In
    <3>2. k \in lo2..hi2 /\ e = map2[k]
      BY <1>7, <1>8, <1>9, <3>1
    <3> QED  BY <3>2 DEF In
  <2>3. c \in In(map2, lo2, hi2)
    <3>1. i \in lo2..hi2
      BY <1>8
    <3> QED  BY <1>4, <3>1 DEF In
  <2> QED  BY <2>1, <2>2, <2>3
<1>13. Change(m, In(map, lo, hi), m2, In(map2, lo2, hi2))
  BY <1>5, <1>6, <1>12, EmptyFact DEF Change
<1> QED  BY <1>1, <1>2, <1>5, <1>9, <1>10, <1>11, <1>13

\* The map and the heap without the first or the last chunk, which is empty.
Smaller(lo, hi, i, lo2, hi2) == lo < hi /\ ((i = hi /\ lo2 = lo /\ hi2 + 1 = hi) \/ (i = lo /\ lo2 = lo + 1 /\ hi2 = hi))
Unlinked(map, i) == [map EXCEPT ![i] = None]
Freed(m, c) == FreeChunks(m, {c})

LEMMA RemoveRow ==
  ASSUME NEW m \in Mems, NEW map, NEW ms, NEW lo, NEW hi, NEW A \in Nat, NEW s \in Seq(Values),
         Table(map, ms, lo, hi), Shows(m, map, lo, hi, A, s),
         NEW i, NEW lo2 \in Nat, NEW hi2 \in Nat, Smaller(lo, hi, i, lo2, hi2),
         RowOf(s, A, i) = EmptyChunk
  PROVE  /\ Table(Unlinked(map, i), ms, lo2, hi2)
         /\ Shows(Freed(m, map[i]), Unlinked(map, i), lo2, hi2, A, s)
         /\ Change(m, In(map, lo, hi), Freed(m, map[i]), In(Unlinked(map, i), lo2, hi2))
         /\ \A k \in lo2..hi2 : Unlinked(map, i)[k] = map[k]
         /\ Freed(m, map[i]) \in Mems
<1>1. PICK map2 : map2 = Unlinked(map, i)
  OBVIOUS
<1>2. PICK m2 : m2 = Freed(m, map[i])
  OBVIOUS
<1>3. ms \in Nat /\ lo \in Nat /\ hi \in Nat /\ lo <= hi /\ hi < ms /\ map \in [0..(ms - 1) -> Chunks \cup {None}]
  BY DEF Table, Maps
<1>4. /\ lo2 <= hi2 /\ hi2 < ms /\ i \in Nat /\ i \in lo..hi
      /\ \A k \in Nat : k \in lo..hi <=> k = i \/ k \in lo2..hi2
      /\ i \notin lo2..hi2
  BY <1>3 DEF Smaller
<1>5. \A k \in lo..hi : k \in 0..(ms - 1) /\ map[k] \in Chunks /\ map[k] \in In(map, lo, hi)
  BY TableFact DEF In
<1>6. PICK c \in Chunks : c = map[i]
  BY <1>4, <1>5
<1>7. map2 \in [0..(ms - 1) -> Chunks \cup {None}] /\ map2[i] = None /\ \A k \in 0..(ms - 1) : k # i => map2[k] = map[k]
  BY <1>1, <1>3, <1>4, <1>5 DEF Unlinked
<1>8. m[c] = EmptyChunk
  BY <1>4, <1>6 DEF Shows
<1>9. m2 \in Mems /\ m2[c] = None /\ \A e \in Chunks : e # c => m2[e] = m[e]
  BY <1>2, <1>6, <1>8 DEF Freed, FreeChunks, Mems
<1>10. In(map, lo, hi) \in SUBSET Chunks /\ \A e \in In(map, lo, hi) : m[e] # None
  BY TableFact, ShowsFact
<1>11. \A k \in lo2..hi2 : k \in lo..hi /\ k # i /\ map2[k] = map[k] /\ map[k] # c
  <2>1. ASSUME NEW k \in lo2..hi2  PROVE k \in lo..hi /\ k # i
    BY <1>4
  <2>2. ASSUME NEW k \in lo..hi, k # i  PROVE map[k] # c
    BY <1>4, <1>6, <2>2 DEF Table
  <2> QED  BY <1>5, <1>7, <2>1, <2>2
<1>12. Table(map2, ms, lo2, hi2)
  <2>1. ASSUME NEW k \in 0..(ms - 1)  PROVE map2[k] # None <=> k \in lo2..hi2
    <3>1. map[k] # None <=> k \in lo..hi
      BY DEF Table
    <3>2. k \in Nat
      BY <1>3
    <3>3. CASE k = i
      BY <1>4, <1>7, <3>3
    <3>4. CASE k # i
      <4>1. k \in lo..hi <=> k \in lo2..hi2
        BY <1>4, <3>2, <3>4
      <4>2. map2[k] = map[k]
        BY <1>7, <3>4
      <4> QED  BY <3>1, <4>1, <4>2
    <3> QED  BY <3>3, <3>4
  <2>2. ASSUME NEW k \in lo2..hi2, NEW l \in lo2..hi2, map2[k] = map2[l]  PROVE k = l
    <3>1. k \in lo..hi /\ l \in lo..hi /\ map[k] = map[l]
      BY <1>11, <2>2
    <3> QED  BY <3>1 DEF Table
  <2> QED  BY <1>3, <1>4, <1>7, <2>1, <2>2 DEF Table, Maps
<1>13. Shows(m2, map2, lo2, hi2, A, s)
  <2>1. ASSUME NEW k \in lo2..hi2  PROVE m2[map2[k]] = RowOf(s, A, k)
    <3>1. m[map[k]] = RowOf(s, A, k)
      BY <1>11 DEF Shows
    <3> QED  BY <1>5, <1>9, <1>11, <3>1
  <2> QED  BY <2>1 DEF Shows
<1>14. In(map2, lo2, hi2) = In(map, lo, hi) \ {c}
  <2>1. ASSUME NEW e \in In(map2, lo2, hi2)  PROVE e \in In(map, lo, hi) \ {c}
    <3>1. PICK k \in lo2..hi2 : e = map2[k]
      BY DEF In
    <3> QED  BY <1>5, <1>11, <3>1
  <2>2. ASSUME NEW e \in In(map, lo, hi) \ {c}  PROVE e \in In(map2, lo2, hi2)
    <3>1. PICK k \in lo..hi : e = map[k]
      BY DEF In
    <3>2. k \in lo2..hi2 /\ e = map2[k]
      BY <1>3, <1>4, <1>6, <1>11, <3>1
    <3> QED  BY <3>2 DEF In
  <2> QED  BY <2>1, <2>2
<1>15. Change(m, In(map, lo, hi), m2, In(map2, lo2, hi2))
  <2>1. PICK S : S = In(map, lo, hi)
    OBVIOUS
  <2>2. PICK S2 : S2 = In(map2, lo2, hi2)
    OBVIOUS
  <2>3. S \in SUBSET Chunks /\ S2 = S \ {c} /\ c \in S /\ \A e \in S : m[e] # None
    BY <1>4, <1>5, <1>6, <1>10, <1>14, <2>1, <2>2
  <2>4. /\ S2 \in SUBSET Chunks
        /\ \A e \in Chunks \ (S \cup S2) : m2[e] = m[e]
        /\ \A e \in S2 : m2[e] # None
        /\ \A e \in S \ S2 : m2[e] = None
        /\ \A e \in S2 \ S : m[e] = None
    BY <1>9, <2>3
  <2> QED  BY <1>9, <2>1, <2>2, <2>3, <2>4 DEF Change
<1> QED  BY <1>1, <1>2, <1>9, <1>11, <1>12, <1>13, <1>15

-----------------------------------------------------------------------------
(* The map moves: its n chunks go from the nodes after from to the nodes   *)
(* after to.                                                               *)

Slot(ms) == 0..(ms - 1)

LEMMA CopiedFact ==
  ASSUME NEW ms \in Nat, NEW map \in Maps(ms), NEW from \in Nat, NEW to \in Nat, NEW n \in Nat,
         to <= from, from + n <= ms
  PROVE  \A i \in to..(to + n - 1) : Copied(map, from, n, to)[i] = map[from + i - to]
<1> DEFINE G(k) == [i \in Slot(ms) |-> IF i \in to..(to + k - 1) THEN map[from + i - to] ELSE map[i]]
           g == [k \in 0..n |-> G(k)]
           Turn(x, k) == [x EXCEPT ![to + k - 1] = x[from + k - 1]]
           Run(f) == f = [k \in 0..n |-> IF k = 0 THEN map ELSE Turn(f[k - 1], k)]
           after == CHOOSE f : Run(f)
<1>1. G(0) = map
  BY DEF Maps, Slot
<1>2. ASSUME NEW k \in 1..n  PROVE G(k) = Turn(G(k - 1), k)
  <2>1. to + k - 1 \in Slot(ms) /\ from + k - 1 \in Slot(ms) /\ from + k - 1 \notin to..(to + (k - 1) - 1)
    BY DEF Slot
  <2>2. G(k - 1)[from + k - 1] = map[from + k - 1]
    BY <2>1
  <2>3. from + (to + k - 1) - to = from + k - 1
    OBVIOUS
  <2>4. \A i \in Slot(ms) : i \in to..(to + k - 1) <=> i \in to..(to + (k - 1) - 1) \/ i = to + k - 1
    BY DEF Slot
  <2>5. G(k) = [i \in Slot(ms) |-> IF i = to + k - 1 THEN map[from + k - 1] ELSE G(k - 1)[i]]
    BY <2>1, <2>3, <2>4
  <2>6. \A v : [G(k - 1) EXCEPT ![to + k - 1] = v] = [i \in Slot(ms) |-> IF i = to + k - 1 THEN v ELSE G(k - 1)[i]]
    OBVIOUS
  <2> HIDE DEF G
  <2> QED  BY <2>2, <2>5, <2>6
<1>3. Copied(map, from, n, to) = after[n]
  BY DEF Copied
<1> HIDE DEF G, Turn
<1>4. Run(g)
  BY <1>1, <1>2
<1>5. Run(after)
  BY <1>4
<1> HIDE DEF after
<1>6. SameLoop(n, after, g)
  BY <1>1, <1>2, <1>5 DEF SameLoop
<1> HIDE DEF g
<1>7. after[n] = g[n]
  BY <1>6, LoopUnique
<1>8. after[n] = G(n)
  BY <1>7 DEF g
<1> SUFFICES ASSUME NEW i \in to..(to + n - 1)  PROVE after[n][i] = map[from + i - to]
  BY <1>3
<1>9. i \in Slot(ms)
  BY DEF Slot
<1> QED  BY <1>8, <1>9 DEF G

LEMMA CopiedBackwardFact ==
  ASSUME NEW ms \in Nat, NEW map \in Maps(ms), NEW from \in Nat, NEW to \in Nat, NEW n \in Nat,
         from <= to, to + n <= ms
  PROVE  \A i \in to..(to + n - 1) : CopiedBackward(map, from, n, to)[i] = map[from + i - to]
<1> DEFINE G(k) == [i \in Slot(ms) |-> IF i \in (to + n - k)..(to + n - 1) THEN map[from + i - to] ELSE map[i]]
           g == [k \in 0..n |-> G(k)]
           Turn(x, k) == [x EXCEPT ![to + n - k] = x[from + n - k]]
           Run(f) == f = [k \in 0..n |-> IF k = 0 THEN map ELSE Turn(f[k - 1], k)]
           after == CHOOSE f : Run(f)
<1>1. G(0) = map
  <2>1. \A i \in Slot(ms) : i \notin (to + n - 0)..(to + n - 1)
    BY DEF Slot
  <2> QED  BY <2>1 DEF Maps, Slot
<1>2. ASSUME NEW k \in 1..n  PROVE G(k) = Turn(G(k - 1), k)
  <2>1. to + n - k \in Slot(ms) /\ from + n - k \in Slot(ms) /\ from + n - k \notin (to + n - (k - 1))..(to + n - 1)
    BY DEF Slot
  <2>2. G(k - 1)[from + n - k] = map[from + n - k]
    BY <2>1
  <2>3. from + (to + n - k) - to = from + n - k
    OBVIOUS
  <2>4. \A i \in Slot(ms) : i \in (to + n - k)..(to + n - 1) <=> i \in (to + n - (k - 1))..(to + n - 1) \/ i = to + n - k
    BY DEF Slot
  <2>5. G(k) = [i \in Slot(ms) |-> IF i = to + n - k THEN map[from + n - k] ELSE G(k - 1)[i]]
    BY <2>1, <2>3, <2>4
  <2>6. \A v : [G(k - 1) EXCEPT ![to + n - k] = v] = [i \in Slot(ms) |-> IF i = to + n - k THEN v ELSE G(k - 1)[i]]
    OBVIOUS
  <2> HIDE DEF G
  <2> QED  BY <2>2, <2>5, <2>6
<1>3. CopiedBackward(map, from, n, to) = after[n]
  BY DEF CopiedBackward
<1> HIDE DEF G, Turn
<1>4. Run(g)
  BY <1>1, <1>2
<1>5. Run(after)
  BY <1>4
<1> HIDE DEF after
<1>6. SameLoop(n, after, g)
  BY <1>1, <1>2, <1>5 DEF SameLoop
<1> HIDE DEF g
<1>7. after[n] = g[n]
  BY <1>6, LoopUnique
<1>8. after[n] = G(n)
  BY <1>7 DEF g
<1> SUFFICES ASSUME NEW i \in to..(to + n - 1)  PROVE after[n][i] = map[from + i - to]
  BY <1>3
<1>9. i \in Slot(ms) /\ i \in (to + n - n)..(to + n - 1)
  BY DEF Slot
<1> QED  BY <1>8, <1>9 DEF G

LEMMA MapSizeFact ==
  ASSUME NEW d, NEW ms \in Nat, d.map \in Maps(ms)
  PROVE  MapSize(d) = ms
<1>1. DOMAIN d.map = 0..(ms - 1)
  BY DEF Maps
<1>2. Cardinality(0..(ms - 1)) = ms
  BY FS_Interval
<1> QED  BY <1>1, <1>2 DEF MapSize

\* The same chunks in the same order, at the nodes lo2..hi2.
Moved(map, lo, hi, map2, ms2, lo2, hi2) ==
  /\ Table(map2, ms2, lo2, hi2)
  /\ hi2 = lo2 + (hi - lo)
  /\ \A i \in lo2..hi2 : map2[i] = map[lo + i - lo2]

\* The entries that reallocate_map copies, and the map with them.
OldMap(map, shift, from, to, num) ==
  CASE shift /\ to < from -> Copied(map, from, num, to)
    [] shift /\ to >= from -> CopiedBackward(map, from, num, to)
    [] ~shift -> [i \in to..(to + num - 1) |-> map[from + i - to]]
NewMap(map, shift, from, to, num, ms2) ==
  [i \in 0..(ms2 - 1) |-> IF i \in to..(to + num - 1) THEN OldMap(map, shift, from, to, num)[i] ELSE None]

LEMMA ReallocateFact ==
  ASSUME NEW d, NEW map, map = d.map, NEW ms, NEW lo, NEW hi, Table(map, ms, lo, hi),
         d.start.node = lo, d.finish.node = hi, NEW front \in BOOLEAN
  PROVE  \E map2, ms2, lo2, hi2 :
            /\ Moved(map, lo, hi, map2, ms2, lo2, hi2)
            /\ ReallocateMap(d, front) = Members(map2, It(lo2, d.start.off), It(hi2, d.finish.off))
            /\ IF front THEN lo2 >= 1 ELSE hi2 + 1 < ms2
<1>1. ms \in Nat /\ lo \in Nat /\ hi \in Nat /\ lo <= hi /\ hi < ms /\ map \in Maps(ms)
  BY DEF Table
<1>2. MapSize(d) = ms
  BY <1>1, MapSizeFact
<1>3. PICK num \in Nat : num = hi - lo + 1
  BY <1>1
<1>4. PICK shift \in BOOLEAN : shift <=> ms > 2 * (num + 1)
  OBVIOUS
<1>5. PICK ms2 \in Nat : ms2 = IF shift THEN ms ELSE ms + ms + 2
  BY <1>1
<1>6. PICK half \in Nat : half = (ms2 - (num + 1)) \div 2 /\ 2 * half <= ms2 - (num + 1) /\ ms2 - (num + 1) < 2 * half + 2
  <2>1. PICK x \in Nat : x = ms2 - (num + 1)
    BY <1>1, <1>3, <1>4, <1>5
  <2>2. x \div 2 \in Nat /\ 2 * (x \div 2) <= x /\ x < 2 * (x \div 2) + 2
    OBVIOUS
  <2> QED  BY <2>1, <2>2
<1>7. PICK lo2 \in Nat : lo2 = half + (IF front THEN 1 ELSE 0)
  OBVIOUS
<1>8. PICK hi2 \in Nat : hi2 = lo2 + num - 1
  BY <1>1, <1>3
<1>9. /\ lo2 <= hi2 /\ hi2 < ms2 /\ hi2 = lo2 + (hi - lo) /\ (IF front THEN lo2 >= 1 ELSE hi2 + 1 < ms2)
  <2>1. num >= 1 /\ num <= ms /\ hi - lo = num - 1
    BY <1>1, <1>3
  <2>2. CASE shift
    <3>1. ms2 = ms /\ ms > 2 * num + 2
      BY <1>1, <1>4, <1>5, <2>2
    <3> QED  BY <1>1, <1>6, <1>7, <1>8, <2>1, <3>1
  <2>3. CASE ~shift
    <3>1. ms2 = ms + ms + 2
      BY <1>5, <2>3
    <3> QED  BY <1>1, <1>6, <1>7, <1>8, <2>1, <3>1
  <2> QED  BY <2>2, <2>3
<1> DEFINE nodes == lo2..(lo2 + num - 1)
           old == OldMap(map, shift, lo, lo2, num)
           map2 == NewMap(map, shift, lo, lo2, num, ms2)
<1>10. ReallocateMap(d, front) = Members(map2, It(lo2, d.start.off), It(hi2, d.finish.off))
  <2> DEFINE dnum == d.finish.node - d.start.node + 1
             dshift == MapSize(d) > 2 * (dnum + 1)
             dsize == IF dshift THEN MapSize(d) ELSE MapSize(d) + MapSize(d) + 2
             dstart == (dsize - (dnum + 1)) \div 2 + (IF front THEN 1 ELSE 0)
  <2>1. ReallocateMap(d, front) = Members(NewMap(d.map, dshift, d.start.node, dstart, dnum, dsize),
                                          It(dstart, d.start.off), It(dstart + dnum - 1, d.finish.off))
    BY DEF ReallocateMap, NewMap, OldMap
  <2>2. dnum = num
    BY <1>3
  <2>3. dshift = shift
    BY <1>2, <1>4, <2>2
  <2> HIDE DEF dnum, dshift
  <2>4. dsize = ms2
    BY <1>2, <1>5, <2>3
  <2> HIDE DEF dsize
  <2>5. dstart = lo2
    BY <1>6, <1>7, <2>2, <2>4
  <2> HIDE DEF dstart
  <2> QED  BY <1>8, <2>1, <2>2, <2>3, <2>4, <2>5
<1>18. map2 = [i \in 0..(ms2 - 1) |-> IF i \in nodes THEN old[i] ELSE None]
  BY DEF NewMap
<1> HIDE DEF map2
<1>11. ASSUME NEW i \in nodes  PROVE old[i] = map[lo + i - lo2]
  <2>1. CASE shift /\ lo2 < lo
    <3>1. lo2 <= lo /\ lo + num <= ms /\ ~(lo2 >= lo)
      BY <1>1, <1>3, <2>1
    <3>2. Copied(map, lo, num, lo2)[i] = map[lo + i - lo2]
      BY <1>1, <3>1, CopiedFact
    <3> QED  BY <2>1, <3>1, <3>2 DEF OldMap
  <2>2. CASE shift /\ lo2 >= lo
    <3>1. lo <= lo2 /\ lo2 + num <= ms /\ ~(lo2 < lo)
      BY <1>1, <1>3, <1>5, <1>8, <1>9, <2>2
    <3>2. CopiedBackward(map, lo, num, lo2)[i] = map[lo + i - lo2]
      BY <1>1, <3>1, CopiedBackwardFact
    <3> QED  BY <2>2, <3>1, <3>2 DEF OldMap
  <2>3. CASE ~shift
    BY <2>3 DEF OldMap
  <2> QED  BY <1>1, <2>1, <2>2, <2>3
<1> HIDE DEF old
<1>12. nodes = lo2..hi2
  BY <1>8
<1>13. ASSUME NEW i \in lo2..hi2
       PROVE  i \in 0..(ms2 - 1) /\ lo + i - lo2 \in lo..hi /\ map2[i] = map[lo + i - lo2] /\ map[lo + i - lo2] \in Chunks
  <2>1. i \in 0..(ms2 - 1) /\ lo + i - lo2 \in lo..hi
    BY <1>1, <1>9
  <2>2. map2[i] = old[i]
    BY <1>12, <1>18, <2>1
  <2> QED  BY <1>11, <1>12, <2>1, <2>2, TableFact
<1>14. ASSUME NEW i \in 0..(ms2 - 1), i \notin lo2..hi2  PROVE map2[i] = None
  BY <1>12, <1>14, <1>18
<1>15. DOMAIN map2 = 0..(ms2 - 1) /\ map2 = [i \in DOMAIN map2 |-> map2[i]]
  BY <1>18
<1>16. Table(map2, ms2, lo2, hi2)
  <2>1. ASSUME NEW i \in 0..(ms2 - 1)
        PROVE  map2[i] \in Chunks \cup {None} /\ (map2[i] # None <=> i \in lo2..hi2)
    BY <1>13, <1>14, NoneAssumption
  <2>2. ASSUME NEW i \in lo2..hi2, NEW k \in lo2..hi2, map2[i] = map2[k]  PROVE i = k
    <3>1. PICK x \in lo..hi : x = lo + i - lo2
      BY <1>13
    <3>2. PICK y \in lo..hi : y = lo + k - lo2
      BY <1>13
    <3>3. map[x] = map[y]
      BY <1>13, <2>2, <3>1, <3>2
    <3>4. x = y
      BY <3>3 DEF Table
    <3> QED  BY <1>1, <3>1, <3>2, <3>4
  <2>3. map2 \in Maps(ms2)
    BY <1>15, <2>1 DEF Maps
  <2> QED  BY <1>9, <2>1, <2>2, <2>3 DEF Table
<1>17. Moved(map, lo, hi, map2, ms2, lo2, hi2)
  BY <1>9, <1>13, <1>16 DEF Moved
<1> QED  BY <1>9, <1>10, <1>17

LEMMA RowShift ==
  ASSUME NEW x \in Nat, NEW lo \in Nat, NEW lo2 \in Nat, lo <= x
  PROVE  x - lo + lo2 \in Nat /\ Row(x - lo + lo2) = Row(x) - Row(lo) + Row(lo2)
<1>1. PICK c \in Nat : c = ChunkElems
  BY ChunkFact
<1>2. c * (x - lo + lo2) = c * x - c * lo + c * lo2
  OBVIOUS
<1> QED  BY <1>1, <1>2 DEF Row

\* An element's address, by its place.
Spot(map, p) == <<map[Node(p)], Off(p)>>

\* What becomes of the elements when their chunks move.
Carried(m, map, lo, hi, A, s, map2, lo2, hi2, A2) ==
  /\ Shows(m, map2, lo2, hi2, A2, s)
  /\ In(map2, lo2, hi2) = In(map, lo, hi)
  /\ \A k \in Nat : Node(A2 + k) = Node(A + k) - lo + lo2 /\ Off(A2 + k) = Off(A + k)
  /\ \A k \in Nat : Node(A + k) <= hi => Spot(map2, A2 + k) = Spot(map, A + k)

LEMMA MovedFact ==
  ASSUME NEW m \in Mems, NEW map, NEW ms, NEW lo, NEW hi, NEW A \in Nat, NEW s \in Seq(Values),
         Table(map, ms, lo, hi), Shows(m, map, lo, hi, A, s), Node(A) = lo,
         NEW map2, NEW ms2, NEW lo2, NEW hi2, Moved(map, lo, hi, map2, ms2, lo2, hi2)
  PROVE  \E A2 \in Nat : Carried(m, map, lo, hi, A, s, map2, lo2, hi2, A2)
<1>1. lo \in Nat /\ hi \in Nat /\ lo <= hi /\ lo2 \in Nat /\ hi2 \in Nat /\ lo2 <= hi2 /\ hi2 = lo2 + (hi - lo)
  BY DEF Table, Moved
<1>2. PICK r \in Nat, r2 \in Nat : r = Row(lo) /\ r2 = Row(lo2)
  BY <1>1, RowFact
<1>3. PICK f \in Nat : f = Off(A) /\ A = r + f
  BY <1>2, PlaceFact
<1>4. PICK A2 \in Nat : A2 = r2 + f
  BY <1>3
<1>5. ASSUME NEW k \in Nat
      PROVE  Node(A2 + k) = Node(A + k) - lo + lo2 /\ Off(A2 + k) = Off(A + k) /\ Node(A + k) >= lo
  <2>1. PICK p \in Nat : p = A + k
    OBVIOUS
  <2>2. PICK p2 \in Nat : p2 = A2 + k
    OBVIOUS
  <2>3. PICK x \in Nat, j \in Offsets : x = Node(p) /\ j = Off(p) /\ p = Row(x) + j
    BY PlaceFact
  <2>4. lo <= x
    <3>1. A <= p
      BY <2>1
    <3> QED  BY <2>3, <3>1, NodeOrder
  <2>5. PICK y \in Nat : y = x - lo + lo2 /\ Row(y) = Row(x) - r + r2
    <3>0. lo \in Nat /\ lo2 \in Nat
      BY <1>1
    <3>1. x - lo + lo2 \in Nat /\ Row(x - lo + lo2) = Row(x) - Row(lo) + Row(lo2)
      BY <2>4, <3>0, RowShift
    <3> QED  BY <1>2, <3>1
  <2>6. p2 = Row(y) + j
    <3>1. PICK rx \in Nat : rx = Row(x)
      BY RowFact
    <3>2. j \in Nat
      BY ChunkFact DEF Offsets
    <3>3. p = rx + j /\ Row(y) = rx - r + r2
      BY <2>3, <2>5, <3>1
    <3>4. PICK jj \in Nat : jj = j
      BY <3>2
    <3>5. p = rx + jj /\ p = (r + f) + k /\ p2 = (r2 + f) + k
      BY <1>3, <1>4, <2>1, <2>2, <3>3, <3>4
    <3>6. p2 = (rx - r + r2) + jj
      BY <3>5
    <3> QED  BY <3>3, <3>4, <3>6
  <2>7. Node(p2) = y /\ Off(p2) = j
    BY <2>6, NodeUnique
  <2> QED  BY <2>1, <2>2, <2>3, <2>4, <2>5, <2>7
<1>6. ASSUME NEW i \in lo2..hi2  PROVE RowOf(s, A2, i) = RowOf(s, A, lo + i - lo2) /\ lo + i - lo2 \in lo..hi
  <2>1. PICK x \in lo..hi : x = lo + i - lo2 /\ x \in Nat
    BY <1>1
  <2>2. i \in Nat /\ i = x - lo + lo2 /\ lo <= x
    BY <1>1, <2>1
  <2>3. Row(i) = Row(x) - r + r2
    BY <1>1, <1>2, <2>1, <2>2, RowShift
  <2>4. ASSUME NEW j \in Offsets  PROVE Cell(s, A2, Row(i) + j) = Cell(s, A, Row(x) + j)
    <3>1. PICK p \in Nat : p = Row(x) + j
      BY <2>1, NodeUnique
    <3>2. PICK q \in Nat : q = Row(i) + j
      BY <2>2, NodeUnique
    <3>3. q - A2 = p - A
      <4>1. PICK rx \in Nat : rx = Row(x)
        BY <2>1, RowFact
      <4>2. j \in Nat
        BY ChunkFact DEF Offsets
      <4>3. p = rx + j /\ q = (rx - r + r2) + j
        BY <2>3, <3>1, <3>2, <4>1
      <4>4. PICK jj \in Nat : jj = j
        BY <4>2
      <4>5. p = rx + jj /\ q = (rx - r + r2) + jj /\ A = r + f /\ A2 = r2 + f
        BY <1>3, <1>4, <4>3, <4>4
      <4> QED  BY <4>5
    <3>4. PICK n \in Nat : n = Len(s)
      OBVIOUS
    <3>5. q \in A2..(A2 + n - 1) <=> p \in A..(A + n - 1)
      BY <3>3
    <3>6. q - A2 + 1 = p - A + 1
      BY <3>3
    <3> QED  BY <3>1, <3>2, <3>4, <3>5, <3>6 DEF Cell
  <2> QED  BY <2>1, <2>4 DEF RowOf
<1>7. Shows(m, map2, lo2, hi2, A2, s)
  <2>1. ASSUME NEW i \in lo2..hi2  PROVE m[map2[i]] = RowOf(s, A2, i)
    <3>1. map2[i] = map[lo + i - lo2]
      BY DEF Moved
    <3>2. m[map[lo + i - lo2]] = RowOf(s, A, lo + i - lo2)
      BY <1>6 DEF Shows
    <3> QED  BY <1>6, <3>1, <3>2
  <2> QED  BY <2>1 DEF Shows
<1>8. In(map2, lo2, hi2) = In(map, lo, hi)
  <2>1. ASSUME NEW i \in lo2..hi2  PROVE map2[i] \in In(map, lo, hi)
    <3>1. map2[i] = map[lo + i - lo2]
      BY DEF Moved
    <3> QED  BY <1>6, <3>1 DEF In
  <2>2. ASSUME NEW i \in lo..hi  PROVE map[i] \in In(map2, lo2, hi2)
    <3>1. PICK k \in lo2..hi2 : k = lo2 + i - lo
      BY <1>1
    <3>2. lo + k - lo2 = i
      BY <1>1, <3>1
    <3>3. map2[k] = map[i]
      BY <3>2 DEF Moved
    <3> QED  BY <3>3 DEF In
  <2> QED  BY <2>1, <2>2 DEF In
<1>9. ASSUME NEW k \in Nat, Node(A + k) <= hi  PROVE Spot(map2, A2 + k) = Spot(map, A + k)
  <2>1. Node(A + k) \in Nat
    <3>1. PICK p \in Nat : p = A + k
      OBVIOUS
    <3> QED  BY <3>1, PlaceFact
  <2>2. PICK i \in lo2..hi2 : i = Node(A + k) - lo + lo2
    <3>1. PICK y \in Nat : y = Node(A + k)
      BY <2>1
    <3>2. lo <= y /\ y <= hi
      BY <1>5, <1>9, <3>1
    <3>3. y - lo + lo2 \in lo2..hi2
      BY <1>1, <3>2
    <3> QED  BY <3>1, <3>3
  <2>3. map2[i] = map[lo + i - lo2]
    BY DEF Moved
  <2>4. lo + i - lo2 = Node(A + k)
    BY <1>1, <2>1, <2>2
  <2> QED  BY <1>5, <2>2, <2>3, <2>4 DEF Spot
<1>10. Carried(m, map, lo, hi, A, s, map2, lo2, hi2, A2)
  BY <1>5, <1>7, <1>8, <1>9 DEF Carried
<1> QED  BY <1>10

-----------------------------------------------------------------------------
(* A deque: its first element is at place A, its map has ms entries.  The  *)
(* chunks that it has are at lo..hi, which is where start_ and finish_ are *)
(* except in the middle of a push.                                         *)

Room(m, d, ms, lo, hi, A, s) ==
  /\ m \in Mems /\ A \in Nat /\ s \in Seq(Values)
  /\ Table(d.map, ms, lo, hi)
  /\ Shows(m, d.map, lo, hi, A, s)
  /\ d = Members(d.map, At(A), At(A + Len(s)))

Deq(m, d, ms, A, s) == Room(m, d, ms, Node(A), Node(A + Len(s)), A, s)

LEMMA MembersFact ==
  ASSUME NEW map, NEW a, NEW b
  PROVE  Members(map, a, b).map = map /\ Members(map, a, b).start = a /\ Members(map, a, b).finish = b
  BY DEF Members

\* n more elements are at the nodes after the first.
LEMMA SpanFact ==
  ASSUME NEW A \in Nat, NEW n \in Nat
  PROVE  /\ A + n \in Nat /\ Node(A) \in Nat /\ Node(A + n) \in Nat /\ Node(A) <= Node(A + n)
         /\ \A p \in A..(A + n) : p \in Nat /\ Node(p) \in Node(A)..Node(A + n)
<1>1. A + n \in Nat /\ Node(A) \in Nat /\ Node(A + n) \in Nat /\ A <= A + n
  BY PlaceFact
<1>2. ASSUME NEW p \in A..(A + n)  PROVE p \in Nat /\ Node(p) \in Node(A)..Node(A + n)
  <2>1. p \in Nat /\ A <= p /\ p <= A + n
    OBVIOUS
  <2>2. Node(p) \in Nat /\ Node(A) <= Node(p) /\ Node(p) <= Node(A + n)
    BY <1>1, <2>1, NodeOrder, PlaceFact
  <2> QED  BY <1>1, <2>1, <2>2
<1>3. A \in A..(A + n) /\ A + n \in A..(A + n)
  OBVIOUS
<1>4. Node(A) <= Node(A + n)
  BY <1>1, NodeOrder
<1> QED  BY <1>1, <1>2, <1>4

LEMMA DeqFact ==
  ASSUME NEW m, NEW d, NEW ms, NEW A, NEW s, Deq(m, d, ms, A, s)
  PROVE  /\ m \in Mems /\ A \in Nat /\ s \in Seq(Values) /\ Len(s) \in Nat /\ A + Len(s) \in Nat
         /\ ms \in Nat /\ ms >= 1 /\ MapSize(d) = ms /\ d.map \in Maps(ms)
         /\ d.start = At(A) /\ d.start.node = Node(A) /\ d.start.off = Off(A)
         /\ d.finish = At(A + Len(s)) /\ d.finish.node = Node(A + Len(s)) /\ d.finish.off = Off(A + Len(s))
         /\ Nodes(d) = Node(A)..Node(A + Len(s))
         /\ Owned(d) = In(d.map, Node(A), Node(A + Len(s)))
         /\ Change(m, Owned(d), m, Owned(d))
<1>1. m \in Mems /\ A \in Nat /\ s \in Seq(Values) /\ Table(d.map, ms, Node(A), Node(A + Len(s)))
  BY DEF Deq, Room
<1>2. Len(s) \in Nat /\ A + Len(s) \in Nat
  BY <1>1
<1>3. ms \in Nat /\ ms >= 1 /\ d.map \in Maps(ms)
  BY <1>1 DEF Table
<1>4. MapSize(d) = ms
  BY <1>3, MapSizeFact
<1>5. d.start = At(A) /\ d.finish = At(A + Len(s))
  <2>1. d = Members(d.map, At(A), At(A + Len(s)))
    BY DEF Deq, Room
  <2> QED  BY <2>1, MembersFact
<1>6. d.start.node = Node(A) /\ d.start.off = Off(A)
  BY <1>1, <1>5, AtFact
<1>7. d.finish.node = Node(A + Len(s)) /\ d.finish.off = Off(A + Len(s))
  BY <1>2, <1>5, AtFact
<1>8. Nodes(d) = Node(A)..Node(A + Len(s))
  BY <1>3, <1>4, <1>6, <1>7 DEF Nodes
<1>9. Owned(d) = In(d.map, Node(A), Node(A + Len(s)))
  BY <1>8 DEF Owned, In
<1>10. Change(m, Owned(d), m, Owned(d))
  <2>1. Shows(m, d.map, Node(A), Node(A + Len(s)), A, s)
    BY DEF Deq, Room
  <2> QED  BY <1>1, <1>9, <2>1, ShowsFact
<1> QED  BY <1>1, <1>2, <1>3, <1>4, <1>5, <1>6, <1>7, <1>8, <1>9, <1>10

-----------------------------------------------------------------------------
(* Memory for new chunks.                                                  *)

LEMMA FreeFinite ==
  ASSUME NEW m
  PROVE  IsFiniteSet(Free(m)) /\ Cardinality(Free(m)) \in Nat /\ Free(m) \in SUBSET Chunks
<1>1. MaxChunks \in Nat
  BY BoundsAssumption
<1>2. IsFiniteSet(Chunks)
  BY <1>1, FS_Interval DEF Chunks
<1>3. Free(m) \in SUBSET Chunks
  BY DEF Free
<1>4. IsFiniteSet(Free(m))
  BY <1>2, <1>3, FS_Subset
<1> QED  BY <1>3, <1>4, FS_CardinalityType

OneToOne(f, n) == \A i, j \in 1..n : f[i] = f[j] => i = j

LEMMA FreshFact ==
  ASSUME NEW m, NEW n \in Nat, n <= Cardinality(Free(m))
  PROVE  Fresh(m, n) \in [1..n -> Free(m)] /\ OneToOne(Fresh(m, n), n)
<1>1. PICK N \in Nat : N = Cardinality(Free(m))
  BY FreeFinite
<1>2. ExistsBijection(1..N, Free(m))
  BY <1>1, FreeFinite, FS_CardinalityType
<1>3. PICK g \in [1..N -> Free(m)] : \A i, j \in 1..N : g[i] = g[j] => i = j
  BY <1>2 DEF ExistsBijection, Bijection, Injection, IsInjective
<1>4. \A i \in 1..n : i \in 1..N
  BY <1>1
<1> DEFINE f == [i \in 1..n |-> g[i]]
<1>5. f \in [1..n -> Free(m)] /\ \A i, j \in 1..n : f[i] = f[j] => i = j
  BY <1>3, <1>4
<1>6. \E h \in [1..n -> Free(m)] : \A i, j \in 1..n : h[i] = h[j] => i = j
  BY <1>5
<1> QED  BY <1>6 DEF Fresh, OneToOne

LEMMA FreshOne ==
  ASSUME NEW m, 1 <= Cardinality(Free(m)), NEW c, c = Fresh(m, 1)[1]
  PROVE  c \in Chunks /\ m[c] = None
<1>1. Fresh(m, 1) \in [1..1 -> Free(m)]
  BY FreshFact
<1>2. Fresh(m, 1)[1] \in Free(m)
  BY <1>1
<1> QED  BY <1>2 DEF Free

-----------------------------------------------------------------------------
(* The map gets room for another chunk.                                    *)

\* The same elements at the same addresses.
SameSpots(map, A, map2, A2, n) == \A k \in 0..n : Spot(map2, A2 + k) = Spot(map, A + k)

\* Another map for the same deque.
Remapped(m, d, A, s, d2, ms2, A2) ==
  /\ Deq(m, d2, ms2, A2, s)
  /\ Owned(d2) = Owned(d)
  /\ SameSpots(d.map, A, d2.map, A2, Len(s))
  /\ Off(A2) = Off(A) /\ Off(A2 + Len(s)) = Off(A + Len(s))

LEMMA SameMap ==
  ASSUME NEW m, NEW d, NEW ms, NEW A, NEW s, Deq(m, d, ms, A, s)
  PROVE  Remapped(m, d, A, s, d, ms, A)
  BY DEF Remapped, SameSpots

LEMMA ReallocateDeq ==
  ASSUME NEW m, NEW d, NEW ms, NEW A, NEW s, Deq(m, d, ms, A, s), NEW front \in BOOLEAN
  PROVE  \E ms2, A2 : /\ Remapped(m, d, A, s, ReallocateMap(d, front), ms2, A2)
                      /\ IF front THEN Node(A2) >= 1 ELSE Node(A2 + Len(s)) + 1 < ms2
<1>1. /\ m \in Mems /\ A \in Nat /\ s \in Seq(Values)
      /\ d.start.node = Node(A) /\ d.start.off = Off(A)
      /\ d.finish.node = Node(A + Len(s)) /\ d.finish.off = Off(A + Len(s))
      /\ Owned(d) = In(d.map, Node(A), Node(A + Len(s)))
  BY DeqFact
<1>2. PICK n \in Nat : n = Len(s)
  BY <1>1
<1>3. PICK map, lo, hi : map = d.map /\ lo = Node(A) /\ hi = Node(A + n)
  OBVIOUS
<1>4. Table(map, ms, lo, hi) /\ Shows(m, map, lo, hi, A, s)
  BY <1>2, <1>3 DEF Deq, Room
<1>5. PICK map2, ms2, lo2, hi2 :
            /\ Moved(map, lo, hi, map2, ms2, lo2, hi2)
            /\ ReallocateMap(d, front) = Members(map2, It(lo2, d.start.off), It(hi2, d.finish.off))
            /\ IF front THEN lo2 >= 1 ELSE hi2 + 1 < ms2
  <2>1. Table(map, ms, lo, hi) /\ map = d.map /\ d.start.node = lo /\ d.finish.node = hi
    BY <1>1, <1>2, <1>3, <1>4
  <2> QED  BY <2>1, ReallocateFact
<1>18. PICK A2 \in Nat : Carried(m, map, lo, hi, A, s, map2, lo2, hi2, A2)
  <2>1. m \in Mems /\ A \in Nat /\ s \in Seq(Values) /\ Node(A) = lo
    BY <1>1, <1>3
  <2>2. Moved(map, lo, hi, map2, ms2, lo2, hi2)
    BY <1>5
  <2> QED  BY <1>4, <2>1, <2>2, MovedFact
<1>6. /\ Shows(m, map2, lo2, hi2, A2, s)
      /\ In(map2, lo2, hi2) = In(map, lo, hi)
      /\ \A k \in Nat : Node(A2 + k) = Node(A + k) - lo + lo2 /\ Off(A2 + k) = Off(A + k)
      /\ \A k \in Nat : Node(A + k) <= hi => Spot(map2, A2 + k) = Spot(map, A + k)
  BY <1>18 DEF Carried
<1>7. lo \in Nat /\ hi \in Nat /\ lo2 \in Nat /\ hi2 \in Nat /\ hi2 = lo2 + (hi - lo) /\ Table(map2, ms2, lo2, hi2)
  BY <1>4, <1>5 DEF Table, Moved
<1>8. Node(A2) = lo2 /\ Off(A2) = Off(A)
  <2>1. A + 0 = A /\ A2 + 0 = A2
    BY <1>1
  <2>2. Node(A2) = Node(A) - lo + lo2 /\ Off(A2) = Off(A)
    BY <1>6, <2>1
  <2> QED  BY <1>3, <1>7, <2>2
<1>9. Node(A2 + n) = hi2 /\ Off(A2 + n) = Off(A + n)
  <2>1. Node(A2 + n) = Node(A + n) - lo + lo2 /\ Off(A2 + n) = Off(A + n)
    BY <1>6
  <2> QED  BY <1>3, <1>7, <2>1
<1>10. PICK d2 : d2 = ReallocateMap(d, front)
  OBVIOUS
<1>11. d2 = Members(map2, At(A2), At(A2 + n))
  <2>1. It(lo2, d.start.off) = At(A2)
    BY <1>1, <1>8 DEF At
  <2>2. It(hi2, d.finish.off) = At(A2 + n)
    BY <1>1, <1>2, <1>9 DEF At
  <2> QED  BY <1>5, <1>10, <2>1, <2>2
<1>12. d2.map = map2
  BY <1>11, MembersFact
<1>13. Deq(m, d2, ms2, A2, s)
  BY <1>1, <1>2, <1>6, <1>7, <1>8, <1>9, <1>11, <1>12 DEF Deq, Room
<1>14. Owned(d2) = Owned(d)
  <2>1. Owned(d2) = In(d2.map, Node(A2), Node(A2 + Len(s)))
    BY <1>13, DeqFact
  <2> QED  BY <1>1, <1>2, <1>3, <1>6, <1>8, <1>9, <1>12, <2>1
<1>15. SameSpots(d.map, A, d2.map, A2, Len(s))
  <2>1. ASSUME NEW k \in 0..n  PROVE Spot(map2, A2 + k) = Spot(map, A + k)
    <3>1. k \in Nat /\ A + k \in A..(A + n)
      BY <1>1
    <3>2. Node(A + k) \in Node(A)..Node(A + n)
      BY <1>1, <3>1, SpanFact
    <3>3. Node(A + k) <= hi
      BY <1>3, <1>7, <3>2
    <3> QED  BY <1>6, <3>1, <3>3
  <2> QED  BY <1>2, <1>3, <1>12, <2>1 DEF SameSpots
<1>16. Remapped(m, d, A, s, d2, ms2, A2)
  BY <1>2, <1>8, <1>9, <1>13, <1>14, <1>15 DEF Remapped
<1> QED  BY <1>2, <1>5, <1>8, <1>9, <1>10, <1>16

LEMMA ReserveBackFact ==
  ASSUME NEW m, NEW d, NEW ms, NEW A, NEW s, Deq(m, d, ms, A, s)
  PROVE  \E ms2, A2 : Remapped(m, d, A, s, ReserveBack(d), ms2, A2) /\ Node(A2 + Len(s)) + 1 < ms2
<1>1. CASE 2 > MapSize(d) - d.finish.node
  <2>1. PICK ms2, A2 : Remapped(m, d, A, s, ReallocateMap(d, FALSE), ms2, A2) /\ Node(A2 + Len(s)) + 1 < ms2
    BY ReallocateDeq
  <2> QED  BY <1>1, <2>1 DEF ReserveBack
<1>2. CASE ~(2 > MapSize(d) - d.finish.node)
  <2>1. MapSize(d) = ms /\ ms \in Nat /\ d.finish.node = Node(A + Len(s)) /\ A + Len(s) \in Nat
    BY DeqFact
  <2>2. PICK h \in Nat : h = Node(A + Len(s))
    BY <2>1, PlaceFact
  <2>3. ~(2 > ms - h)
    BY <1>2, <2>1, <2>2
  <2>4. h + 1 < ms
    BY <2>1, <2>3
  <2> QED  BY <1>2, <2>2, <2>4, SameMap DEF ReserveBack
<1> QED  BY <1>1, <1>2

LEMMA ReserveFrontFact ==
  ASSUME NEW m, NEW d, NEW ms, NEW A, NEW s, Deq(m, d, ms, A, s)
  PROVE  \E ms2, A2 : Remapped(m, d, A, s, ReserveFront(d), ms2, A2) /\ Node(A2) >= 1
<1>1. CASE 1 > d.start.node
  <2>1. PICK ms2, A2 : Remapped(m, d, A, s, ReallocateMap(d, TRUE), ms2, A2) /\ Node(A2) >= 1
    BY ReallocateDeq
  <2> QED  BY <1>1, <2>1 DEF ReserveFront
<1>2. CASE ~(1 > d.start.node)
  <2>1. d.start.node = Node(A) /\ A \in Nat
    BY DeqFact
  <2>2. PICK h \in Nat : h = Node(A)
    BY <2>1, PlaceFact
  <2>3. h >= 1
    BY <1>2, <2>1, <2>2
  <2> QED  BY <1>2, <2>2, <2>3, SameMap DEF ReserveFront
<1> QED  BY <1>1, <1>2

-----------------------------------------------------------------------------
(* The pushes.                                                             *)

LEMMA StFact ==
  ASSUME NEW m, NEW d
  PROVE  St(m, d).m = m /\ St(m, d).d = d
  BY DEF St

LEMMA WithFact ==
  ASSUME NEW d, NEW map, NEW a, NEW b, d = Members(map, a, b), NEW x
  PROVE  /\ d.map = map /\ d.start = a /\ d.finish = b
         /\ WithMap(d, x) = Members(x, a, b)
         /\ WithStart(d, x) = Members(map, x, b)
         /\ WithFinish(d, x) = Members(map, a, x)
<1>1. d.map = map /\ d.start = a /\ d.finish = b
  BY MembersFact
<1> QED  BY <1>1 DEF WithMap, WithStart, WithFinish

\* A chunk more, at node i.
Added(m, d, ms, lo, hi, A, s, i, lo2, hi2, c) ==
  /\ c \in Chunks /\ m[c] = None
  /\ WithChunk(m, d, i) = St(Taken(m, c), WithMap(d, Linked(d.map, i, c)))
  /\ Room(Taken(m, c), WithMap(d, Linked(d.map, i, c)), ms, lo2, hi2, A, s)
  /\ WithMap(d, Linked(d.map, i, c)).map = Linked(d.map, i, c)
  /\ Change(m, In(d.map, lo, hi), Taken(m, c), In(Linked(d.map, i, c), lo2, hi2))
  /\ \A k \in lo..hi : Linked(d.map, i, c)[k] = d.map[k]

LEMMA WithChunkFact ==
  ASSUME NEW m, NEW d, NEW ms, NEW lo, NEW hi, NEW A, NEW s, Room(m, d, ms, lo, hi, A, s),
         NEW i \in 0..(ms - 1), NEW lo2 \in Nat, NEW hi2 \in Nat, Larger(lo, hi, i, lo2, hi2),
         RowOf(s, A, i) = EmptyChunk, 1 <= Cardinality(Free(m))
  PROVE  \E c : Added(m, d, ms, lo, hi, A, s, i, lo2, hi2, c)
<1>1. PICK c : c = Fresh(m, 1)[1]
  OBVIOUS
<1>2. c \in Chunks /\ m[c] = None
  BY <1>1, FreshOne
<1>3. PICK map : map = d.map
  OBVIOUS
<1>4. m \in Mems /\ A \in Nat /\ s \in Seq(Values) /\ Table(map, ms, lo, hi) /\ Shows(m, map, lo, hi, A, s)
  BY <1>3 DEF Room
<1>5. /\ Table(Linked(map, i, c), ms, lo2, hi2)
      /\ Shows(Taken(m, c), Linked(map, i, c), lo2, hi2, A, s)
      /\ Change(m, In(map, lo, hi), Taken(m, c), In(Linked(map, i, c), lo2, hi2))
      /\ \A k \in lo..hi : Linked(map, i, c)[k] = map[k]
      /\ Taken(m, c) \in Mems
  BY <1>2, <1>4, AddRow
<1>6. WithChunk(m, d, i) = St(Taken(m, c), WithMap(d, Linked(d.map, i, c)))
  BY <1>1 DEF WithChunk, Taken, Linked
<1>7. d = Members(d.map, At(A), At(A + Len(s)))
  BY DEF Room
<1>8. PICK d2 : d2 = WithMap(d, Linked(map, i, c))
  OBVIOUS
<1>9. d2 = Members(Linked(map, i, c), At(A), At(A + Len(s)))
  BY <1>7, <1>8, WithFact
<1>10. d2.map = Linked(map, i, c)
  BY <1>9, MembersFact
<1>11. Room(Taken(m, c), d2, ms, lo2, hi2, A, s)
  BY <1>4, <1>5, <1>9, <1>10 DEF Room
<1>12. Added(m, d, ms, lo, hi, A, s, i, lo2, hi2, c)
  BY <1>2, <1>3, <1>5, <1>6, <1>8, <1>10, <1>11 DEF Added
<1> QED  BY <1>12

LEMMA SpotsKept ==
  ASSUME NEW A \in Nat, NEW n \in Nat, NEW map, NEW map2, \A k \in Node(A)..Node(A + n) : map2[k] = map[k]
  PROVE  SameSpots(map, A, map2, A, n)
<1>1. ASSUME NEW k \in 0..n  PROVE Spot(map2, A + k) = Spot(map, A + k)
  <2>1. A + k \in A..(A + n)
    OBVIOUS
  <2>2. Node(A + k) \in Node(A)..Node(A + n)
    BY <2>1, SpanFact
  <2> QED  BY <2>2 DEF Spot
<1> QED  BY <1>1 DEF SameSpots

LEMMA SpotsTwice ==
  ASSUME NEW n \in Nat, NEW map, NEW A, NEW map2, NEW A2, NEW map3, NEW A3,
         SameSpots(map, A, map2, A2, n), SameSpots(map2, A2, map3, A3, n)
  PROVE  SameSpots(map, A, map3, A3, n)
  BY DEF SameSpots

LEMMA CellAppend ==
  ASSUME NEW s \in Seq(Values), NEW A \in Nat, NEW v \in Values
  PROVE  /\ Append(s, v) \in Seq(Values) /\ Len(Append(s, v)) = Len(s) + 1
         /\ Written(s, A, A + Len(s), v, Append(s, v), A)
<1>0. Append(s, v) \in Seq(Values)
  OBVIOUS
<1>1. PICK t \in Seq(Values) : t = Append(s, v)
  BY <1>0
<1>2. PICK n \in Nat : n = Len(s)
  OBVIOUS
<1>3. Len(t) = n + 1 /\ t[n + 1] = v /\ \A i \in 1..n : t[i] = s[i]
  <2>1. Len(Append(s, v)) = n + 1 /\ Append(s, v)[n + 1] = v
    BY <1>2
  <2>2. ASSUME NEW i \in 1..n  PROVE Append(s, v)[i] = s[i]
    BY <1>2
  <2> QED  BY <1>1, <2>1, <2>2
<1>4. ASSUME NEW q \in Nat  PROVE Cell(t, A, q) = IF q = A + n THEN v ELSE Cell(s, A, q)
  <2>1. CASE q = A + n
    <3>1. q \in A..(A + (n + 1) - 1) /\ q - A + 1 = n + 1
      BY <2>1
    <3> QED  BY <1>3, <2>1, <3>1 DEF Cell
  <2>2. CASE q \in A..(A + n - 1)
    <3>1. q \in A..(A + (n + 1) - 1) /\ q - A + 1 \in 1..n /\ q # A + n
      BY <2>2
    <3> QED  BY <1>2, <1>3, <2>2, <3>1 DEF Cell
  <2>3. CASE q # A + n /\ q \notin A..(A + n - 1)
    <3>1. q \notin A..(A + (n + 1) - 1)
      BY <2>3
    <3> QED  BY <1>2, <1>3, <2>3, <3>1 DEF Cell
  <2> QED  BY <2>1, <2>2, <2>3
<1> QED  BY <1>1, <1>2, <1>3, <1>4 DEF Written

\* The element is constructed behind the last one, where there is room.
LEMMA PushBackAt ==
  ASSUME NEW m, NEW d, NEW ms, NEW A, NEW s, NEW v \in Values,
         Room(m, d, ms, Node(A), Node(A + (Len(s) + 1)), A, s),
         NEW m2, m2 = Put(St(m, d), d.finish, v),
         NEW d2, d2 = WithFinish(d, Incremented(d.finish))
  PROVE  /\ Deq(m2, d2, ms, A, Append(s, v)) /\ d2.map = d.map
         /\ Change(m, In(d.map, Node(A), Node(A + (Len(s) + 1))), m2, Owned(d2))
<1>1. m \in Mems /\ A \in Nat /\ s \in Seq(Values)
  BY DEF Room
<1>2. PICK n \in Nat : n = Len(s)
  BY <1>1
<1>3. PICK map, lo, hi : map = d.map /\ lo = Node(A) /\ hi = Node(A + (n + 1))
  OBVIOUS
<1>4. Table(map, ms, lo, hi) /\ Shows(m, map, lo, hi, A, s) /\ d = Members(map, At(A), At(A + n))
  BY <1>2, <1>3 DEF Room
<1>5. PICK p \in Nat : p = A + n
  BY <1>1
<1>6. PICK t \in Seq(Values) : t = Append(s, v) /\ Len(t) = n + 1
  BY <1>1, <1>2, CellAppend
<1>7. Written(s, A, p, v, t, A)
  BY <1>1, <1>2, <1>5, <1>6, CellAppend
<1>8. Node(p) \in lo..hi
  <2>1. n + 1 \in Nat /\ p \in A..(A + (n + 1))
    BY <1>1, <1>5
  <2> QED  BY <1>1, <1>3, <2>1, SpanFact
<1>9. v \in Cells
  BY DEF Cells
<1>10. d.finish = At(p) /\ d2 = Members(map, At(A), Incremented(At(p)))
  BY <1>4, <1>5, WithFact
<1>11. /\ Shows(m2, map, lo, hi, A, t)
       /\ Change(m, In(map, lo, hi), m2, In(map, lo, hi))
       /\ m2 \in Mems
  <2>1. m2 = Put(St(m, d), At(p), v)
    BY <1>10
  <2>2. map = d.map
    BY <1>3
  <2>3. Table(map, ms, lo, hi) /\ Shows(m, map, lo, hi, A, s)
    BY <1>4
  <2>4. p \in Nat /\ t \in Seq(Values)
    OBVIOUS
  <2> QED  BY <1>1, <1>7, <1>8, <1>9, <2>1, <2>2, <2>3, <2>4, PutShows
<1>12. d2 = Members(map, At(A), At(A + (n + 1))) /\ d2.map = map
  <2>1. p + 1 = A + (n + 1)
    BY <1>1, <1>5
  <2>2. Incremented(At(p)) = At(p + 1)
    BY AtNext
  <2> QED  BY <1>10, <2>1, <2>2, MembersFact
<1>13. Deq(m2, d2, ms, A, t)
  BY <1>1, <1>3, <1>4, <1>6, <1>11, <1>12 DEF Deq, Room
<1>14. Owned(d2) = In(map, lo, hi)
  <2>1. Owned(d2) = In(d2.map, Node(A), Node(A + Len(t)))
    BY <1>13, DeqFact
  <2> QED  BY <1>3, <1>6, <1>12, <2>1
<1> QED  BY <1>2, <1>3, <1>6, <1>11, <1>12, <1>13, <1>14

\* The next place is in the same chunk, or the first of the next one.
LEMMA NodeNext ==
  ASSUME NEW p \in Nat
  PROVE  /\ Off(p) = ChunkElems - 1 => Node(p + 1) = Node(p) + 1 /\ Off(p + 1) = 0 /\ p + 1 = Row(Node(p) + 1)
         /\ Off(p) # ChunkElems - 1 => Node(p + 1) = Node(p) /\ Off(p + 1) = Off(p) + 1 /\ Off(p + 1) # 0
<1>1. PICK k \in Nat, j \in Nat : k = Node(p) /\ j = Off(p) /\ p = Row(k) + j
  BY PlaceFact
<1>2. At(p) = It(k, j) /\ Incremented(At(p)) = At(p + 1)
  BY <1>1, AtNext DEF At
<1>3. PICK q \in Nat : q = p + 1
  OBVIOUS
<1>4. At(q).node = Node(q) /\ At(q).off = Off(q)
  BY AtFact
<1>5. PICK c \in Nat : c = ChunkElems
  BY ChunkFact
<1>6. CASE j = c - 1
  <2>1. Incremented(It(k, j)) = It(k + 1, 0)
    BY <1>5, <1>6 DEF Incremented, It
  <2>2. It(k + 1, 0).node = k + 1 /\ It(k + 1, 0).off = 0
    BY DEF It
  <2>3. Node(q) = k + 1 /\ Off(q) = 0
    BY <1>2, <1>3, <1>4, <2>1, <2>2
  <2>4. q = Row(Node(q)) + Off(q) /\ Row(Node(q)) \in Nat
    BY PlaceFact, RowFact
  <2>5. q = Row(k + 1)
    BY <2>3, <2>4
  <2> QED  BY <1>1, <1>3, <1>5, <1>6, <2>3, <2>5
<1>7. CASE j # c - 1
  <2>1. Incremented(It(k, j)) = It(k, j + 1)
    BY <1>5, <1>7 DEF Incremented, It
  <2>2. It(k, j + 1).node = k /\ It(k, j + 1).off = j + 1
    BY DEF It
  <2>3. Node(q) = k /\ Off(q) = j + 1 /\ j + 1 # 0
    BY <1>2, <1>3, <1>4, <2>1, <2>2
  <2> QED  BY <1>1, <1>3, <1>5, <1>7, <2>3
<1> QED  BY <1>6, <1>7

LEMMA FreeSame ==
  ASSUME NEW m, NEW S, NEW m2, Change(m, S, m2, S)
  PROVE  Free(m2) = Free(m)
  BY DEF Change, Free

LEMMA FreeTaken ==
  ASSUME NEW m \in Mems, NEW c \in Chunks, m[c] = None
  PROVE  Cardinality(Free(Taken(m, c))) = Cardinality(Free(m)) - 1
<1>1. Free(Taken(m, c)) = Free(m) \ {c} /\ c \in Free(m)
  BY EmptyFact DEF Free, Taken, Mems
<1>2. PICK F : F = Free(m)
  OBVIOUS
<1>3. IsFiniteSet(F) /\ c \in F
  BY <1>1, <1>2, FreeFinite
<1>4. Cardinality(F \ {c}) = Cardinality(F) - 1
  BY <1>3, FS_RemoveElement
<1> QED  BY <1>1, <1>2, <1>4

\* push_back_aux before the element is constructed.
BackRoomed(m, d, A, s, m2, d2, ms2, A2, c) ==
  /\ BackRoom(St(m, d)) = St(m2, d2)
  /\ Room(m2, d2, ms2, Node(A2), Node(A2 + (Len(s) + 1)), A2, s)
  /\ Change(m, Owned(d), m2, In(d2.map, Node(A2), Node(A2 + (Len(s) + 1))))
  /\ SameSpots(d.map, A, d2.map, A2, Len(s))
  /\ Remapped(m, d, A, s, ReserveBack(d), ms2, A2)
  /\ c \in Chunks /\ m[c] = None /\ m2 = Taken(m, c)
  /\ LET e == ReserveBack(d)
         i == Node(A2 + Len(s)) + 1
     IN /\ d2 = WithMap(e, Linked(e.map, i, c)) /\ d2.map = Linked(e.map, i, c)
        /\ d2.finish.node + 1 = i /\ i \in 0..(ms2 - 1) /\ e.map[i] = None

LEMMA BackRoomFact ==
  ASSUME NEW m, NEW d, NEW ms, NEW A, NEW s, Deq(m, d, ms, A, s), AtChunkEnd(d), 1 <= Cardinality(Free(m))
  PROVE  \E m2, d2, ms2, A2, c : BackRoomed(m, d, A, s, m2, d2, ms2, A2, c)
<1>1. PICK e : e = ReserveBack(d)
  OBVIOUS
<1>2. PICK ms2, A2 : Remapped(m, d, A, s, e, ms2, A2) /\ Node(A2 + Len(s)) + 1 < ms2
  BY <1>1, ReserveBackFact
<1>3. Deq(m, e, ms2, A2, s) /\ Owned(e) = Owned(d) /\ SameSpots(d.map, A, e.map, A2, Len(s)) /\ Off(A2 + Len(s)) = Off(A + Len(s))
  BY <1>2 DEF Remapped
<1>4. /\ m \in Mems /\ A2 \in Nat /\ s \in Seq(Values) /\ ms2 \in Nat
      /\ e.finish.node = Node(A2 + Len(s))
      /\ Owned(e) = In(e.map, Node(A2), Node(A2 + Len(s)))
  BY <1>3, DeqFact
<1>5. PICK n \in Nat : n = Len(s)
  BY <1>4
<1>6. PICK p \in Nat : p = A2 + n
  BY <1>4
<1>7. Off(p) = ChunkElems - 1
  <2>1. d.finish.off = Off(A + Len(s))
    BY DeqFact
  <2> QED  BY <1>3, <1>5, <1>6, <2>1 DEF AtChunkEnd
<1>8. PICK h \in Nat : h = Node(p)
  BY PlaceFact
<1>9. PICK i \in Nat : i = h + 1 /\ Node(p + 1) = i /\ p + 1 = Row(i)
  BY <1>7, <1>8, NodeNext
<1>10. i \in 0..(ms2 - 1)
  BY <1>2, <1>4, <1>5, <1>6, <1>8, <1>9
<1>11. PICK lo \in Nat : lo = Node(A2)
  BY <1>4, PlaceFact
<1>12. Larger(lo, h, i, lo, i)
  BY <1>9 DEF Larger
<1>13. RowOf(s, A2, i) = EmptyChunk
  <2>1. A2 + Len(s) <= Row(i)
    <3>1. PICK r \in Nat : r = Row(i)
      BY RowFact
    <3>2. p <= r
      BY <1>9, <3>1
    <3> QED  BY <1>5, <1>6, <3>1, <3>2
  <2> QED  BY <1>4, <2>1, EmptyRow
<1>14. Room(m, e, ms2, lo, h, A2, s)
  BY <1>3, <1>5, <1>6, <1>8, <1>11 DEF Deq
<1>15. PICK c : Added(m, e, ms2, lo, h, A2, s, i, lo, i, c)
  BY <1>10, <1>12, <1>13, <1>14, WithChunkFact
<1>16. PICK m2, d2 : m2 = Taken(m, c) /\ d2 = WithMap(e, Linked(e.map, i, c))
  OBVIOUS
<1>17. /\ c \in Chunks /\ m[c] = None
       /\ WithChunk(m, e, i) = St(m2, d2)
       /\ Room(m2, d2, ms2, lo, i, A2, s)
       /\ d2.map = Linked(e.map, i, c)
       /\ Change(m, In(e.map, lo, h), m2, In(d2.map, lo, i))
       /\ \A k \in lo..h : d2.map[k] = e.map[k]
  BY <1>15, <1>16 DEF Added
<1>18. BackRoom(St(m, d)) = St(m2, d2)
  <2>1. BackRoom(St(m, d)) = WithChunk(m, e, e.finish.node + 1)
    BY <1>1, StFact DEF BackRoom
  <2> QED  BY <1>4, <1>5, <1>6, <1>8, <1>9, <1>17, <2>1
<1>19. i = Node(A2 + (n + 1))
  <2>1. p + 1 = A2 + (n + 1)
    BY <1>4, <1>6
  <2> QED  BY <1>9, <2>1
<1>20. SameSpots(d.map, A, d2.map, A2, n)
  <2>1. \A k \in Node(A2)..Node(A2 + n) : d2.map[k] = e.map[k]
    BY <1>6, <1>8, <1>11, <1>17
  <2>2. SameSpots(e.map, A2, d2.map, A2, n)
    BY <1>4, <2>1, SpotsKept
  <2>3. SameSpots(d.map, A, e.map, A2, n)
    BY <1>3, <1>5
  <2> QED  BY <2>2, <2>3, SpotsTwice
<1>21. d2.finish.node + 1 = i
  <2>1. d2.finish = At(p)
    <3>1. d2 = Members(d2.map, At(A2), At(A2 + Len(s)))
      BY <1>17 DEF Room
    <3> QED  BY <1>5, <1>6, <3>1, MembersFact
  <2> QED  BY <1>8, <1>9, <2>1, AtFact
<1>22. e.map[i] = None
  <2>1. Table(e.map, ms2, lo, h)
    BY <1>14 DEF Room
  <2>2. i \notin lo..h
    BY <1>9
  <2> QED  BY <1>10, <2>1, <2>2 DEF Table
<1>23. Change(m, Owned(d), m2, In(d2.map, lo, i))
  BY <1>3, <1>4, <1>5, <1>6, <1>8, <1>11, <1>17
<1>24. i = Node(A2 + Len(s)) + 1
  BY <1>5, <1>6, <1>8, <1>9
<1>25. BackRoomed(m, d, A, s, m2, d2, ms2, A2, c)
  BY <1>1, <1>2, <1>5, <1>10, <1>11, <1>16, <1>17, <1>18, <1>19, <1>20, <1>21, <1>22, <1>23, <1>24 DEF BackRoomed
<1> QED  BY <1>25

\* The element in its place, with the deque at its new state.
Stepped(m, d, m2, d2, ms2, A2, s2) ==
  /\ Deq(m2, d2, ms2, A2, s2)
  /\ Change(m, Owned(d), m2, Owned(d2))

PushedBackTo(m, d, A, s, v, m2, d2, ms2, A2) ==
  /\ PushedBack(St(m, d), v) = St(m2, d2)
  /\ Stepped(m, d, m2, d2, ms2, A2, Append(s, v))
  /\ SameSpots(d.map, A, d2.map, A2, Len(s))
  /\ Off(A2 + Len(s)) = Off(A + Len(s))
  /\ Cardinality(Free(m2)) = Cardinality(Free(m)) - (IF AtChunkEnd(d) THEN 1 ELSE 0)

LEMMA PushedBackFact ==
  ASSUME NEW m, NEW d, NEW ms, NEW A, NEW s, Deq(m, d, ms, A, s), NEW v \in Values,
         AtChunkEnd(d) => 1 <= Cardinality(Free(m))
  PROVE  \E m2, d2, ms2, A2 : PushedBackTo(m, d, A, s, v, m2, d2, ms2, A2)
<1>1. CASE AtChunkEnd(d)
  <2>1. PICK m1, d1, ms2, A2, c : BackRoomed(m, d, A, s, m1, d1, ms2, A2, c)
    BY <1>1, BackRoomFact
  <2>2. PICK m2, d2 : m2 = Put(St(m1, d1), d1.finish, v) /\ d2 = WithFinish(d1, Incremented(d1.finish))
    OBVIOUS
  <2>3. PushedBack(St(m, d), v) = St(m2, d2)
    <3>1. St(m, d).d = d /\ BackRoom(St(m, d)) = St(m1, d1) /\ St(m1, d1).d = d1
      BY <2>1, StFact DEF BackRoomed
    <3> QED  BY <1>1, <2>2, <3>1 DEF PushedBack
  <2>4. /\ Deq(m2, d2, ms2, A2, Append(s, v)) /\ d2.map = d1.map
        /\ Change(m1, In(d1.map, Node(A2), Node(A2 + (Len(s) + 1))), m2, Owned(d2))
    <3>1. Room(m1, d1, ms2, Node(A2), Node(A2 + (Len(s) + 1)), A2, s)
      BY <2>1 DEF BackRoomed
    <3> QED  BY <2>2, <3>1, PushBackAt
  <2>5. Change(m, Owned(d), m2, Owned(d2))
    <3>1. Change(m, Owned(d), m1, In(d1.map, Node(A2), Node(A2 + (Len(s) + 1))))
      BY <2>1 DEF BackRoomed
    <3> QED  BY <2>4, <3>1, ChangeTwice
  <2>6. SameSpots(d.map, A, d2.map, A2, Len(s)) /\ Off(A2 + Len(s)) = Off(A + Len(s))
    BY <2>1, <2>4 DEF BackRoomed, Remapped
  <2>7. Cardinality(Free(m2)) = Cardinality(Free(m)) - 1
    <3>1. c \in Chunks /\ m[c] = None /\ m1 = Taken(m, c) /\ m \in Mems
      BY <2>1 DEF BackRoomed, Change
    <3>2. Owned(d2) = In(d1.map, Node(A2), Node(A2 + (Len(s) + 1)))
      <4>1. PICK t : t = Append(s, v)
        OBVIOUS
      <4>2. Deq(m2, d2, ms2, A2, t)
        BY <2>4, <4>1
      <4>3. Owned(d2) = In(d2.map, Node(A2), Node(A2 + Len(t)))
        BY <4>2, DeqFact
      <4>4. s \in Seq(Values)
        BY DeqFact
      <4>5. Len(t) = Len(s) + 1
        BY <4>1, <4>4
      <4> QED  BY <2>4, <4>3, <4>5
    <3>3. Free(m2) = Free(m1)
      BY <2>4, <3>2, FreeSame
    <3> QED  BY <3>1, <3>3, FreeTaken
  <2> QED  BY <1>1, <2>3, <2>4, <2>5, <2>6, <2>7 DEF PushedBackTo, Stepped
<1>2. CASE ~AtChunkEnd(d)
  <2>1. /\ m \in Mems /\ A \in Nat /\ s \in Seq(Values) /\ d.finish.off = Off(A + Len(s))
        /\ Owned(d) = In(d.map, Node(A), Node(A + Len(s)))
    BY DeqFact
  <2>2. PICK n \in Nat : n = Len(s)
    BY <2>1
  <2>3. Node(A + (n + 1)) = Node(A + n)
    <3>1. PICK p \in Nat : p = A + n
      BY <2>1
    <3>2. Off(p) # ChunkElems - 1
      BY <1>2, <2>1, <2>2, <3>1 DEF AtChunkEnd
    <3>3. p + 1 = A + (n + 1)
      BY <2>1, <3>1
    <3>4. Node(p + 1) = Node(p)
      BY <3>2, NodeNext
    <3> QED  BY <3>1, <3>3, <3>4
  <2>4. Room(m, d, ms, Node(A), Node(A + (Len(s) + 1)), A, s)
    BY <2>2, <2>3 DEF Deq
  <2>5. PICK m2, d2 : m2 = Put(St(m, d), d.finish, v) /\ d2 = WithFinish(d, Incremented(d.finish))
    OBVIOUS
  <2>6. PushedBack(St(m, d), v) = St(m2, d2)
    <3>1. St(m, d).d = d
      BY StFact
    <3> QED  BY <1>2, <2>5, <3>1 DEF PushedBack
  <2>7. /\ Deq(m2, d2, ms, A, Append(s, v)) /\ d2.map = d.map
        /\ Change(m, In(d.map, Node(A), Node(A + (Len(s) + 1))), m2, Owned(d2))
    BY <2>4, <2>5, PushBackAt
  <2>8. Change(m, Owned(d), m2, Owned(d2))
    BY <2>1, <2>2, <2>3, <2>7
  <2>9. SameSpots(d.map, A, d2.map, A, Len(s))
    BY <2>7 DEF SameSpots
  <2>10. Cardinality(Free(m2)) = Cardinality(Free(m)) - 0
    <3>0. PICK t : t = Append(s, v)
      OBVIOUS
    <3>5. Deq(m2, d2, ms, A, t)
      BY <2>7, <3>0
    <3>1. Owned(d2) = In(d2.map, Node(A), Node(A + Len(t)))
      BY <3>5, DeqFact
    <3>2. Len(t) = n + 1
      BY <2>1, <2>2, <3>0
    <3>3. Owned(d2) = Owned(d)
      BY <2>1, <2>2, <2>3, <2>7, <3>1, <3>2
    <3>4. Free(m2) = Free(m)
      BY <2>8, <3>3, FreeSame
    <3> QED  BY <3>4, FreeFinite
  <2> QED  BY <1>2, <2>6, <2>7, <2>8, <2>9, <2>10 DEF PushedBackTo, Stepped
<1> QED  BY <1>1, <1>2

\* A push_back_aux that throws has only changed the map.
LEMMA BackThrownFact ==
  ASSUME NEW m, NEW d, NEW A, NEW s, NEW x, NEW d2, NEW ms2, NEW A2, NEW c,
         BackRoomed(m, d, A, s, x, d2, ms2, A2, c), NEW at, at = d2.finish.node + 1
  PROVE  /\ [x EXCEPT ![d2.map[at]] = None] = m
         /\ WithMap(d2, [d2.map EXCEPT ![at] = None]) = ReserveBack(d)
<1>1. PICK e, i : e = ReserveBack(d) /\ i = Node(A2 + Len(s)) + 1
  OBVIOUS
<1>2. /\ c \in Chunks /\ m[c] = None /\ x = Taken(m, c)
      /\ d2 = WithMap(e, Linked(e.map, i, c)) /\ d2.map = Linked(e.map, i, c)
      /\ d2.finish.node + 1 = i /\ i \in 0..(ms2 - 1) /\ e.map[i] = None
      /\ m \in Mems /\ Deq(m, e, ms2, A2, s)
  BY <1>1 DEF BackRoomed, Remapped, Change
<1>3. PICK map : map = e.map
  OBVIOUS
<1>4. map \in [0..(ms2 - 1) -> Chunks \cup {None}]
  BY <1>2, <1>3, DeqFact DEF Maps
<1>5. d2.map[at] = c
  BY <1>2, <1>3, <1>4 DEF Linked
<1>6. [x EXCEPT ![c] = None] = m
  BY <1>2 DEF Taken, Mems
<1>7. [Linked(map, i, c) EXCEPT ![i] = None] = map
  BY <1>2, <1>3, <1>4 DEF Linked
<1>8. [d2.map EXCEPT ![at] = None] = map
  BY <1>2, <1>3, <1>7
<1>9. WithMap(d2, map) = e
  <2>1. e = Members(map, At(A2), At(A2 + Len(s)))
    BY <1>2, <1>3 DEF Deq, Room
  <2>2. d2 = Members(d2.map, At(A2), At(A2 + Len(s)))
    BY <1>2, <2>1, WithFact
  <2> QED  BY <2>1, <2>2, WithFact
<1> QED  BY <1>1, <1>5, <1>6, <1>8, <1>9

\* A deque whose start_ is one place before its first element.
Opened(m, d, ms, P, s) ==
  /\ m \in Mems /\ P \in Nat /\ s \in Seq(Values)
  /\ Table(d.map, ms, Node(P), Node(P + (Len(s) + 1)))
  /\ Shows(m, d.map, Node(P), Node(P + (Len(s) + 1)), P + 1, s)
  /\ d = Members(d.map, At(P), At(P + (Len(s) + 1)))

LEMMA ShapeFact ==
  ASSUME NEW d, NEW ms, NEW P \in Nat, NEW Q \in Nat, d = Members(d.map, At(P), At(Q)),
         Table(d.map, ms, Node(P), Node(Q))
  PROVE  /\ ms \in Nat /\ ms >= 1 /\ MapSize(d) = ms
         /\ d.start = At(P) /\ d.finish = At(Q)
         /\ Nodes(d) = Node(P)..Node(Q)
         /\ Owned(d) = In(d.map, Node(P), Node(Q))
<1>1. ms \in Nat /\ ms >= 1 /\ d.map \in Maps(ms)
  BY DEF Table
<1>2. MapSize(d) = ms
  BY <1>1, MapSizeFact
<1>3. d.start = At(P) /\ d.finish = At(Q)
  BY MembersFact
<1>4. d.start.node = Node(P) /\ d.finish.node = Node(Q)
  BY <1>3, AtFact
<1>5. Nodes(d) = Node(P)..Node(Q)
  BY <1>1, <1>2, <1>4 DEF Nodes
<1> QED  BY <1>1, <1>2, <1>3, <1>5 DEF Owned, In

LEMMA CellCons ==
  ASSUME NEW s \in Seq(Values), NEW P \in Nat, NEW v \in Values
  PROVE  /\ <<v>> \o s \in Seq(Values) /\ Len(<<v>> \o s) = Len(s) + 1
         /\ Written(s, P + 1, P, v, <<v>> \o s, P)
<1>0. <<v>> \o s \in Seq(Values)
  OBVIOUS
<1>1. PICK t \in Seq(Values) : t = <<v>> \o s
  BY <1>0
<1>2. PICK n \in Nat : n = Len(s)
  OBVIOUS
<1>3. Len(t) = n + 1 /\ t[1] = v /\ \A i \in 1..n : t[i + 1] = s[i]
  <2>1. Len(<<v>> \o s) = n + 1 /\ (<<v>> \o s)[1] = v
    BY <1>2
  <2>2. ASSUME NEW i \in 1..n  PROVE (<<v>> \o s)[i + 1] = s[i]
    BY <1>2
  <2> QED  BY <1>1, <2>1, <2>2
<1>4. ASSUME NEW q \in Nat  PROVE Cell(t, P, q) = IF q = P THEN v ELSE Cell(s, P + 1, q)
  <2>1. CASE q = P
    <3>1. q \in P..(P + (n + 1) - 1) /\ q - P + 1 = 1
      BY <2>1
    <3> QED  BY <1>3, <2>1, <3>1 DEF Cell
  <2>2. CASE q \in (P + 1)..((P + 1) + n - 1)
    <3>1. q \in P..(P + (n + 1) - 1) /\ q # P
      BY <2>2
    <3>2. PICK i \in 1..n : i = q - (P + 1) + 1
      BY <2>2
    <3>3. q - P + 1 = i + 1
      BY <3>2
    <3>4. Cell(t, P, q) = t[i + 1]
      BY <1>3, <3>1, <3>3 DEF Cell
    <3>5. Cell(s, P + 1, q) = s[i]
      BY <1>2, <2>2, <3>2 DEF Cell
    <3> QED  BY <1>3, <3>1, <3>4, <3>5
  <2>3. CASE q # P /\ q \notin (P + 1)..((P + 1) + n - 1)
    <3>1. q \notin P..(P + (n + 1) - 1)
      BY <2>3
    <3> QED  BY <1>2, <1>3, <2>3, <3>1 DEF Cell
  <2> QED  BY <2>1, <2>2, <2>3
<1> QED  BY <1>1, <1>2, <1>3, <1>4 DEF Written

LEMMA PushFrontAt ==
  ASSUME NEW m, NEW d, NEW ms, NEW P, NEW s, NEW v \in Values, Opened(m, d, ms, P, s),
         NEW m2, m2 = Put(St(m, d), d.start, v)
  PROVE  Deq(m2, d, ms, P, <<v>> \o s) /\ Change(m, Owned(d), m2, Owned(d))
<1>1. m \in Mems /\ P \in Nat /\ s \in Seq(Values)
  BY DEF Opened
<1>2. PICK n \in Nat : n = Len(s)
  BY <1>1
<1>3. PICK map, lo, hi : map = d.map /\ lo = Node(P) /\ hi = Node(P + (n + 1))
  OBVIOUS
<1>4. Table(map, ms, lo, hi) /\ Shows(m, map, lo, hi, P + 1, s) /\ d = Members(map, At(P), At(P + (n + 1)))
  BY <1>2, <1>3 DEF Opened
<1>5. P + 1 \in Nat /\ P + (n + 1) \in Nat /\ n + 1 \in Nat /\ P \in P..(P + (n + 1))
  BY <1>1
<1>6. PICK t \in Seq(Values) : t = <<v>> \o s /\ Len(t) = n + 1 /\ Written(s, P + 1, P, v, t, P)
  BY <1>1, <1>2, CellCons
<1>7. Node(P) \in lo..hi
  BY <1>1, <1>3, <1>5, SpanFact
<1>8. d.start = At(P) /\ Owned(d) = In(map, lo, hi)
  <2>1. PICK Q \in Nat : Q = P + (n + 1)
    BY <1>5
  <2>2. d = Members(d.map, At(P), At(Q)) /\ Table(d.map, ms, Node(P), Node(Q))
    BY <1>3, <1>4, <2>1
  <2>3. d.start = At(P) /\ Owned(d) = In(d.map, Node(P), Node(Q))
    BY <1>1, <2>2, ShapeFact
  <2> QED  BY <1>3, <2>1, <2>3
<1>9. v \in Cells
  BY DEF Cells
<1>10. /\ Shows(m2, map, lo, hi, P, t)
       /\ Change(m, In(map, lo, hi), m2, In(map, lo, hi))
       /\ m2 \in Mems
  <2>1. m2 = Put(St(m, d), At(P), v)
    BY <1>8
  <2> QED  BY <1>1, <1>3, <1>4, <1>5, <1>6, <1>7, <1>9, <2>1, PutShows
<1>11. Deq(m2, d, ms, P, t)
  BY <1>1, <1>3, <1>4, <1>6, <1>10 DEF Deq, Room
<1> QED  BY <1>6, <1>8, <1>10, <1>11

\* The place before A.
LEMMA PlaceBefore ==
  ASSUME NEW A \in Nat, Off(A) # 0 \/ Node(A) >= 1
  PROVE  \E P \in Nat : /\ A = P + 1
                        /\ Off(A) = 0 => Node(A) = Node(P) + 1 /\ A = Row(Node(A))
                        /\ Off(A) # 0 => Node(A) = Node(P)
<1>1. A = Row(Node(A)) + Off(A) /\ Node(A) \in Nat /\ Off(A) \in Nat
  BY PlaceFact
<1>2. PICK k \in Nat, j \in Nat, r \in Nat : k = Node(A) /\ j = Off(A) /\ r = Row(k) /\ A = r + j
  BY <1>1, RowFact
<1>3. A >= 1
  <2>1. CASE j # 0
    BY <1>2, <2>1
  <2>2. CASE j = 0
    <3>1. k >= 1
      BY <1>2, <2>2
    <3>2. Row(0) = 0 /\ Row(0) + ChunkElems <= Row(k)
      BY <3>1, RowFact
    <3>3. ChunkElems <= r /\ ChunkElems \in Nat /\ ChunkElems >= 1
      BY <1>2, <3>2, ChunkFact
    <3> QED  BY <1>2, <3>3
  <2> QED  BY <2>1, <2>2
<1>4. PICK P \in Nat : A = P + 1
  <2>1. A - 1 \in Nat /\ A = (A - 1) + 1
    BY <1>3
  <2> QED  BY <2>1
<1>5. /\ Off(P) = ChunkElems - 1 => Node(A) = Node(P) + 1 /\ Off(A) = 0 /\ A = Row(Node(P) + 1)
      /\ Off(P) # ChunkElems - 1 => Node(A) = Node(P) /\ Off(A) # 0
  BY <1>4, NodeNext
<1> QED  BY <1>4, <1>5

\* push_front_aux before the element is constructed.
FrontRoomed(m, d, A, s, m2, d2, ms2, P) ==
  /\ FrontRoom(St(m, d)) = St(m2, d2)
  /\ Opened(m2, d2, ms2, P, s)
  /\ Change(m, Owned(d), m2, Owned(d2))
  /\ SameSpots(d.map, A, d2.map, P + 1, Len(s))

LEMMA FrontRoomFact ==
  ASSUME NEW m, NEW d, NEW ms, NEW A, NEW s, Deq(m, d, ms, A, s), AtChunkStart(d), 1 <= Cardinality(Free(m))
  PROVE  \E m2, d2, ms2, P : FrontRoomed(m, d, A, s, m2, d2, ms2, P)
<1>1. PICK e : e = ReserveFront(d)
  OBVIOUS
<1>2. PICK ms2, A2 : Remapped(m, d, A, s, e, ms2, A2) /\ Node(A2) >= 1
  BY <1>1, ReserveFrontFact
<1>3. Deq(m, e, ms2, A2, s) /\ Owned(e) = Owned(d) /\ SameSpots(d.map, A, e.map, A2, Len(s)) /\ Off(A2) = Off(A)
  BY <1>2 DEF Remapped
<1>4. /\ m \in Mems /\ A2 \in Nat /\ s \in Seq(Values) /\ ms2 \in Nat
      /\ e.start.node = Node(A2)
      /\ Owned(e) = In(e.map, Node(A2), Node(A2 + Len(s)))
  BY <1>3, DeqFact
<1>5. PICK n \in Nat : n = Len(s)
  BY <1>4
<1>6. Off(A2) = 0
  BY <1>3, DeqFact DEF AtChunkStart
<1>7. PICK P \in Nat : A2 = P + 1 /\ Node(A2) = Node(P) + 1 /\ A2 = Row(Node(A2))
  BY <1>2, <1>4, <1>6, PlaceBefore
<1>8. PICK lo \in Nat, hi \in Nat, i \in Nat : lo = Node(A2) /\ hi = Node(A2 + n) /\ i = Node(P) /\ lo = i + 1
  <2>1. A2 + n \in Nat
    BY <1>4
  <2>2. Node(A2) \in Nat /\ Node(A2 + n) \in Nat /\ Node(P) \in Nat
    BY <1>4, <2>1, PlaceFact
  <2> QED  BY <1>7, <2>2
<1>9. Room(m, e, ms2, lo, hi, A2, s) /\ Table(e.map, ms2, lo, hi)
  BY <1>3, <1>5, <1>8 DEF Deq, Room
<1>10. i \in 0..(ms2 - 1) /\ Larger(lo, hi, i, i, hi)
  <2>1. lo <= hi /\ hi < ms2
    BY <1>9 DEF Table
  <2> QED  BY <1>4, <1>8, <2>1 DEF Larger
<1>11. RowOf(s, A2, i) = EmptyChunk
  <2>1. Row(i) + ChunkElems <= A2
    <3>1. Row(i + 1) = Row(i) + ChunkElems
      BY RowFact
    <3>2. A2 = Row(i) + ChunkElems
      BY <1>7, <1>8, <3>1
    <3> QED  BY <1>4, <3>2
  <2> QED  BY <1>4, <2>1, EmptyRow
<1>12. PICK c : Added(m, e, ms2, lo, hi, A2, s, i, i, hi, c)
  BY <1>9, <1>10, <1>11, WithChunkFact
<1>13. PICK m2, d1 : m2 = Taken(m, c) /\ d1 = WithMap(e, Linked(e.map, i, c))
  OBVIOUS
<1>14. /\ WithChunk(m, e, i) = St(m2, d1)
       /\ Room(m2, d1, ms2, i, hi, A2, s)
       /\ d1.map = Linked(e.map, i, c)
       /\ Change(m, In(e.map, lo, hi), m2, In(d1.map, i, hi))
       /\ \A k \in lo..hi : d1.map[k] = e.map[k]
  BY <1>12, <1>13 DEF Added
<1>15. d1 = Members(d1.map, At(A2), At(A2 + n)) /\ d1.start = At(A2)
  <2>1. d1 = Members(d1.map, At(A2), At(A2 + n))
    BY <1>5, <1>14 DEF Room
  <2> QED  BY <2>1, MembersFact
<1>16. PICK d2 : d2 = WithStart(d1, Decremented(d1.start))
  OBVIOUS
<1>17. d2 = Members(d1.map, At(P), At(P + (n + 1))) /\ d2.map = d1.map
  <2>1. A2 + n = P + (n + 1)
    BY <1>7
  <2>2. Decremented(At(P + 1)) = At(P)
    BY AtNext
  <2>3. WithStart(d1, Decremented(d1.start)) = Members(d1.map, Decremented(d1.start), At(A2 + n))
    BY <1>15, WithFact
  <2>4. d2 = Members(d1.map, At(P), At(P + (n + 1)))
    BY <1>7, <1>15, <1>16, <2>1, <2>2, <2>3
  <2> QED  BY <2>4, MembersFact
<1>18. FrontRoom(St(m, d)) = St(m2, d2)
  <2>1. e.start.node - 1 = i
    BY <1>4, <1>8
  <2>2. PICK x : x = WithChunk(m, e, i)
    OBVIOUS
  <2>3. x.m = m2 /\ x.d = d1
    BY <1>14, <2>2, StFact
  <2>4. FrontRoom(St(m, d)) = St(x.m, WithStart(x.d, Decremented(x.d.start)))
    BY <1>1, <2>1, <2>2, StFact DEF FrontRoom
  <2> QED  BY <1>16, <2>3, <2>4
<1>19. hi = Node(P + (n + 1))
  <2>1. A2 + n = P + (n + 1)
    BY <1>7
  <2> QED  BY <1>8, <2>1
<1>20. Opened(m2, d2, ms2, P, s)
  <2>1. m2 \in Mems /\ Table(d1.map, ms2, i, hi) /\ Shows(m2, d1.map, i, hi, A2, s)
    BY <1>14 DEF Room
  <2> QED  BY <1>4, <1>5, <1>7, <1>8, <1>17, <1>19, <2>1 DEF Opened
<1>21. Owned(d2) = In(d1.map, i, hi)
  <2>1. Table(d2.map, ms2, Node(P), Node(P + (n + 1))) /\ d2 = Members(d2.map, At(P), At(P + (n + 1)))
    BY <1>5, <1>20 DEF Opened
  <2>2. P + (n + 1) \in Nat
    BY <1>5
  <2>3. Owned(d2) = In(d2.map, Node(P), Node(P + (n + 1)))
    BY <2>1, <2>2, ShapeFact
  <2> QED  BY <1>8, <1>17, <1>19, <2>3
<1>22. Change(m, Owned(d), m2, Owned(d2))
  BY <1>3, <1>4, <1>5, <1>8, <1>14, <1>21
<1>23. SameSpots(d.map, A, d2.map, P + 1, Len(s))
  <2>1. \A k \in Node(A2)..Node(A2 + n) : d2.map[k] = e.map[k]
    BY <1>8, <1>14, <1>17
  <2>2. SameSpots(e.map, A2, d2.map, A2, n)
    BY <1>4, <2>1, SpotsKept
  <2>3. SameSpots(d.map, A, e.map, A2, n)
    BY <1>3, <1>5
  <2>4. SameSpots(d.map, A, d2.map, A2, n)
    BY <2>2, <2>3, SpotsTwice
  <2> QED  BY <1>5, <1>7, <2>4
<1>24. FrontRoomed(m, d, A, s, m2, d2, ms2, P)
  BY <1>18, <1>20, <1>22, <1>23 DEF FrontRoomed
<1> QED  BY <1>24

PushedFrontTo(m, d, A, s, v, m2, d2, ms2, P) ==
  /\ PushedFront(St(m, d), v) = St(m2, d2)
  /\ P \in Nat
  /\ Stepped(m, d, m2, d2, ms2, P, <<v>> \o s)
  /\ SameSpots(d.map, A, d2.map, P + 1, Len(s))

LEMMA PushedFrontFact ==
  ASSUME NEW m, NEW d, NEW ms, NEW A, NEW s, Deq(m, d, ms, A, s), NEW v \in Values,
         AtChunkStart(d) => 1 <= Cardinality(Free(m))
  PROVE  \E m2, d2, ms2, P : PushedFrontTo(m, d, A, s, v, m2, d2, ms2, P)
<1>1. CASE AtChunkStart(d)
  <2>1. PICK m1, d2, ms2, P : FrontRoomed(m, d, A, s, m1, d2, ms2, P)
    BY <1>1, FrontRoomFact
  <2>2. PICK m2 : m2 = Put(St(m1, d2), d2.start, v)
    OBVIOUS
  <2>3. PushedFront(St(m, d), v) = St(m2, d2)
    <3>1. St(m, d).d = d /\ FrontRoom(St(m, d)) = St(m1, d2) /\ St(m1, d2).d = d2
      BY <2>1, StFact DEF FrontRoomed
    <3> QED  BY <1>1, <2>2, <3>1 DEF PushedFront
  <2>4. Opened(m1, d2, ms2, P, s) /\ P \in Nat
    BY <2>1 DEF FrontRoomed, Opened
  <2>5. Deq(m2, d2, ms2, P, <<v>> \o s) /\ Change(m1, Owned(d2), m2, Owned(d2))
    BY <2>2, <2>4, PushFrontAt
  <2>6. Change(m, Owned(d), m1, Owned(d2)) /\ SameSpots(d.map, A, d2.map, P + 1, Len(s))
    BY <2>1 DEF FrontRoomed
  <2>7. Change(m, Owned(d), m2, Owned(d2))
    BY <2>5, <2>6, ChangeTwice
  <2> QED  BY <2>3, <2>4, <2>5, <2>6, <2>7 DEF PushedFrontTo, Stepped
<1>2. CASE ~AtChunkStart(d)
  <2>1. /\ m \in Mems /\ A \in Nat /\ s \in Seq(Values) /\ d.start.off = Off(A) /\ d.start = At(A)
        /\ Owned(d) = In(d.map, Node(A), Node(A + Len(s)))
    BY DeqFact
  <2>2. PICK n \in Nat : n = Len(s)
    BY <2>1
  <2>3. PICK P \in Nat : A = P + 1 /\ Node(A) = Node(P)
    BY <1>2, <2>1, PlaceBefore DEF AtChunkStart
  <2>4. PICK d2 : d2 = WithStart(d, Decremented(d.start))
    OBVIOUS
  <2>5. A + n = P + (n + 1) /\ P + (n + 1) \in Nat
    BY <2>3
  <2>6. Table(d.map, ms, Node(A), Node(A + n)) /\ Shows(m, d.map, Node(A), Node(A + n), A, s) /\ d = Members(d.map, At(A), At(A + n))
    BY <2>2 DEF Deq, Room
  <2>7. d2 = Members(d.map, At(P), At(P + (n + 1))) /\ d2.map = d.map
    <3>1. Decremented(At(P + 1)) = At(P)
      BY AtNext
    <3>2. WithStart(d, Decremented(d.start)) = Members(d.map, Decremented(d.start), At(A + n))
      BY <2>6, WithFact
    <3>3. d2 = Members(d.map, At(P), At(P + (n + 1)))
      BY <2>1, <2>3, <2>4, <2>5, <3>1, <3>2
    <3> QED  BY <3>3, MembersFact
  <2>8. Opened(m, d2, ms, P, s)
    BY <2>1, <2>2, <2>3, <2>5, <2>6, <2>7 DEF Opened
  <2>9. PICK m2 : m2 = Put(St(m, d2), d2.start, v)
    OBVIOUS
  <2>10. PushedFront(St(m, d), v) = St(m2, d2)
    <3>1. St(m, d).d = d /\ St(m, d).m = m /\ St(m, d2).d = d2
      BY StFact
    <3> QED  BY <1>2, <2>4, <2>9, <3>1 DEF PushedFront
  <2>11. Deq(m2, d2, ms, P, <<v>> \o s) /\ Change(m, Owned(d2), m2, Owned(d2))
    BY <2>8, <2>9, PushFrontAt
  <2>12. Owned(d2) = Owned(d)
    <3>1. Owned(d2) = In(d2.map, Node(P), Node(P + (n + 1)))
      <4>1. PICK Q \in Nat : Q = P + (n + 1)
        BY <2>3
      <4>2. P \in Nat /\ d2 = Members(d2.map, At(P), At(Q)) /\ Table(d2.map, ms, Node(P), Node(Q))
        BY <2>3, <2>5, <2>6, <2>7, <4>1
      <4>3. Owned(d2) = In(d2.map, Node(P), Node(Q))
        BY <4>2, ShapeFact
      <4> QED  BY <4>1, <4>3
    <3> QED  BY <2>1, <2>2, <2>3, <2>5, <2>7, <3>1
  <2>13. SameSpots(d.map, A, d2.map, P + 1, Len(s))
    BY <2>3, <2>7 DEF SameSpots
  <2> QED  BY <2>10, <2>11, <2>12, <2>13 DEF PushedFrontTo, Stepped
<1> QED  BY <1>1, <1>2

-----------------------------------------------------------------------------
(* The pops.                                                               *)

\* t is s without its last, or its first, element.
IsFront(s, k, t) == t = SubSeq(s, 1, k)
IsTail(s, t) == t = Tail(s)

LEMMA CellFront ==
  ASSUME NEW s \in Seq(Values), NEW A \in Nat, NEW k \in Nat, Len(s) = k + 1, NEW t, IsFront(s, k, t)
  PROVE  t \in Seq(Values) /\ Len(t) = k /\ Written(s, A, A + k, Raw, t, A)
<1>1. t \in Seq(Values) /\ Len(t) = k
  BY DEF IsFront
<1>2. ASSUME NEW i \in 1..k  PROVE t[i] = s[i]
  BY DEF IsFront
<1>3. ASSUME NEW q \in Nat  PROVE Cell(t, A, q) = IF q = A + k THEN Raw ELSE Cell(s, A, q)
  <2>1. CASE q \in A..(A + k - 1)
    <3>1. q # A + k /\ q \in A..(A + (k + 1) - 1) /\ q - A + 1 \in 1..k
      BY <2>1
    <3> QED  BY <1>1, <1>2, <2>1, <3>1 DEF Cell
  <2>2. CASE q \notin A..(A + k - 1)
    <3>1. q # A + k => q \notin A..(A + (k + 1) - 1)
      BY <2>2
    <3> QED  BY <1>1, <2>2, <3>1 DEF Cell
  <2> QED  BY <2>1, <2>2
<1> QED  BY <1>1, <1>3 DEF Written

LEMMA CellTail ==
  ASSUME NEW s \in Seq(Values), NEW A \in Nat, NEW k \in Nat, Len(s) = k + 1, NEW t, IsTail(s, t)
  PROVE  t \in Seq(Values) /\ Len(t) = k /\ Written(s, A, A, Raw, t, A + 1)
<1>1. t \in Seq(Values) /\ Len(t) = k
  BY DEF IsTail
<1>2. ASSUME NEW i \in 1..k  PROVE t[i] = s[i + 1]
  BY DEF IsTail
<1>3. ASSUME NEW q \in Nat  PROVE Cell(t, A + 1, q) = IF q = A THEN Raw ELSE Cell(s, A, q)
  <2>1. CASE q \in (A + 1)..(A + 1 + k - 1)
    <3>1. q # A /\ q \in A..(A + (k + 1) - 1)
      BY <2>1
    <3>2. PICK i \in 1..k : i = q - (A + 1) + 1
      BY <2>1
    <3>3. q - A + 1 = i + 1
      BY <3>2
    <3>4. Cell(t, A + 1, q) = t[i]
      BY <1>1, <2>1, <3>2 DEF Cell
    <3>5. Cell(s, A, q) = s[i + 1]
      BY <3>1, <3>3 DEF Cell
    <3> QED  BY <1>2, <3>1, <3>4, <3>5
  <2>2. CASE q \notin (A + 1)..(A + 1 + k - 1)
    <3>1. q # A => q \notin A..(A + (k + 1) - 1)
      BY <2>2
    <3> QED  BY <1>1, <2>2, <3>1 DEF Cell
  <2> QED  BY <2>1, <2>2
<1> QED  BY <1>1, <1>3 DEF Written

\* The last element is destroyed, its chunk being the last.
LEMMA PopBackAt ==
  ASSUME NEW m, NEW d, NEW ms, NEW A, NEW s, NEW k \in Nat, Len(s) = k + 1,
         Room(m, d, ms, Node(A), Node(A + k), A, s),
         NEW m2, m2 = Destroy(St(m, d), At(A + k)),
         NEW d2, d2 = WithFinish(d, At(A + k)), NEW t, IsFront(s, k, t)
  PROVE  /\ Deq(m2, d2, ms, A, t) /\ d2.map = d.map
         /\ Change(m, In(d.map, Node(A), Node(A + k)), m2, Owned(d2))
<1>1. m \in Mems /\ A \in Nat /\ s \in Seq(Values)
  BY DEF Room
<1>2. PICK map, lo, hi, p : map = d.map /\ lo = Node(A) /\ hi = Node(A + k) /\ p = A + k
  OBVIOUS
<1>3. Table(map, ms, lo, hi) /\ Shows(m, map, lo, hi, A, s) /\ d = Members(map, At(A), At(A + Len(s)))
  BY <1>2 DEF Room
<1>4. t \in Seq(Values) /\ Len(t) = k /\ Written(s, A, p, Raw, t, A)
  BY <1>1, <1>2, CellFront
<1>5. p \in Nat /\ Node(p) \in lo..hi
  <2>1. A + k \in A..(A + k) /\ A + k \in Nat
    BY <1>1
  <2> QED  BY <1>1, <1>2, <2>1, SpanFact
<1>6. Raw \in Cells
  BY DEF Cells
<1>7. Shows(m2, map, lo, hi, A, t) /\ Change(m, In(map, lo, hi), m2, In(map, lo, hi)) /\ m2 \in Mems
  <2>1. m2 = Put(St(m, d), At(p), Raw)
    BY <1>2 DEF Destroy
  <2>2. map = d.map
    BY <1>2
  <2>3. t \in Seq(Values) /\ Written(s, A, p, Raw, t, A)
    BY <1>4
  <2>4. Table(map, ms, lo, hi) /\ Shows(m, map, lo, hi, A, s)
    BY <1>3
  <2> QED  BY <1>1, <1>5, <1>6, <2>1, <2>2, <2>3, <2>4, PutShows
<1>8. d2 = Members(map, At(A), At(A + k)) /\ d2.map = map
  <2>1. d2 = Members(map, At(A), At(A + k))
    BY <1>3, WithFact
  <2> QED  BY <2>1, MembersFact
<1>9. Deq(m2, d2, ms, A, t)
  BY <1>1, <1>2, <1>3, <1>4, <1>7, <1>8 DEF Deq, Room
<1>10. Owned(d2) = In(map, lo, hi)
  <2>1. Owned(d2) = In(d2.map, Node(A), Node(A + Len(t)))
    BY <1>9, DeqFact
  <2> QED  BY <1>2, <1>4, <1>8, <2>1
<1> QED  BY <1>2, <1>7, <1>8, <1>9, <1>10

PoppedBackTo(m, d, A, s, t, m2, d2, ms2) ==
  /\ PoppedBack(St(m, d)) = St(m2, d2)
  /\ Stepped(m, d, m2, d2, ms2, A, t)
  /\ SameSpots(d.map, A, d2.map, A, Len(t))

LEMMA PoppedBackFact ==
  ASSUME NEW m, NEW d, NEW ms, NEW A, NEW s, Deq(m, d, ms, A, s), NEW k \in Nat, Len(s) = k + 1,
         NEW t, IsFront(s, k, t)
  PROVE  \E m2, d2 : PoppedBackTo(m, d, A, s, t, m2, d2, ms)
<1>1. /\ m \in Mems /\ A \in Nat /\ s \in Seq(Values)
      /\ d.finish = At(A + Len(s)) /\ d.finish.node = Node(A + Len(s)) /\ d.finish.off = Off(A + Len(s))
      /\ Owned(d) = In(d.map, Node(A), Node(A + Len(s)))
      /\ Change(m, Owned(d), m, Owned(d))
  BY DeqFact
<1>2. PICK p \in Nat : p = A + k /\ A + Len(s) = p + 1
  BY <1>1
<1>3. Decremented(d.finish) = At(A + k)
  BY <1>1, <1>2, AtNext
<1>4. Room(m, d, ms, Node(A), Node(p + 1), A, s)
  BY <1>2 DEF Deq
<1>5. t \in Seq(Values) /\ Len(t) = k
  BY <1>1, CellFront
<1>6. \A j \in Node(A)..Node(A + k) : j \in Node(A)..Node(p + 1)
  <2>0. p + 1 \in Nat /\ p <= p + 1
    OBVIOUS
  <2>1. p + 1 \in Nat /\ p <= p + 1 /\ Node(p) \in Nat /\ Node(p + 1) \in Nat /\ Node(A) \in Nat
    BY <1>1, <2>0, PlaceFact
  <2>2. Node(p) <= Node(p + 1)
    BY <2>1, NodeOrder
  <2> QED  BY <1>2, <2>1, <2>2
<1>7. CASE d.finish.off # 0
  <2>1. Node(p + 1) = Node(A + k)
    BY <1>1, <1>2, <1>7, NodeNext
  <2>2. PICK m2, d2 : m2 = Destroy(St(m, d), At(A + k)) /\ d2 = WithFinish(d, At(A + k))
    OBVIOUS
  <2>3. Room(m, d, ms, Node(A), Node(A + k), A, s)
    BY <1>4, <2>1
  <2>4. Deq(m2, d2, ms, A, t) /\ d2.map = d.map /\ Change(m, In(d.map, Node(A), Node(A + k)), m2, Owned(d2))
    BY <2>2, <2>3, PopBackAt
  <2>5. PoppedBack(St(m, d)) = St(m2, d2)
    <3>1. St(m, d).d = d
      BY StFact
    <3> QED  BY <1>3, <1>7, <2>2, <3>1 DEF PoppedBack
  <2>6. SameSpots(d.map, A, d2.map, A, Len(t))
    BY <2>4 DEF SameSpots
  <2>7. Change(m, Owned(d), m2, Owned(d2))
    BY <1>1, <1>2, <2>1, <2>4
  <2> QED  BY <2>4, <2>5, <2>6, <2>7 DEF PoppedBackTo, Stepped
<1>8. CASE d.finish.off = 0
  <2>1. PICK lo \in Nat, h \in Nat, i \in Nat : lo = Node(A) /\ h = Node(p) /\ i = Node(p + 1) /\ i = h + 1 /\ p + 1 = Row(i) /\ lo <= h
    <3>1. Node(A) \in Nat /\ Node(p) \in Nat /\ A <= p
      BY <1>1, <1>2, PlaceFact
    <3>2. Node(A) <= Node(p)
      BY <1>1, <3>1, NodeOrder
    <3>3. Node(p + 1) = Node(p) + 1 /\ p + 1 = Row(Node(p) + 1)
      BY <1>1, <1>2, <1>8, NodeNext
    <3> QED  BY <3>1, <3>2, <3>3
  <2>2. PICK map : map = d.map
    OBVIOUS
  <2>3. Table(map, ms, lo, i) /\ Shows(m, map, lo, i, A, s) /\ d = Members(map, At(A), At(p + 1))
    BY <1>2, <1>4, <2>1, <2>2 DEF Room
  <2>4. Smaller(lo, i, i, lo, h)
    BY <2>1 DEF Smaller
  <2>5. RowOf(s, A, i) = EmptyChunk
    <3>1. A + Len(s) <= Row(i)
      BY <1>2, <2>1
    <3> QED  BY <1>1, <3>1, EmptyRow
  <2>6. PICK m1, map1 : m1 = Freed(m, map[i]) /\ map1 = Unlinked(map, i)
    OBVIOUS
  <2>7. /\ Table(map1, ms, lo, h)
        /\ Shows(m1, map1, lo, h, A, s)
        /\ Change(m, In(map, lo, i), m1, In(map1, lo, h))
        /\ \A j \in lo..h : map1[j] = map[j]
        /\ m1 \in Mems
    BY <1>1, <2>3, <2>4, <2>5, <2>6, RemoveRow
  <2>8. PICK d1 : d1 = WithMap(d, map1)
    OBVIOUS
  <2>9. d1 = Members(map1, At(A), At(p + 1)) /\ d1.map = map1
    <3>1. d1 = Members(map1, At(A), At(p + 1))
      BY <2>3, <2>8, WithFact
    <3> QED  BY <3>1, MembersFact
  <2>10. Room(m1, d1, ms, Node(A), Node(A + k), A, s)
    BY <1>1, <1>2, <2>1, <2>7, <2>9 DEF Room
  <2>11. PICK m2, d2 : m2 = Destroy(St(m1, d1), At(A + k)) /\ d2 = WithFinish(d1, At(A + k))
    OBVIOUS
  <2>12. Deq(m2, d2, ms, A, t) /\ d2.map = d1.map /\ Change(m1, In(d1.map, Node(A), Node(A + k)), m2, Owned(d2))
    BY <2>10, <2>11, PopBackAt
  <2>13. PoppedBack(St(m, d)) = St(m2, d2)
    <3>1. St(m, d).d = d /\ St(m, d).m = m /\ St(m1, d1).d = d1
      BY StFact
    <3>2. d.finish.node = i
      BY <1>1, <1>2, <2>1
    <3>3. WithoutChunk(m, d, i) = St(m1, d1)
      BY <2>2, <2>6, <2>8 DEF WithoutChunk, Unlinked, Freed
    <3> QED  BY <1>3, <1>8, <2>11, <3>1, <3>2, <3>3 DEF PoppedBack
  <2>14. SameSpots(d.map, A, d2.map, A, Len(t))
    <3>1. \A j \in Node(A)..Node(A + k) : d2.map[j] = d.map[j]
      BY <1>2, <2>1, <2>2, <2>7, <2>9, <2>12
    <3> QED  BY <1>1, <1>5, <3>1, SpotsKept
  <2>15. Change(m, Owned(d), m2, Owned(d2))
    <3>1. Change(m, Owned(d), m1, In(map1, lo, h))
      BY <1>1, <1>2, <2>1, <2>2, <2>7
    <3>2. Change(m1, In(map1, lo, h), m2, Owned(d2))
      BY <1>2, <2>1, <2>9, <2>12
    <3> QED  BY <3>1, <3>2, ChangeTwice
  <2> QED  BY <2>12, <2>13, <2>14, <2>15 DEF PoppedBackTo, Stepped
<1> QED  BY <1>7, <1>8

PoppedFrontTo(m, d, A, s, t, m2, d2, ms2) ==
  /\ PoppedFront(St(m, d)) = St(m2, d2)
  /\ Stepped(m, d, m2, d2, ms2, A + 1, t)
  /\ SameSpots(d.map, A + 1, d2.map, A + 1, Len(t))

LEMMA PoppedFrontFact ==
  ASSUME NEW m, NEW d, NEW ms, NEW A, NEW s, Deq(m, d, ms, A, s), NEW k \in Nat, Len(s) = k + 1,
         NEW t, IsTail(s, t)
  PROVE  \E m2, d2 : PoppedFrontTo(m, d, A, s, t, m2, d2, ms)
<1>1. /\ m \in Mems /\ A \in Nat /\ s \in Seq(Values)
      /\ d.start = At(A) /\ d.start.node = Node(A) /\ d.start.off = Off(A)
      /\ Owned(d) = In(d.map, Node(A), Node(A + Len(s)))
  BY DeqFact
<1>2. PICK B \in Nat : B = A + 1 /\ A + Len(s) = B + k
  BY <1>1
<1>3. t \in Seq(Values) /\ Len(t) = k /\ Written(s, A, A, Raw, t, B)
  BY <1>1, <1>2, CellTail
<1>4. PICK map, lo, hi : map = d.map /\ lo = Node(A) /\ hi = Node(B + k)
  OBVIOUS
<1>5. Table(map, ms, lo, hi) /\ Shows(m, map, lo, hi, A, s) /\ d = Members(map, At(A), At(B + k))
  BY <1>2, <1>4 DEF Deq, Room
<1>6. lo \in Nat /\ hi \in Nat /\ Node(B) \in Nat /\ Node(B) <= hi /\ B + k \in Nat /\ Node(A) \in lo..hi
  <2>1. B + k \in Nat /\ Node(B) \in Nat /\ Node(B + k) \in Nat /\ Node(B) <= Node(B + k)
    BY SpanFact
  <2>2. Node(A) \in Nat /\ lo <= hi
    BY <1>1, <1>5, PlaceFact DEF Table
  <2> QED  BY <1>4, <2>1, <2>2
<1>7. PICK m1 : m1 = Destroy(St(m, d), d.start)
  OBVIOUS
<1>8. Raw \in Cells
  BY DEF Cells
<1>9. Shows(m1, map, lo, hi, B, t) /\ Change(m, In(map, lo, hi), m1, In(map, lo, hi)) /\ m1 \in Mems
  <2>1. m1 = Put(St(m, d), At(A), Raw)
    BY <1>1, <1>7 DEF Destroy
  <2>2. map = d.map /\ Table(map, ms, lo, hi) /\ Shows(m, map, lo, hi, A, s)
    BY <1>4, <1>5
  <2>3. m \in Mems /\ A \in Nat /\ s \in Seq(Values) /\ Node(A) \in lo..hi
    BY <1>1, <1>6
  <2> QED  BY <1>3, <1>8, <2>1, <2>2, <2>3, PutShows
<1>10. Change(m, Owned(d), m1, In(map, lo, hi))
  BY <1>1, <1>2, <1>4, <1>9
<1>11. Incremented(At(A)) = At(B)
  BY <1>1, <1>2, AtNext
<1>12. CASE Off(A) = ChunkElems - 1
  <2>1. Node(B) = lo + 1 /\ B = Row(lo + 1)
    BY <1>1, <1>2, <1>4, <1>12, NodeNext
  <2>2. PICK lo2 \in Nat : lo2 = lo + 1
    BY <1>6
  <2>3. Smaller(lo, hi, lo, lo2, hi)
    BY <1>6, <2>1, <2>2 DEF Smaller
  <2>4. RowOf(t, B, lo) = EmptyChunk
    <3>1. Row(lo + 1) = Row(lo) + ChunkElems
      BY <1>6, RowFact
    <3>2. Row(lo) + ChunkElems = B
      BY <2>1, <3>1
    <3>3. Row(lo) + ChunkElems <= B
      BY <3>2
    <3> QED  BY <1>3, <1>6, <3>3, EmptyRow
  <2>5. PICK m2, map2 : m2 = Freed(m1, map[lo]) /\ map2 = Unlinked(map, lo)
    OBVIOUS
  <2>6. /\ Table(map2, ms, lo2, hi)
        /\ Shows(m2, map2, lo2, hi, B, t)
        /\ Change(m1, In(map, lo, hi), m2, In(map2, lo2, hi))
        /\ \A j \in lo2..hi : map2[j] = map[j]
        /\ m2 \in Mems
    BY <1>3, <1>5, <1>6, <1>9, <2>3, <2>4, <2>5, RemoveRow
  <2>7. PICK d1 : d1 = WithMap(d, map2)
    OBVIOUS
  <2>8. PICK d2 : d2 = WithStart(d1, Incremented(d1.start))
    OBVIOUS
  <2>9. d2 = Members(map2, At(B), At(B + k)) /\ d2.map = map2
    <3>1. d1 = Members(map2, At(A), At(B + k))
      BY <1>5, <2>7, WithFact
    <3>2. d1.start = At(A) /\ WithStart(d1, At(B)) = Members(map2, At(B), At(B + k))
      BY <3>1, WithFact
    <3>3. d2 = Members(map2, At(B), At(B + k))
      BY <1>11, <2>8, <3>2
    <3> QED  BY <3>3, MembersFact
  <2>10. PoppedFront(St(m, d)) = St(m2, d2)
    <3>1. St(m, d).d = d /\ St(m2, d1).d = d1 /\ St(m2, d1).m = m2
      BY StFact
    <3>2. WithoutChunk(m1, d, d.start.node) = St(m2, d1)
      BY <1>1, <1>4, <2>5, <2>7 DEF WithoutChunk, Unlinked, Freed
    <3> QED  BY <1>1, <1>7, <1>12, <2>8, <3>1, <3>2 DEF PoppedFront
  <2>11. Deq(m2, d2, ms, B, t)
    BY <1>3, <1>4, <2>1, <2>2, <2>6, <2>9 DEF Deq, Room
  <2>12. Owned(d2) = In(map2, lo2, hi)
    <3>1. Owned(d2) = In(d2.map, Node(B), Node(B + Len(t)))
      BY <2>11, DeqFact
    <3> QED  BY <1>3, <1>4, <2>1, <2>2, <2>9, <3>1
  <2>13. Change(m, Owned(d), m2, Owned(d2))
    BY <1>10, <2>6, <2>12, ChangeTwice
  <2>14. SameSpots(d.map, B, d2.map, B, Len(t))
    <3>1. \A j \in Node(B)..Node(B + k) : d2.map[j] = d.map[j]
      BY <1>4, <2>1, <2>2, <2>6, <2>9
    <3> QED  BY <1>3, <3>1, SpotsKept
  <2> QED  BY <1>2, <2>10, <2>11, <2>13, <2>14 DEF PoppedFrontTo, Stepped
<1>13. CASE Off(A) # ChunkElems - 1
  <2>1. Node(B) = lo
    BY <1>1, <1>2, <1>4, <1>13, NodeNext
  <2>2. PICK d2 : d2 = WithStart(d, Incremented(d.start))
    OBVIOUS
  <2>3. d2 = Members(map, At(B), At(B + k)) /\ d2.map = map
    <3>1. WithStart(d, At(B)) = Members(map, At(B), At(B + k))
      BY <1>5, WithFact
    <3>2. d2 = Members(map, At(B), At(B + k))
      BY <1>1, <1>11, <2>2, <3>1
    <3> QED  BY <3>2, MembersFact
  <2>4. PoppedFront(St(m, d)) = St(m1, d2)
    <3>1. St(m, d).d = d /\ St(m1, d).d = d /\ St(m1, d).m = m1
      BY StFact
    <3> QED  BY <1>1, <1>7, <1>13, <2>2, <3>1 DEF PoppedFront
  <2>5. Deq(m1, d2, ms, B, t)
    BY <1>3, <1>4, <1>5, <1>9, <2>1, <2>3 DEF Deq, Room
  <2>6. Owned(d2) = In(map, lo, hi)
    <3>1. Owned(d2) = In(d2.map, Node(B), Node(B + Len(t)))
      BY <2>5, DeqFact
    <3> QED  BY <1>3, <1>4, <2>1, <2>3, <3>1
  <2>7. SameSpots(d.map, B, d2.map, B, Len(t))
    BY <1>4, <2>3 DEF SameSpots
  <2> QED  BY <1>2, <1>10, <2>4, <2>5, <2>6, <2>7 DEF PoppedFrontTo, Stepped
<1> QED  BY <1>12, <1>13

-----------------------------------------------------------------------------
(* clear and teardown.                                                     *)

LEMMA PlaceParts ==
  ASSUME NEW p \in Nat, NEW c, c = ChunkElems
  PROVE  \E k \in Nat, f \in Nat, x \in Nat : k = Node(p) /\ f = Off(p) /\ x = Row(k) /\ p = x + f /\ f < c
<1>1. Node(p) \in Nat /\ Off(p) \in Nat /\ p = Row(Node(p)) + Off(p)
  BY PlaceFact
<1>2. Row(Node(p)) \in Nat
  BY <1>1, RowFact
<1>3. Off(p) \in Offsets
  BY PlaceFact
<1>4. Off(p) < c
  BY <1>3, ChunkFact DEF Offsets
<1> QED  BY <1>1, <1>2, <1>4

\* The offsets that clear and teardown visit in a chunk are its elements.
LEMMA EndsFact ==
  ASSUME NEW m, NEW d, NEW ms, NEW A, NEW s, Deq(m, d, ms, A, s),
         NEW i \in Node(A)..Node(A + Len(s)), NEW j \in Offsets
  PROVE  /\ Row(i) + j \in Nat
         /\ j \in Ends(d, i) <=> A <= Row(i) + j /\ Row(i) + j < A + Len(s)
<1>1. /\ A \in Nat /\ s \in Seq(Values)
      /\ d.start.node = Node(A) /\ d.start.off = Off(A)
      /\ d.finish.node = Node(A + Len(s)) /\ d.finish.off = Off(A + Len(s))
  BY DeqFact
<1>2. PICK B \in Nat : B = A + Len(s)
  BY <1>1
<1>7. PICK c \in Nat : c = ChunkElems
  BY ChunkFact
<1>3. PICK a \in Nat, f \in Nat, x \in Nat : a = Node(A) /\ f = Off(A) /\ x = Row(a) /\ A = x + f /\ f < c
  BY <1>1, <1>7, PlaceParts
<1>4. PICK b \in Nat, g \in Nat, y \in Nat : b = Node(B) /\ g = Off(B) /\ y = Row(b) /\ B = y + g /\ g < c
  BY <1>7, PlaceParts
<1>5. i \in Nat /\ a <= i /\ i <= b
  <2>1. i \in a..b
    BY <1>2, <1>3, <1>4
  <2> QED  BY <2>1
<1>6. PICK r \in Nat : r = Row(i)
  BY <1>5, RowFact
<1>8. j \in Nat /\ j < c
  BY <1>7 DEF Offsets
<1>9. (a < i => x + c <= r) /\ (i < b => r + c <= y)
  BY <1>3, <1>4, <1>5, <1>6, <1>7, RowFact
<1>10. j \in Ends(d, i) <=> (i = a => j >= f) /\ (i = b => j < g)
  BY <1>1, <1>2, <1>3, <1>4 DEF Ends
<1>11. (i = a => r = x) /\ (i = b => r = y)
  BY <1>3, <1>4, <1>6
<1>12. (i = a => j >= f) <=> A <= r + j
  <2>1. CASE i = a
    <3>1. PICK jj \in Nat : jj = j
      BY <1>8
    <3>2. jj >= f <=> x + f <= x + jj
      OBVIOUS
    <3> QED  BY <1>3, <1>11, <2>1, <3>1, <3>2
  <2>2. CASE a < i
    <3>1. x + c <= r /\ A < x + c
      BY <1>1, <1>3, <1>9, <2>2
    <3>2. A < r /\ i # a
      BY <1>1, <1>5, <2>2, <3>1
    <3> QED  BY <1>1, <1>8, <3>2
  <2> QED  BY <1>5, <2>1, <2>2
<1>13. (i = b => j < g) <=> r + j < B
  <2>1. CASE i = b
    <3>1. PICK jj \in Nat : jj = j
      BY <1>8
    <3>2. jj < g <=> y + jj < y + g
      OBVIOUS
    <3> QED  BY <1>4, <1>11, <2>1, <3>1, <3>2
  <2>2. CASE i < b
    <3>1. r + c <= y /\ y <= B
      BY <1>4, <1>9, <2>2
    <3>2. r + c <= B /\ i # b
      BY <1>5, <2>2, <3>1
    <3> QED  BY <1>8, <3>2
  <2> QED  BY <1>5, <2>1, <2>2
<1> QED  BY <1>2, <1>6, <1>8, <1>10, <1>12, <1>13

\* The heap with no element in the chunks S.
Emptied(m, S) == [c \in Chunks |-> IF c \in S THEN EmptyChunk ELSE m[c]]

LEMMA DestroyAllFact ==
  ASSUME NEW m, NEW d, NEW ms, NEW A, NEW s, Deq(m, d, ms, A, s)
  PROVE  DestroyAll(St(m, d)) = Emptied(m, Owned(d))
<1>1. PICK lo, hi : lo = Node(A) /\ hi = Node(A + Len(s))
  OBVIOUS
<1>2. m \in Mems /\ A \in Nat /\ s \in Seq(Values) /\ Nodes(d) = lo..hi /\ Owned(d) = In(d.map, lo, hi)
  BY <1>1, DeqFact
<1>3. Table(d.map, ms, lo, hi) /\ Shows(m, d.map, lo, hi, A, s)
  BY <1>1 DEF Deq, Room
<1> DEFINE One(c) == LET i == CHOOSE i \in Nodes(d) : d.map[i] = c
                     IN [j \in Offsets |-> IF j \in Ends(d, i) THEN Raw ELSE m[c][j]]
<1>4. ASSUME NEW c \in Chunks, c \in Owned(d)  PROVE One(c) = EmptyChunk
  <2>1. PICK i \in lo..hi : d.map[i] = c
    BY <1>2, <1>4 DEF In
  <2>2. (CHOOSE k \in Nodes(d) : d.map[k] = c) = i
    <3>1. \A k \in lo..hi : d.map[k] = c => k = i
      BY <1>3, <2>1 DEF Table
    <3> QED  BY <1>2, <2>1, <3>1
  <2>3. m[c] = RowOf(s, A, i)
    BY <1>3, <2>1 DEF Shows
  <2>4. ASSUME NEW j \in Offsets  PROVE (IF j \in Ends(d, i) THEN Raw ELSE m[c][j]) = Raw
    <3>1. PICK p \in Nat : p = Row(i) + j /\ (j \in Ends(d, i) <=> A <= p /\ p < A + Len(s))
      BY <1>1, EndsFact
    <3>2. m[c][j] = Cell(s, A, p)
      BY <2>3, <3>1 DEF RowOf
    <3>3. Cell(s, A, p) # Raw <=> A <= p /\ p < A + Len(s)
      BY <1>2, CellFact
    <3> QED  BY <3>1, <3>2, <3>3
  <2>5. One(c) = [j \in Offsets |-> IF j \in Ends(d, i) THEN Raw ELSE m[c][j]]
    BY <2>2
  <2> QED  BY <2>4, <2>5 DEF EmptyChunk
<1>5. DestroyAll(St(m, d)) = [c \in Chunks |-> IF c \in Owned(d) THEN One(c) ELSE m[c]]
  BY StFact DEF DestroyAll
<1> HIDE DEF One
<1> QED  BY <1>4, <1>5 DEF Emptied

LEMMA EmptiedFact ==
  ASSUME NEW m \in Mems, NEW S \in SUBSET Chunks, NEW T \in SUBSET S,
         NEW m2, m2 = FreeChunks(Emptied(m, S), T)
  PROVE  /\ m2 \in Mems
         /\ \A c \in Chunks : m2[c] = IF c \in T THEN None ELSE IF c \in S THEN EmptyChunk ELSE m[c]
<1>1. \A c \in Chunks : Emptied(m, S)[c] = IF c \in S THEN EmptyChunk ELSE m[c]
  BY DEF Emptied
<1>2. m2 = [c \in Chunks |-> IF c \in T /\ Emptied(m, S)[c] = EmptyChunk THEN None ELSE Emptied(m, S)[c]]
  BY DEF FreeChunks
<1>3. ASSUME NEW c \in Chunks  PROVE m2[c] = IF c \in T THEN None ELSE IF c \in S THEN EmptyChunk ELSE m[c]
  BY <1>1, <1>2
<1>4. DOMAIN m2 = Chunks /\ m2 = [c \in Chunks |-> m2[c]]
  BY <1>2
<1>5. \A c \in Chunks : m2[c] \in [Offsets -> Cells] \cup {None}
  BY <1>3, EmptyFact DEF Mems
<1>6. m2 \in Mems
  BY <1>4, <1>5 DEF Mems
<1> QED  BY <1>3, <1>6

LEMMA TeardownFact ==
  ASSUME NEW m, NEW d, NEW ms, NEW A, NEW s, Deq(m, d, ms, A, s), NEW m2, m2 = Teardown(St(m, d))
  PROVE  Change(m, Owned(d), m2, {})
<1>1. Change(m, Owned(d), m, Owned(d))
  BY DeqFact
<1>2. PICK S : S = Owned(d)
  OBVIOUS
<1>3. m \in Mems /\ S \in SUBSET Chunks /\ \A c \in S : m[c] # None
  BY <1>1, <1>2 DEF Change
<1>4. m2 = FreeChunks(Emptied(m, S), S)
  BY <1>2, DestroyAllFact, StFact DEF Teardown
<1>5. m2 \in Mems /\ \A c \in Chunks : m2[c] = IF c \in S THEN None ELSE IF c \in S THEN EmptyChunk ELSE m[c]
  BY <1>3, <1>4, EmptiedFact
<1> QED  BY <1>2, <1>3, <1>5 DEF Change

ClearedTo(m, d, m2, d2, ms2, A2) ==
  /\ Cleared(St(m, d)) = St(m2, d2)
  /\ A2 \in Nat
  /\ Stepped(m, d, m2, d2, ms2, A2, <<>>)

LEMMA ClearedFact ==
  ASSUME NEW m, NEW d, NEW ms, NEW A, NEW s, Deq(m, d, ms, A, s)
  PROVE  \E m2, d2, A2 : ClearedTo(m, d, m2, d2, ms, A2)
<1>1. PICK lo, hi, map : lo = Node(A) /\ hi = Node(A + Len(s)) /\ map = d.map
  OBVIOUS
<1>2. /\ m \in Mems /\ A \in Nat /\ s \in Seq(Values) /\ ms \in Nat /\ ms >= 1 /\ MapSize(d) = ms
      /\ d.start.node = lo /\ Owned(d) = In(map, lo, hi)
      /\ Change(m, Owned(d), m, Owned(d)) /\ map \in Maps(ms)
  BY <1>1, DeqFact
<1>3. Table(map, ms, lo, hi)
  BY <1>1 DEF Deq, Room
<1>4. lo \in Nat /\ hi \in Nat /\ lo <= hi /\ hi < ms /\ lo \in lo..hi /\ lo \in 0..(ms - 1)
  BY <1>3 DEF Table
<1>5. PICK c \in Chunks : c = map[lo] /\ c \in Owned(d) /\ c # None
  BY <1>2, <1>3, <1>4, TableFact, NoneAssumption DEF In
<1>6. PICK S : S = Owned(d)
  OBVIOUS
<1>7. PICK m2 : m2 = FreeChunks(Emptied(m, S), S \ {c})
  OBVIOUS
<1>8. S \in SUBSET Chunks /\ c \in S /\ \A e \in S : m[e] # None
  BY <1>2, <1>5, <1>6 DEF Change
<1>9. m2 \in Mems /\ \A e \in Chunks : m2[e] = IF e \in S \ {c} THEN None ELSE IF e \in S THEN EmptyChunk ELSE m[e]
  BY <1>2, <1>7, <1>8, EmptiedFact
<1>10. PICK map2 : map2 = OnlyChunk(d, lo)
  OBVIOUS
<1>11. map2 = [j \in 0..(ms - 1) |-> IF j = lo THEN map[j] ELSE None]
  BY <1>1, <1>2, <1>10 DEF OnlyChunk, Maps
<1>12. PICK A2 \in Nat : A2 = Row(lo) /\ Node(A2) = lo /\ Off(A2) = 0 /\ At(A2) = It(lo, 0)
  <2>1. 0 \in Offsets
    BY ChunkFact DEF Offsets
  <2>2. PICK r \in Nat : r = Row(lo) /\ r = Row(lo) + 0
    BY <1>4, RowFact
  <2>3. Node(r) = lo /\ Off(r) = 0
    BY <1>4, <2>1, <2>2, NodeUnique
  <2> QED  BY <2>2, <2>3 DEF At
<1>13. PICK d2 : d2 = Members(map2, It(lo, 0), It(lo, 0))
  OBVIOUS
<1>14. d2.map = map2
  BY <1>13, MembersFact
<1>15. Cleared(St(m, d)) = St(m2, d2)
  <2>1. St(m, d).d = d /\ DestroyAll(St(m, d)) = Emptied(m, S)
    BY <1>6, StFact, DestroyAllFact
  <2>2. ~(MapSize(d) = 0)
    BY <1>2
  <2> QED  BY <1>1, <1>2, <1>5, <1>6, <1>7, <1>10, <1>13, <2>1, <2>2 DEF Cleared
<1>16. Table(map2, ms, lo, lo) /\ map2[lo] = c
  <2>1. map2[lo] = c
    BY <1>4, <1>5, <1>11
  <2>2. \A j \in 0..(ms - 1) : map2[j] # None <=> j \in lo..lo
    BY <1>4, <1>5, <1>11
  <2>3. map2 \in Maps(ms)
    BY <1>2, <1>11 DEF Maps
  <2>4. \A j, k \in lo..lo : j = k
    BY <1>4
  <2> QED  BY <1>2, <1>4, <2>1, <2>2, <2>3, <2>4 DEF Table
<1>17. \A j \in lo..lo : j = lo
  BY <1>4
<1>18. PICK e \in Seq(Values) : e = <<>> /\ Len(e) = 0
  <2>1. <<>> \in Seq(Values) /\ Len(<<>>) = 0
    OBVIOUS
  <2> QED  BY <2>1
<1>19. Shows(m2, map2, lo, lo, A2, e)
  <2>1. RowOf(e, A2, lo) = EmptyChunk
    BY <1>4, <1>18, EmptyRow
  <2>2. m2[c] = EmptyChunk
    BY <1>8, <1>9
  <2> QED  BY <1>16, <1>17, <2>1, <2>2 DEF Shows
<1>20. A2 + Len(e) = A2
  BY <1>18
<1>21. Deq(m2, d2, ms, A2, e)
  BY <1>9, <1>12, <1>13, <1>14, <1>16, <1>19, <1>20 DEF Deq, Room
<1>22. Owned(d2) = {c}
  <2>1. Owned(d2) = In(map2, lo, lo)
    BY <1>12, <1>14, <1>20, <1>21, DeqFact
  <2> QED  BY <1>4, <1>16, <1>17, <2>1 DEF In
<1>23. Change(m, Owned(d), m2, Owned(d2))
  <2>1. PICK T : T = {c}
    OBVIOUS
  <2>2. /\ T \in SUBSET Chunks
        /\ \A x \in Chunks \ (S \cup T) : m2[x] = m[x]
        /\ \A x \in T : m2[x] # None
        /\ \A x \in S \ T : m2[x] = None
        /\ \A x \in T \ S : m[x] = None
    BY <1>8, <1>9, <2>1, EmptyFact
  <2> QED  BY <1>2, <1>6, <1>8, <1>9, <1>22, <2>1, <2>2 DEF Change
<1> QED  BY <1>12, <1>15, <1>18, <1>21, <1>23 DEF ClearedTo, Stepped

-----------------------------------------------------------------------------
(* What a deque shows.                                                     *)

Places(A, n) == [i \in 1..n |-> At(A + (i - 1))]

LEMMA PositionsFact ==
  ASSUME NEW d, NEW A \in Nat, NEW n \in Nat, MapSize(d) # 0, d.start = At(A), d.finish = At(A + n)
  PROVE  Size(d) = n /\ Positions(d) = Places(A, n)
<1>1. Size(d) = n
  <2>1. PICK B \in Nat : B = A + n
    OBVIOUS
  <2>2. Minus(At(B), At(A)) = B - A
    BY AtMinus
  <2> QED  BY <2>1, <2>2 DEF Size
<1> DEFINE G(k) == At(A + k)
           g == [k \in 0..n |-> G(k)]
           Run(f) == f = [k \in 0..n |-> IF k = 0 THEN d.start ELSE Incremented(f[k - 1])]
           at == CHOOSE f : Run(f)
<1>2. Positions(d) = [i \in 1..n |-> at[i - 1]]
  BY <1>1 DEF Positions
<1>3. G(0) = d.start
  OBVIOUS
<1>4. ASSUME NEW k \in 1..n  PROVE G(k) = Incremented(G(k - 1))
  <2>1. PICK p \in Nat : p = A + (k - 1) /\ A + k = p + 1
    OBVIOUS
  <2> QED  BY <2>1, AtNext
<1> HIDE DEF G
<1>5. Run(g)
  BY <1>3, <1>4
<1>6. Run(at)
  BY <1>5
<1> HIDE DEF at
<1>7. SameLoop(n, at, g)
  BY <1>3, <1>4, <1>6 DEF SameLoop
<1> HIDE DEF g
<1>8. \A k \in 0..n : at[k] = g[k]
  BY <1>7, LoopUnique
<1>9. ASSUME NEW i \in 1..n  PROVE at[i - 1] = At(A + (i - 1))
  <2>1. i - 1 \in 0..n
    OBVIOUS
  <2> QED  BY <1>8, <2>1 DEF g, G
<1> QED  BY <1>1, <1>2, <1>9 DEF Places

LEMMA ElementFact ==
  ASSUME NEW m, NEW d, NEW ms, NEW A, NEW s, Deq(m, d, ms, A, s), NEW i \in 1..Len(s)
  PROVE  Element(St(m, d), At(A + (i - 1))) = s[i]
<1>1. m \in Mems /\ A \in Nat /\ s \in Seq(Values)
  BY DeqFact
<1>2. PICK n \in Nat : n = Len(s)
  BY <1>1
<1>3. PICK p \in Nat : p = A + (i - 1) /\ p \in A..(A + n - 1) /\ p \in A..(A + n) /\ p - A + 1 = i
  BY <1>1, <1>2
<1>4. PICK k \in Nat, j \in Offsets : k = Node(p) /\ j = Off(p) /\ p = Row(k) + j
  BY PlaceFact
<1>5. k \in Node(A)..Node(A + n)
  BY <1>1, <1>3, <1>4, SpanFact
<1>6. m[d.map[k]] = RowOf(s, A, k)
  BY <1>2, <1>5 DEF Deq, Room, Shows
<1>7. m[d.map[k]][j] = Cell(s, A, p)
  BY <1>4, <1>6 DEF RowOf
<1>8. Cell(s, A, p) = s[i]
  BY <1>2, <1>3 DEF Cell
<1>9. At(p).node = k /\ At(p).off = j
  BY <1>4, AtFact
<1>10. PICK st, it : st = St(m, d) /\ it = At(p) /\ st.m = m /\ st.d = d
  BY StFact
<1>11. Element(st, it) = m[d.map[k]][j]
  BY <1>9, <1>10 DEF Element
<1> QED  BY <1>3, <1>7, <1>8, <1>10, <1>11

LEMMA ContentsFact ==
  ASSUME NEW m, NEW d, NEW ms, NEW A, NEW s, Deq(m, d, ms, A, s)
  PROVE  /\ Size(d) = Len(s)
         /\ Positions(d) = Places(A, Len(s))
         /\ Contents(St(m, d)) = s
<1>1. /\ A \in Nat /\ s \in Seq(Values) /\ ms \in Nat /\ ms >= 1 /\ MapSize(d) = ms
      /\ d.start = At(A) /\ d.finish = At(A + Len(s))
  BY DeqFact
<1>2. PICK n \in Nat : n = Len(s)
  BY <1>1
<1>3. MapSize(d) # 0
  BY <1>1
<1>4. Size(d) = n /\ Positions(d) = Places(A, n)
  BY <1>1, <1>2, <1>3, PositionsFact
<1>5. Contents(St(m, d)) = [i \in 1..n |-> Element(St(m, d), At(A + (i - 1)))]
  BY <1>4, StFact DEF Contents, Places
<1>6. ASSUME NEW i \in 1..n  PROVE Element(St(m, d), At(A + (i - 1))) = s[i]
  BY <1>2, ElementFact
<1>7. s = [i \in 1..n |-> s[i]]
  BY <1>1, <1>2
<1>8. Contents(St(m, d)) = s
  BY <1>5, <1>6, <1>7
<1> QED  BY <1>2, <1>4, <1>8

LEMMA NoMapFact ==
  ASSUME NEW m
  PROVE  /\ MapSize(NoMap) = 0 /\ Size(NoMap) = 0 /\ Nodes(NoMap) = {} /\ Owned(NoMap) = {}
         /\ Positions(NoMap) = <<>> /\ Contents(St(m, NoMap)) = <<>>
         /\ NoMap.start = NoMap.finish /\ NoMap.map = <<>>
<1>1. NoMap.map = <<>> /\ NoMap.start = NoMap.finish
  BY MembersFact DEF NoMap
<1>2. MapSize(NoMap) = 0
  <2>1. DOMAIN <<>> = {}
    OBVIOUS
  <2> QED  BY <1>1, <2>1, FS_EmptySet DEF MapSize
<1>3. Size(NoMap) = 0 /\ Nodes(NoMap) = {}
  BY <1>2 DEF Size, Nodes
<1>4. Owned(NoMap) = {}
  BY <1>3 DEF Owned
<1>5. Positions(NoMap) = <<>>
  <2> DEFINE at == CHOOSE f : f = [i \in 0..Size(NoMap) |-> IF i = 0 THEN NoMap.start ELSE Incremented(f[i - 1])]
  <2>1. Positions(NoMap) = [i \in 1..Size(NoMap) |-> at[i - 1]]
    BY DEF Positions
  <2> HIDE DEF at
  <2> QED  BY <1>3, <2>1
<1>6. Contents(St(m, NoMap)) = <<>>
  <2>1. Contents(St(m, NoMap)) = [i \in DOMAIN Positions(NoMap) |-> Element(St(m, NoMap), Positions(NoMap)[i])]
    BY StFact DEF Contents
  <2>2. DOMAIN Positions(NoMap) = 1..0
    BY <1>5
  <2> QED  BY <2>1, <2>2
<1> QED  BY <1>1, <1>2, <1>3, <1>4, <1>5, <1>6

-----------------------------------------------------------------------------
(* The constructors.                                                       *)

\* init_map: the heap and the map with num new chunks.
TakenAll(m, new, num) == [c \in Chunks |-> IF \E k \in 1..num : new[k] = c THEN EmptyChunk ELSE m[c]]
LinkedAll(ms, lo, num, new) == [i \in 0..(ms - 1) |-> IF i \in lo..(lo + num - 1) THEN new[i - lo + 1] ELSE None]

LEMMA LinkedAllFact ==
  ASSUME NEW m \in Mems, NEW ms \in Nat, NEW lo \in Nat, NEW h \in Nat, NEW num, num = h + 1, lo + num <= ms,
         NEW new \in [1..num -> Free(m)], OneToOne(new, num),
         NEW map, map = LinkedAll(ms, lo, num, new), NEW m2, m2 = TakenAll(m, new, num)
  PROVE  /\ Table(map, ms, lo, lo + h)
         /\ \A i \in lo..(lo + h) : m2[map[i]] = EmptyChunk
         /\ Change(m, {}, m2, In(map, lo, lo + h))
<1> DEFINE hi == lo + h
<1>1. \A k \in 1..num : new[k] \in Chunks /\ m[new[k]] = None
  BY DEF Free
<1>2. None \notin Chunks
  BY NoneAssumption
<1>3. hi \in Nat /\ lo <= hi /\ hi < ms /\ lo + num - 1 = hi
  OBVIOUS
<1>4. \A i \in lo..hi : i - lo + 1 \in 1..num /\ i \in 0..(ms - 1) /\ map[i] = new[i - lo + 1]
  BY <1>3 DEF LinkedAll
<1>5. \A i \in 0..(ms - 1) : i \notin lo..hi => map[i] = None
  BY <1>3 DEF LinkedAll
<1>6. DOMAIN map = 0..(ms - 1) /\ map = [i \in 0..(ms - 1) |-> map[i]]
  BY DEF LinkedAll
<1> HIDE DEF hi
<1>7. \A i \in lo..hi : map[i] \in Chunks /\ m[map[i]] = None
  BY <1>1, <1>4
<1>8. map \in Maps(ms)
  <2>1. \A i \in 0..(ms - 1) : map[i] \in Chunks \cup {None}
    BY <1>5, <1>7
  <2> QED  BY <2>1, <1>6 DEF Maps
<1>9. \A i, k \in lo..hi : map[i] = map[k] => i = k
  BY <1>3, <1>4 DEF OneToOne
<1>10. Table(map, ms, lo, hi)
  <2>1. \A i \in 0..(ms - 1) : map[i] # None <=> i \in lo..hi
    BY <1>2, <1>5, <1>7
  <2> QED  BY <2>1, <1>3, <1>8, <1>9 DEF Table
<1>11. \A c \in Chunks : m2[c] = IF \E k \in 1..num : new[k] = c THEN EmptyChunk ELSE m[c]
  BY DEF TakenAll
<1>12. \A i \in lo..hi : m2[map[i]] = EmptyChunk
  BY <1>4, <1>7, <1>11
<1>13. \A k \in 1..num : new[k] \in In(map, lo, hi)
  <2> SUFFICES ASSUME NEW k \in 1..num  PROVE new[k] \in In(map, lo, hi)
    OBVIOUS
  <2>1. k + lo - 1 \in lo..hi /\ (k + lo - 1) - lo + 1 = k
    BY <1>3
  <2>2. map[k + lo - 1] = new[k]
    BY <2>1, <1>4
  <2> QED  BY <2>1, <2>2 DEF In
<1>14. m2 \in Mems
  <2>1. \A c \in Chunks : m2[c] \in [Offsets -> Cells] \cup {None}
    BY <1>11, EmptyFact DEF Mems
  <2> HIDE DEF EmptyChunk
  <2> QED  BY <2>1 DEF TakenAll, Mems
<1>15. Change(m, {}, m2, In(map, lo, hi))
  <2>1. In(map, lo, hi) \in SUBSET Chunks
    BY <1>10, TableFact
  <2>2. \A c \in In(map, lo, hi) : m2[c] = EmptyChunk /\ m[c] = None
    BY <1>7, <1>12 DEF In
  <2>3. \A c \in Chunks \ In(map, lo, hi) : m2[c] = m[c]
    BY <1>11, <1>13
  <2>4. \A c \in In(map, lo, hi) : m2[c] # None
    BY <2>2, EmptyFact
  <2> QED  BY <2>1, <2>2, <2>3, <2>4, <1>14 DEF Change
<1> QED  BY <1>10, <1>12, <1>15 DEF hi

\* The deque that init_map leaves, with room for n elements.
Made(m, n, m2, d2, ms2, A2) ==
  /\ InitMap(m, n) = St(m2, d2)
  /\ m2 \in Mems /\ A2 \in Nat /\ Off(A2) = 0
  /\ Table(d2.map, ms2, Node(A2), Node(A2 + n))
  /\ d2 = Members(d2.map, At(A2), At(A2 + n))
  /\ Shows(m2, d2.map, Node(A2), Node(A2 + n), A2, <<>>)
  /\ Change(m, {}, m2, In(d2.map, Node(A2), Node(A2 + n)))
  /\ \E new \in [1..NumNodes(n) -> Free(m)] : m2 = TakenAll(m, new, NumNodes(n))

LEMMA InitMapFact ==
  ASSUME NEW m \in Mems, NEW n \in Nat, NumNodes(n) <= Cardinality(Free(m))
  PROVE  \E m2, d2, ms2, A2 : Made(m, n, m2, d2, ms2, A2)
<1>1. PICK h \in Nat : h = Node(n)
  BY PlaceFact
<1>2. PICK num \in Nat : num = h + 1
  OBVIOUS
<1>3. NumNodes(n) = num
  BY <1>1, <1>2 DEF NumNodes, Node
<1>4. PICK ms \in Nat : ms = (IF MinMap > num + 2 THEN MinMap ELSE num + 2) /\ ms >= num + 2
  BY SizeAssumption
<1>5. PICK lo \in Nat : lo = (ms - num) \div 2
  BY <1>4
<1>6. lo + num <= ms
  BY <1>4, <1>5
<1> DEFINE new == Fresh(m, num)
           map == LinkedAll(ms, lo, num, new)
           m2 == TakenAll(m, new, num)
           A == Row(lo)
           d2 == Members(map, At(A), At(A + n))
<1>7. new \in [1..num -> Free(m)] /\ OneToOne(new, num)
  BY <1>3, FreshFact
<1>8. A \in Nat /\ Node(A) = lo /\ Off(A) = 0 /\ It(lo, 0) = At(A)
  <2>3. A \in Nat
    BY RowFact
  <2>1. 0 \in Offsets /\ Row(lo) + 0 = Row(lo) /\ Row(lo) \in Nat
    <3>1. 0 \in Offsets
      BY ChunkFact DEF Offsets
    <3> QED  BY <3>1, <2>3
  <2>2. Node(Row(lo) + 0) = lo /\ Off(Row(lo) + 0) = 0
    BY <2>1, NodeUnique
  <2> QED  BY <2>1, <2>2, AtPlace
<1>9. A + n \in Nat /\ Node(A + n) = lo + h /\ Off(A + n) = Off(n) /\ It(lo + h, Off(n)) = At(A + n)
  <2>1. PICK x \in Nat : x = Row(h) /\ Off(n) \in Offsets /\ Off(n) \in Nat /\ n = x + Off(n)
    BY <1>1, PlaceFact, RowFact
  <2>2. PICK z \in Nat : z = Row(lo + h)
    BY RowFact
  <2>3. z = x + A
    <3>1. h - 0 + lo \in Nat /\ Row(h - 0 + lo) = Row(h) - Row(0) + Row(lo)
      BY RowShift
    <3>2. h - 0 + lo = lo + h
      OBVIOUS
    <3>3. Row(lo + h) = Row(h) - Row(0) + Row(lo)
      BY <3>1, <3>2
    <3> QED  BY <3>3, <2>1, <2>2, <1>8, RowFact
  <2> HIDE DEF A
  <2>4. A + n = z + Off(n) /\ A + n \in Nat
    BY <1>8, <2>1, <2>3
  <2>5. Node(z + Off(n)) = lo + h /\ Off(z + Off(n)) = Off(n)
    BY <2>1, <2>2, NodeUnique
  <2> QED  BY <2>1, <2>2, <2>4, <2>5, AtPlace
<1>10. InitMap(m, n) = St(m2, d2)
  <2>1. n % ChunkElems = Off(n) /\ lo + num - 1 = lo + h
    BY <1>2 DEF Off
  <2>2. InitMap(m, n) = St(TakenAll(m, Fresh(m, num), num), Members(LinkedAll(ms, lo, num, Fresh(m, num)), It(lo, 0), It(lo + num - 1, n % ChunkElems)))
    BY <1>3, <1>4, <1>5 DEF InitMap, TakenAll, LinkedAll
  <2> QED  BY <2>1, <2>2, <1>8, <1>9
<1> HIDE DEF new
<1>11. PICK mp : mp = map
  OBVIOUS
<1>12. PICK mm : mm = m2
  OBVIOUS
<1>13. /\ Table(mp, ms, lo, lo + h)
       /\ \A i \in lo..(lo + h) : mm[mp[i]] = EmptyChunk
       /\ Change(m, {}, mm, In(mp, lo, lo + h))
  BY <1>2, <1>6, <1>7, <1>11, <1>12, LinkedAllFact
<1>14. PICK e : e = d2 /\ e.map = mp /\ e = Members(mp, At(A), At(A + n))
  BY <1>11, MembersFact
<1> HIDE DEF A
<1>15. Shows(mm, mp, lo, lo + h, A, <<>>)
  <2>1. ASSUME NEW i \in lo..(lo + h)  PROVE RowOf(<<>>, A, i) = EmptyChunk
    <3>1. i \in Nat /\ <<>> \in Seq(Values) /\ Len(<<>>) = 0
      OBVIOUS
    <3> QED  BY <3>1, <1>8, EmptyRow
  <2> QED  BY <2>1, <1>13 DEF Shows
<1>16. mm \in Mems
  BY <1>13 DEF Change
<1>17. Made(m, n, mm, e, ms, A)
  <2>1. InitMap(m, n) = St(mm, e)
    BY <1>10, <1>12, <1>14
  <2>2. \E f \in [1..NumNodes(n) -> Free(m)] : mm = TakenAll(m, f, NumNodes(n))
    BY <1>3, <1>7, <1>12
  <2> QED  BY <2>1, <2>2, <1>8, <1>9, <1>13, <1>14, <1>15, <1>16 DEF Made
<1> QED  BY <1>17

\* A deque without elements, in one chunk.
LEMMA InitEmptyFact ==
  ASSUME NEW m \in Mems, 1 <= Cardinality(Free(m))
  PROVE  \E m2, d2, ms2, A2 : /\ InitMap(m, 0) = St(m2, d2) /\ A2 \in Nat /\ Off(A2) = 0
                              /\ Deq(m2, d2, ms2, A2, <<>>)
                              /\ Change(m, {}, m2, Owned(d2))
                              /\ Cardinality(Free(m2)) = Cardinality(Free(m)) - 1
<1>1. NumNodes(0) = 1
  BY ChunkFact DEF NumNodes
<1>2. PICK m2, d2, ms2, A2 : Made(m, 0, m2, d2, ms2, A2)
  BY <1>1, InitMapFact
<1>3. A2 + 0 = A2 /\ A2 \in Nat /\ Len(<<>>) = 0 /\ <<>> \in Seq(Values)
  BY <1>2 DEF Made
<1>4. Deq(m2, d2, ms2, A2, <<>>)
  BY <1>2, <1>3 DEF Made, Deq, Room
<1>5. Change(m, {}, m2, Owned(d2))
  BY <1>2, <1>3, <1>4, DeqFact DEF Made
<1>6. PICK new \in [1..1 -> Free(m)] : m2 = TakenAll(m, new, 1)
  BY <1>1, <1>2 DEF Made
<1>7. PICK c \in Chunks : c = new[1] /\ m[c] = None
  BY <1>6 DEF Free
<1>8. m2 = Taken(m, c)
  <2>1. \A x \in Chunks : (\E k \in 1..1 : new[k] = x) <=> x = c
    BY <1>7
  <2> HIDE DEF EmptyChunk
  <2> QED  BY <1>6, <2>1 DEF TakenAll, Taken, Mems
<1>9. Cardinality(Free(m2)) = Cardinality(Free(m)) - 1
  BY <1>7, <1>8, FreeTaken
<1> QED  BY <1>2, <1>4, <1>5, <1>9 DEF Made

\* The first k elements of a sequence, and one more.
LEMMA FrontFact ==
  ASSUME NEW s \in Seq(Values), NEW k \in 0..Len(s), NEW t, IsFront(s, k, t)
  PROVE  t \in Seq(Values) /\ Len(t) = k /\ (\A i \in 1..k : t[i] = s[i]) /\ (k = Len(s) => t = s)
<1>1. t \in Seq(Values) /\ Len(t) = k
  BY DEF IsFront
<1>2. \A i \in 1..k : t[i] = s[i]
  BY DEF IsFront
<1>3. k = Len(s) => t = s
  BY <1>1, <1>2
<1> QED  BY <1>1, <1>2, <1>3

LEMMA CellNext ==
  ASSUME NEW s \in Seq(Values), NEW A \in Nat, NEW k \in 1..Len(s), NEW t, IsFront(s, k - 1, t), NEW t2, IsFront(s, k, t2)
  PROVE  Written(t, A, A + (k - 1), s[k], t2, A)
<1>0. Len(s) \in Nat
  OBVIOUS
<1>1. t \in Seq(Values) /\ Len(t) = k - 1 /\ (\A i \in 1..(k - 1) : t[i] = s[i])
  <2>1. k - 1 \in 0..Len(s)
    BY <1>0
  <2> QED  BY <2>1, FrontFact
<1>2. t2 \in Seq(Values) /\ Len(t2) = k /\ (\A i \in 1..k : t2[i] = s[i])
  <2>1. k \in 0..Len(s)
    BY <1>0
  <2> QED  BY <2>1, FrontFact
<1>3. ASSUME NEW q \in Nat  PROVE Cell(t2, A, q) = IF q = A + (k - 1) THEN s[k] ELSE Cell(t, A, q)
  <2>1. CASE q \in A..(A + k - 1)
    <3>1. PICK i \in 1..k : i = q - A + 1
      BY <2>1
    <3>2. Cell(t2, A, q) = s[i]
      BY <2>1, <3>1, <1>2 DEF Cell
    <3>3. CASE q = A + (k - 1)
      <4>1. i = k
        BY <3>1, <3>3
      <4> QED  BY <3>2, <3>3, <4>1
    <3>4. CASE q # A + (k - 1)
      <4>1. i \in 1..(k - 1) /\ q \in A..(A + (k - 1) - 1)
        BY <2>1, <3>1, <3>4
      <4>2. Cell(t, A, q) = s[i]
        BY <1>1, <3>1, <4>1 DEF Cell
      <4> QED  BY <3>2, <3>4, <4>2
    <3> QED  BY <3>3, <3>4
  <2>2. CASE q \notin A..(A + k - 1)
    <3>1. q # A + (k - 1) /\ q \notin A..(A + (k - 1) - 1)
      BY <2>2
    <3> QED  BY <1>1, <1>2, <2>2, <3>1 DEF Cell
  <2> QED  BY <2>1, <2>2
<1> QED  BY <1>3 DEF Written

\* The heap while the first k elements of s are constructed.
Filling(m, map, lo, hi, A, s, k, mm) ==
  /\ mm \in Mems
  /\ \E t : IsFront(s, k, t) /\ Shows(mm, map, lo, hi, A, t)
  /\ Change(m, {}, mm, In(map, lo, hi))

\* A new deque with the contents s.
MadeOf(m, s, m2, d2, ms2, A2) == Deq(m2, d2, ms2, A2, s) /\ Change(m, {}, m2, Owned(d2))

LEMMA FilledFact ==
  ASSUME NEW m \in Mems, NEW s \in Seq(Values), NumNodes(Len(s)) <= Cardinality(Free(m))
  PROVE  \E m2, d2, ms2, A2 : Filled(m, s) = St(m2, d2) /\ MadeOf(m, s, m2, d2, ms2, A2)
<1>1. PICK n \in Nat : n = Len(s)
  OBVIOUS
<1>2. PICK m1, d, ms, A : Made(m, n, m1, d, ms, A)
  BY <1>1, InitMapFact
<1>3. A \in Nat /\ A + n \in Nat /\ m1 \in Mems
  BY <1>2 DEF Made
<1>4. PICK map, lo, hi : map = d.map /\ lo = Node(A) /\ hi = Node(A + n)
  OBVIOUS
<1>5. /\ Table(map, ms, lo, hi) /\ d = Members(map, At(A), At(A + n))
      /\ Shows(m1, map, lo, hi, A, <<>>) /\ Change(m, {}, m1, In(map, lo, hi))
  BY <1>2, <1>4 DEF Made
<1>6. MapSize(d) # 0 /\ d.start = At(A) /\ d.finish = At(A + n)
  <2>1. ms \in Nat /\ ms >= 1 /\ MapSize(d) = ms /\ d.start = At(A) /\ d.finish = At(A + n)
    BY <1>3, <1>4, <1>5, ShapeFact
  <2> QED  BY <2>1
<1>7. Positions(d) = Places(A, n)
  BY <1>3, <1>6, PositionsFact
<1> DEFINE Turn(x, k) == Put(St(x, d), Places(A, n)[k], s[k])
           Step == [k \in 1..n |-> [x \in Mems |-> Turn(x, k)]]
           V == [k \in 0..n |-> {x \in Mems : Filling(m, map, lo, hi, A, s, k, x)}]
           Run(f) == f = [k \in 0..n |-> IF k = 0 THEN m1 ELSE Turn(f[k - 1], k)]
           after == CHOOSE f : Run(f)
<1>8. Filled(m, s) = St(after[n], d)
  <2>1. InitMap(m, n) = St(m1, d)
    BY <1>2 DEF Made
  <2>2. InitMap(m, Len(s)).m = m1 /\ InitMap(m, Len(s)).d = d
    BY <1>1, <2>1, StFact
  <2> QED  BY <1>1, <1>7, <2>2 DEF Filled
<1>9. m1 \in V[0]
  <2>1. IsFront(s, 0, <<>>)
    BY DEF IsFront
  <2> QED  BY <2>1, <1>3, <1>5 DEF Filling
<1>10. ASSUME NEW k \in 1..n, NEW x \in Mems, Filling(m, map, lo, hi, A, s, k - 1, x)
       PROVE  Turn(x, k) \in Mems /\ Filling(m, map, lo, hi, A, s, k, Turn(x, k))
  <2>1. PICK t : IsFront(s, k - 1, t) /\ Shows(x, map, lo, hi, A, t)
    BY <1>10 DEF Filling
  <2>2. PICK t2 : IsFront(s, k, t2)
    BY DEF IsFront
  <2>3. k \in 1..Len(s) /\ k - 1 \in 0..Len(s) /\ k \in 0..Len(s) /\ s[k] \in Values
    BY <1>1
  <2>4. t \in Seq(Values) /\ t2 \in Seq(Values)
    BY <2>1, <2>2, <2>3, FrontFact
  <2>5. PICK p \in Nat : p = A + (k - 1) /\ p \in A..(A + n)
    BY <1>3
  <2>6. Node(p) \in lo..hi
    BY <1>3, <1>4, <2>5, SpanFact
  <2>7. Written(t, A, p, s[k], t2, A)
    BY <1>3, <2>1, <2>2, <2>3, <2>5, CellNext
  <2>8. PICK v \in Values : v = s[k]
    BY <2>3
  <2>9. v \in Cells
    BY DEF Cells
  <2>10. PICK m2 : m2 = Turn(x, k)
    OBVIOUS
  <2>11. m2 = Put(St(x, d), At(p), v)
    BY <2>5, <2>8, <2>10 DEF Places
  <2>12. Shows(m2, map, lo, hi, A, t2) /\ Change(x, In(map, lo, hi), m2, In(map, lo, hi)) /\ m2 \in Mems
    BY <1>3, <1>4, <1>5, <2>1, <2>4, <2>6, <2>7, <2>8, <2>9, <2>11, PutShows
  <2>13. Change(m, {}, x, In(map, lo, hi))
    BY <1>10 DEF Filling
  <2>14. Change(m, {}, m2, In(map, lo, hi))
    BY <2>12, <2>13, ChangeTwice
  <2>15. Filling(m, map, lo, hi, A, s, k, m2)
    BY <2>2, <2>12, <2>14 DEF Filling
  <2> QED  BY <2>10, <2>12, <2>15
<1> HIDE DEF Turn
<1>11. Stages(n, V, Step)
  <2> SUFFICES ASSUME NEW k \in 1..n, NEW x \in V[k - 1]  PROVE Step[k][x] \in V[k]
    BY DEF Stages
  <2>1. k - 1 \in 0..n /\ k \in 0..n
    OBVIOUS
  <2>2. x \in Mems /\ Filling(m, map, lo, hi, A, s, k - 1, x)
    BY <2>1
  <2>3. Step[k][x] = Turn(x, k)
    BY <2>2
  <2>4. Turn(x, k) \in Mems /\ Filling(m, map, lo, hi, A, s, k, Turn(x, k))
    BY <2>2, <1>10
  <2> QED  BY <2>1, <2>3, <2>4
<1> HIDE DEF V
<1>12. PICK f : StagedRun(n, V, m1, Step, f)
  <2> HIDE DEF Step
  <2> QED  BY <1>9, <1>11, LoopStages
<1>13. \A k \in 0..n : f[k] \in Mems
  <2>1. \A k \in 0..n : f[k] \in V[k]
    BY <1>12 DEF StagedRun
  <2> QED  BY <2>1 DEF V
<1>14. \A k \in 1..n : f[k - 1] \in Mems /\ Step[k][f[k - 1]] = Turn(f[k - 1], k)
  <2>1. \A k \in 1..n : f[k - 1] \in Mems
    BY <1>13
  <2> QED  BY <2>1
<1>15. Run(f)
  <2> HIDE DEF Step
  <2> QED  BY <1>12, <1>14 DEF StagedRun
<1>16. Run(after)
  BY <1>15
<1> HIDE DEF after
<1>17. SameLoop(n, after, f)
  BY <1>15, <1>16 DEF SameLoop
<1>18. after[n] = f[n] /\ f[n] \in V[n]
  <2>1. \A k \in 0..n : after[k] = f[k]
    BY <1>17, LoopUnique
  <2>2. \A k \in 0..n : f[k] \in V[k]
    BY <1>12 DEF StagedRun
  <2> QED  BY <2>1, <2>2
<1>19. Filling(m, map, lo, hi, A, s, n, after[n])
  BY <1>18 DEF V
<1>20. PICK m2 : m2 = after[n]
  OBVIOUS
<1>21. Shows(m2, map, lo, hi, A, s) /\ m2 \in Mems /\ Change(m, {}, m2, In(map, lo, hi))
  <2>1. PICK t : IsFront(s, n, t) /\ Shows(m2, map, lo, hi, A, t)
    BY <1>19, <1>20 DEF Filling
  <2>2. t = s
    BY <1>1, <2>1, FrontFact
  <2> QED  BY <1>19, <1>20, <2>1, <2>2 DEF Filling
<1>22. Deq(m2, d, ms, A, s)
  BY <1>1, <1>3, <1>4, <1>5, <1>21 DEF Deq, Room
<1>23. Change(m, {}, m2, Owned(d))
  <2>1. Owned(d) = In(map, lo, hi)
    BY <1>1, <1>4, <1>22, DeqFact
  <2> QED  BY <1>21, <2>1
<1>24. Filled(m, s) = St(m2, d) /\ MadeOf(m, s, m2, d, ms, A)
  BY <1>8, <1>20, <1>22, <1>23 DEF MadeOf
<1> QED  BY <1>24

-----------------------------------------------------------------------------
(* Several elements at the back.                                           *)

\* Members and states of any size.
Wide == [map : UNION {Maps(n) : n \in Nat}, start : Iterators \cup {None}, finish : Iterators \cup {None}]
States == [m : Mems, d : Wide]

LEMMA MembersType ==
  ASSUME NEW ms \in Nat, NEW map \in Maps(ms), NEW P \in Nat, NEW Q \in Nat, NEW d, d = Members(map, At(P), At(Q))
  PROVE  d \in Wide /\ (ms <= MaxMaps => d \in Fields)
<1>1. At(P) \in Iterators \cup {None} /\ At(Q) \in Iterators \cup {None}
  BY AtFact
<1>2. map \in UNION {Maps(n) : n \in Nat}
  OBVIOUS
<1>3. ms <= MaxMaps => map \in UNION {Maps(n) : n \in 0..MaxMaps}
  BY BoundsAssumption
<1> HIDE DEF Maps, Iterators, At
<1> QED  BY <1>1, <1>2, <1>3 DEF Wide, Fields, Members

LEMMA DeqType ==
  ASSUME NEW m, NEW d, NEW ms, NEW A, NEW s, Deq(m, d, ms, A, s)
  PROVE  St(m, d) \in States /\ (ms <= MaxMaps => d \in Fields)
<1>1. m \in Mems /\ A \in Nat /\ A + Len(s) \in Nat /\ ms \in Nat /\ d.map \in Maps(ms)
  BY DeqFact
<1>2. d = Members(d.map, At(A), At(A + Len(s)))
  BY DEF Deq, Room
<1>3. d \in Wide /\ (ms <= MaxMaps => d \in Fields)
  BY <1>1, <1>2, MembersType
<1> QED  BY <1>1, <1>3 DEF States, St

LEMMA SpotsFewer ==
  ASSUME NEW n \in Nat, NEW n2 \in Nat, n <= n2, NEW map, NEW A, NEW map2, NEW A2, SameSpots(map, A, map2, A2, n2)
  PROVE  SameSpots(map, A, map2, A2, n)
<1> HIDE DEF Spot
<1> QED  BY DEF SameSpots

\* How many chunks n more elements reach beyond the one at B.
LEMMA NodeSum ==
  ASSUME NEW B \in Nat, NEW n \in Nat
  PROVE  Node(B + n) <= Node(B) + Node(n) + 1 /\ (Off(B) = 0 => Node(B + n) = Node(B) + Node(n))
<1>1. PICK c \in Nat : c = ChunkElems /\ c >= 1
  BY ChunkFact
<1>2. PICK b \in Nat, x \in Nat, r \in Nat : b = Node(B) /\ x = Off(B) /\ r = Row(b) /\ B = r + x /\ x < c
  BY <1>1, PlaceParts
<1>3. PICK k \in Nat, y \in Nat, q \in Nat : k = Node(n) /\ y = Off(n) /\ q = Row(k) /\ n = q + y /\ y < c
  BY <1>1, PlaceParts
<1>4. Row(b + k) = q + r
  <2>1. k - 0 + b \in Nat /\ Row(k - 0 + b) = Row(k) - Row(0) + Row(b)
    BY RowShift
  <2>2. k - 0 + b = b + k
    OBVIOUS
  <2>3. Row(b + k) = Row(k) - Row(0) + Row(b)
    BY <2>1, <2>2
  <2> QED  BY <2>3, <1>2, <1>3, RowFact
<1>5. Row(b + k + 1) = q + r + c
  <2>1. b + k \in Nat /\ Row((b + k) + 1) = Row(b + k) + ChunkElems
    BY RowFact
  <2> QED  BY <2>1, <1>1, <1>4
<1>6. CASE x + y < c
  <2>1. x + y \in Offsets /\ B + n = Row(b + k) + (x + y) /\ b + k \in Nat
    BY <1>1, <1>2, <1>3, <1>4, <1>6 DEF Offsets
  <2>2. Node(B + n) = b + k
    BY <2>1, NodeUnique
  <2> QED  BY <2>2, <1>2, <1>3
<1>7. CASE x + y >= c
  <2>1. (x + y) - c \in Offsets /\ B + n = Row(b + k + 1) + ((x + y) - c) /\ b + k + 1 \in Nat
    BY <1>1, <1>2, <1>3, <1>5, <1>7 DEF Offsets
  <2>2. Node(B + n) = b + k + 1
    BY <2>1, NodeUnique
  <2>3. Off(B) # 0
    BY <1>1, <1>2, <1>3, <1>7
  <2> QED  BY <2>2, <2>3, <1>2, <1>3
<1> QED  BY <1>6, <1>7, <1>1, <1>2, <1>3

\* The contents s and the first k elements of t.
IsGrown(s, t, k, u) == u = s \o SubSeq(t, 1, k)

LEMMA GrownFact ==
  ASSUME NEW s \in Seq(Values), NEW t \in Seq(Values)
  PROVE  /\ \A k \in 0..Len(t) : \A u : IsGrown(s, t, k, u) => u \in Seq(Values) /\ Len(u) = Len(s) + k
         /\ IsGrown(s, t, 0, s)
         /\ IsGrown(s, t, Len(t), s \o t)
         /\ \A k \in 1..Len(t) : \A u : IsGrown(s, t, k - 1, u) => IsGrown(s, t, k, Append(u, t[k]))
<1>1. ASSUME NEW k \in 0..Len(t), NEW u, IsGrown(s, t, k, u)
      PROVE  u \in Seq(Values) /\ Len(u) = Len(s) + k
  BY <1>1 DEF IsGrown
<1>2. IsGrown(s, t, 0, s)
  <2>1. SubSeq(t, 1, 0) = <<>>
    OBVIOUS
  <2> QED  BY <2>1 DEF IsGrown
<1>3. IsGrown(s, t, Len(t), s \o t)
  <2>1. SubSeq(t, 1, Len(t)) = t
    OBVIOUS
  <2> QED  BY <2>1 DEF IsGrown
<1>4. ASSUME NEW k \in 1..Len(t), NEW u, IsGrown(s, t, k - 1, u)  PROVE IsGrown(s, t, k, Append(u, t[k]))
  <2>0. Len(t) \in Nat
    OBVIOUS
  <2>1. SubSeq(t, 1, k - 1) \in Seq(Values) /\ Len(SubSeq(t, 1, k - 1)) = k - 1
    BY <2>0
  <2>2. SubSeq(t, 1, k) = Append(SubSeq(t, 1, k - 1), t[k])
    BY <2>0
  <2>3. t[k] \in Values
    OBVIOUS
  <2>4. \A a, b \in Seq(Values) : s \o Append(a, t[k]) = Append(s \o a, t[k])
    BY <2>3
  <2> QED  BY <1>4, <2>1, <2>2, <2>4 DEF IsGrown
<1> QED  BY <1>1, <1>2, <1>3, <1>4

\* The deque after k elements of t.
Growing(m, d, A, s, t, k, m2, d2) ==
  \E ms2, A2, u :
     /\ IsGrown(s, t, k, u)
     /\ Stepped(m, d, m2, d2, ms2, A2, u)
     /\ SameSpots(d.map, A, d2.map, A2, Len(s))
     /\ Off(A2 + Len(u)) = Off(A + Len(s) + k)
     /\ Cardinality(Free(m2)) = Cardinality(Free(m)) - (Node(A + Len(s) + k) - Node(A + Len(s)))

LEMMA GrowingStart ==
  ASSUME NEW m, NEW d, NEW ms, NEW A, NEW s, Deq(m, d, ms, A, s), NEW t \in Seq(Values)
  PROVE  Growing(m, d, A, s, t, 0, m, d)
<1>1. /\ A \in Nat /\ s \in Seq(Values) /\ Len(s) \in Nat /\ A + Len(s) \in Nat
      /\ Change(m, Owned(d), m, Owned(d))
  BY DeqFact
<1>2. IsGrown(s, t, 0, s)
  BY <1>1, GrownFact
<1>3. SameSpots(d.map, A, d.map, A, Len(s))
  BY DEF SameSpots
<1>4. PICK B \in Nat : B = A + Len(s)
  BY <1>1
<1>5. Node(B) \in Nat /\ Cardinality(Free(m)) \in Nat
  BY PlaceFact, FreeFinite
<1>6. B + 0 = B /\ Cardinality(Free(m)) = Cardinality(Free(m)) - (Node(B) - Node(B))
  BY <1>5
<1> QED  BY <1>1, <1>2, <1>3, <1>4, <1>6 DEF Growing, Stepped

\* There are chunks enough for n more elements.
Enough(m, A, s, n) == Node(A + Len(s) + n) - Node(A + Len(s)) <= Cardinality(Free(m))

LEMMA GrowingNext ==
  ASSUME NEW m, NEW d, NEW ms, NEW A, NEW s, Deq(m, d, ms, A, s), NEW t \in Seq(Values),
         Enough(m, A, s, Len(t)),
         NEW k \in 1..Len(t), NEW m1, NEW d1, Growing(m, d, A, s, t, k - 1, m1, d1)
  PROVE  \E m2, d2 : PushedBack(St(m1, d1), t[k]) = St(m2, d2) /\ Growing(m, d, A, s, t, k, m2, d2) /\ St(m2, d2) \in States
<1>1. A \in Nat /\ s \in Seq(Values) /\ Len(s) \in Nat /\ A + Len(s) \in Nat
  BY DeqFact
<1>2. PICK n \in Nat : n = Len(t)
  OBVIOUS
<1>3. PICK B \in Nat : B = A + Len(s)
  BY <1>1
<1>4. PICK q \in Nat : q = B + (k - 1) /\ B + k = q + 1 /\ q + 1 \in Nat /\ q + 1 <= B + n /\ B + n \in Nat
  BY <1>2
<1>5. PICK ms1, A1, u :
         /\ IsGrown(s, t, k - 1, u)
         /\ Stepped(m, d, m1, d1, ms1, A1, u)
         /\ SameSpots(d.map, A, d1.map, A1, Len(s))
         /\ Off(A1 + Len(u)) = Off(q)
         /\ Cardinality(Free(m1)) = Cardinality(Free(m)) - (Node(q) - Node(B))
  BY <1>3, <1>4 DEF Growing
<1>6. Deq(m1, d1, ms1, A1, u) /\ Change(m, Owned(d), m1, Owned(d1))
  BY <1>5 DEF Stepped
<1>7. /\ A1 \in Nat /\ u \in Seq(Values) /\ Len(u) \in Nat /\ A1 + Len(u) \in Nat
      /\ d1.finish.off = Off(A1 + Len(u))
  BY <1>6, DeqFact
<1>8. k - 1 \in 0..Len(t) /\ t[k] \in Values /\ Len(u) = Len(s) + (k - 1)
  <2>1. k - 1 \in 0..Len(t) /\ t[k] \in Values
    BY <1>2
  <2> QED  BY <2>1, <1>1, <1>5, GrownFact
<1>9. AtChunkEnd(d1) <=> Off(q) = ChunkElems - 1
  BY <1>5, <1>7 DEF AtChunkEnd
<1>10. /\ Off(q) = ChunkElems - 1 => Node(q + 1) = Node(q) + 1 /\ Off(q + 1) = 0
       /\ Off(q) # ChunkElems - 1 => Node(q + 1) = Node(q) /\ Off(q + 1) = Off(q) + 1
  BY NodeNext
<1>11. PICK F, F1 : F = Cardinality(Free(m)) /\ F1 = Cardinality(Free(m1)) /\ F \in Nat /\ F1 \in Nat
  <2>1. Cardinality(Free(m)) \in Nat /\ Cardinality(Free(m1)) \in Nat
    BY FreeFinite
  <2> QED  BY <2>1
<1>12. PICK x \in Nat, y \in Nat, b \in Nat, z \in Nat : x = Node(q) /\ y = Node(q + 1) /\ b = Node(B) /\ z = Node(B + n) /\ y <= z
  <2>1. Node(q) \in Nat /\ Node(q + 1) \in Nat /\ Node(B) \in Nat /\ Node(B + n) \in Nat
    BY <1>4, PlaceFact
  <2>2. Node(q + 1) <= Node(B + n)
    BY <1>4, NodeOrder
  <2> QED  BY <2>1, <2>2
<1>13. z - b <= F /\ F1 = F - (x - b)
  <2>1. z - b <= F
    BY <1>2, <1>3, <1>11, <1>12 DEF Enough
  <2>2. F1 = F - (x - b)
    BY <1>5, <1>11, <1>12
  <2> QED  BY <2>1, <2>2
<1>26. (AtChunkEnd(d1) => y = x + 1) /\ (~AtChunkEnd(d1) => y = x)
  BY <1>9, <1>10, <1>12
<1>27. F \in Nat /\ F1 \in Nat /\ y <= z
  BY <1>11, <1>12
<1>14. AtChunkEnd(d1) => 1 <= F1
  <2>1. y = x + 1 => 1 <= F1
    BY <1>13, <1>27
  <2> QED  BY <2>1, <1>26
<1>15. PICK v \in Values : v = t[k]
  BY <1>8
<1>16. PICK m2, d2, ms2, A2 : PushedBackTo(m1, d1, A1, u, v, m2, d2, ms2, A2)
  BY <1>6, <1>11, <1>14, PushedBackFact
<1>17. /\ PushedBack(St(m1, d1), v) = St(m2, d2)
       /\ Deq(m2, d2, ms2, A2, Append(u, v)) /\ Change(m1, Owned(d1), m2, Owned(d2))
       /\ SameSpots(d1.map, A1, d2.map, A2, Len(u))
       /\ Off(A2 + Len(u)) = Off(A1 + Len(u))
       /\ Cardinality(Free(m2)) = F1 - (IF AtChunkEnd(d1) THEN 1 ELSE 0)
  BY <1>11, <1>16 DEF PushedBackTo, Stepped
<1>18. IsGrown(s, t, k, Append(u, v))
  BY <1>1, <1>5, <1>15, GrownFact
<1>19. Stepped(m, d, m2, d2, ms2, A2, Append(u, v))
  <2>1. Change(m, Owned(d), m2, Owned(d2))
    BY <1>6, <1>17, ChangeTwice
  <2> QED  BY <1>17, <2>1 DEF Stepped
<1>20. SameSpots(d.map, A, d2.map, A2, Len(s))
  <2>1. Len(s) <= Len(u)
    BY <1>1, <1>7, <1>8
  <2>2. SameSpots(d1.map, A1, d2.map, A2, Len(s))
    BY <1>1, <1>7, <1>17, <2>1, SpotsFewer
  <2> QED  BY <1>1, <1>5, <2>2, SpotsTwice
<1>21. A2 \in Nat
  BY <1>17, DeqFact
<1>22. Off(A2 + Len(Append(u, v))) = Off(q + 1)
  <2>1. PICK r \in Nat : r = A2 + Len(u) /\ A2 + Len(Append(u, v)) = r + 1
    BY <1>7, <1>21
  <2>2. Off(r) = Off(q)
    BY <1>5, <1>17, <2>1
  <2>3. /\ Off(r) = ChunkElems - 1 => Off(r + 1) = 0
        /\ Off(r) # ChunkElems - 1 => Off(r + 1) = Off(r) + 1
    BY NodeNext
  <2> QED  BY <2>1, <2>2, <2>3, <1>10
<1>23. Cardinality(Free(m2)) = F - (y - b)
  <2>1. CASE AtChunkEnd(d1)
    <3>1. Cardinality(Free(m2)) = F1 - 1 /\ y = x + 1
      BY <1>17, <1>26, <2>1
    <3> QED  BY <3>1, <1>13, <1>27
  <2>2. CASE ~AtChunkEnd(d1)
    <3>1. Cardinality(Free(m2)) = F1 - 0 /\ y = x
      BY <1>17, <1>26, <2>2
    <3> QED  BY <3>1, <1>13, <1>27
  <2> QED  BY <2>1, <2>2
<1>24. Growing(m, d, A, s, t, k, m2, d2)
  BY <1>3, <1>4, <1>11, <1>12, <1>18, <1>19, <1>20, <1>22, <1>23 DEF Growing
<1>25. St(m2, d2) \in States
  BY <1>17, DeqType
<1> QED  BY <1>15, <1>17, <1>24, <1>25

LEMMA StatesFact ==
  ASSUME NEW x \in States
  PROVE  x = St(x.m, x.d)
<1> HIDE DEF Mems, Wide
<1> QED  BY DEF States, St

PushedAllTo(m, d, A, s, t, m2, d2, ms2, A2) ==
  /\ PushedAll(St(m, d), t) = St(m2, d2)
  /\ Stepped(m, d, m2, d2, ms2, A2, s \o t)
  /\ SameSpots(d.map, A, d2.map, A2, Len(s))

LEMMA PushedAllFact ==
  ASSUME NEW m, NEW d, NEW ms, NEW A, NEW s, Deq(m, d, ms, A, s), NEW t \in Seq(Values), Enough(m, A, s, Len(t))
  PROVE  \E m2, d2, ms2, A2 : PushedAllTo(m, d, A, s, t, m2, d2, ms2, A2)
<1>1. PICK n \in Nat : n = Len(t)
  OBVIOUS
<1>2. s \in Seq(Values)
  BY DeqFact
<1>3. PICK st : st = St(m, d)
  OBVIOUS
<1> DEFINE Turn(x, k) == PushedBack(x, t[k])
           Step == [k \in 1..n |-> [x \in States |-> Turn(x, k)]]
           V == [k \in 0..n |-> {x \in States : Growing(m, d, A, s, t, k, x.m, x.d)}]
           Run(f) == f = [k \in 0..n |-> IF k = 0 THEN st ELSE Turn(f[k - 1], k)]
           after == CHOOSE f : Run(f)
<1>4. PushedAll(st, t) = after[n]
  BY <1>1 DEF PushedAll
<1>5. st \in V[0]
  <2>1. Growing(m, d, A, s, t, 0, m, d)
    BY GrowingStart
  <2>2. st \in States
    BY <1>3, DeqType
  <2>3. st.m = m /\ st.d = d
    BY <1>3, StFact
  <2> QED  BY <2>1, <2>2, <2>3
<1>6. ASSUME NEW k \in 1..n, NEW x \in States, Growing(m, d, A, s, t, k - 1, x.m, x.d)
      PROVE  Turn(x, k) \in States /\ Growing(m, d, A, s, t, k, Turn(x, k).m, Turn(x, k).d)
  <2>1. PICK m1, d1 : m1 = x.m /\ d1 = x.d /\ x = St(m1, d1)
    BY StatesFact
  <2>2. k \in 1..Len(t) /\ Growing(m, d, A, s, t, k - 1, m1, d1)
    BY <1>1, <1>6, <2>1
  <2>3. PICK m2, d2 : PushedBack(St(m1, d1), t[k]) = St(m2, d2) /\ Growing(m, d, A, s, t, k, m2, d2) /\ St(m2, d2) \in States
    BY <2>2, GrowingNext
  <2>4. Turn(x, k) = St(m2, d2) /\ St(m2, d2).m = m2 /\ St(m2, d2).d = d2
    BY <2>1, <2>3, StFact
  <2> QED  BY <2>3, <2>4
<1> HIDE DEF Turn
<1>7. Stages(n, V, Step)
  <2> SUFFICES ASSUME NEW k \in 1..n, NEW x \in V[k - 1]  PROVE Step[k][x] \in V[k]
    BY DEF Stages
  <2>1. k - 1 \in 0..n /\ k \in 0..n
    OBVIOUS
  <2>2. x \in States /\ Growing(m, d, A, s, t, k - 1, x.m, x.d)
    BY <2>1
  <2>3. Step[k][x] = Turn(x, k)
    BY <2>2
  <2>4. Turn(x, k) \in States /\ Growing(m, d, A, s, t, k, Turn(x, k).m, Turn(x, k).d)
    BY <2>2, <1>6
  <2> QED  BY <2>1, <2>3, <2>4
<1> HIDE DEF V
<1>8. PICK f : StagedRun(n, V, st, Step, f)
  <2> HIDE DEF Step
  <2> QED  BY <1>5, <1>7, LoopStages
<1>9. \A k \in 0..n : f[k] \in States
  <2>1. \A k \in 0..n : f[k] \in V[k]
    BY <1>8 DEF StagedRun
  <2> QED  BY <2>1 DEF V
<1>10. \A k \in 1..n : f[k - 1] \in States /\ Step[k][f[k - 1]] = Turn(f[k - 1], k)
  <2>1. \A k \in 1..n : f[k - 1] \in States
    BY <1>9
  <2> QED  BY <2>1
<1>11. Run(f)
  <2> HIDE DEF Step
  <2> QED  BY <1>8, <1>10 DEF StagedRun
<1>12. Run(after)
  BY <1>11
<1> HIDE DEF after
<1>13. SameLoop(n, after, f)
  BY <1>11, <1>12 DEF SameLoop
<1>14. after[n] = f[n] /\ f[n] \in V[n]
  <2>1. \A k \in 0..n : after[k] = f[k]
    BY <1>13, LoopUnique
  <2>2. \A k \in 0..n : f[k] \in V[k]
    BY <1>8 DEF StagedRun
  <2> QED  BY <2>1, <2>2
<1>15. PICK x \in States : x = after[n] /\ Growing(m, d, A, s, t, n, x.m, x.d)
  BY <1>14 DEF V
<1>16. PICK m2, d2 : m2 = x.m /\ d2 = x.d /\ x = St(m2, d2) /\ Growing(m, d, A, s, t, n, m2, d2)
  BY <1>15, StatesFact
<1>17. PICK ms2, A2, u : IsGrown(s, t, n, u) /\ Stepped(m, d, m2, d2, ms2, A2, u) /\ SameSpots(d.map, A, d2.map, A2, Len(s))
  BY <1>16 DEF Growing
<1>18. u = s \o t
  BY <1>1, <1>2, <1>17, GrownFact DEF IsGrown
<1>19. PushedAllTo(m, d, A, s, t, m2, d2, ms2, A2)
  BY <1>3, <1>4, <1>15, <1>16, <1>17, <1>18 DEF PushedAllTo
<1> QED  BY <1>19

\* The deque after k elements have been popped.
Shrinking(m, d, ms, A, s, k, m2, d2) ==
  \E u : /\ IsFront(s, Len(s) - k, u)
         /\ Stepped(m, d, m2, d2, ms, A, u)
         /\ SameSpots(d.map, A, d2.map, A, Len(s) - k)

LEMMA FrontTwice ==
  ASSUME NEW s \in Seq(Values), NEW k \in Nat, k + 1 <= Len(s), NEW u, IsFront(s, k + 1, u), NEW t, IsFront(u, k, t)
  PROVE  IsFront(s, k, t)
<1>1. u \in Seq(Values) /\ Len(u) = k + 1 /\ \A i \in 1..(k + 1) : u[i] = s[i]
  <2>1. k + 1 \in 0..Len(s)
    OBVIOUS
  <2> QED  BY <2>1, FrontFact
<1>2. t \in Seq(Values) /\ Len(t) = k /\ \A i \in 1..k : t[i] = u[i]
  <2>1. k \in 0..Len(u)
    BY <1>1
  <2> QED  BY <1>1, <2>1, FrontFact
<1>3. PICK w : IsFront(s, k, w)
  BY DEF IsFront
<1>4. w \in Seq(Values) /\ Len(w) = k /\ \A i \in 1..k : w[i] = s[i]
  <2>1. k \in 0..Len(s)
    OBVIOUS
  <2> QED  BY <1>3, <2>1, FrontFact
<1>5. \A i \in 1..k : w[i] = t[i]
  BY <1>1, <1>2, <1>4
<1>6. w = t
  BY <1>2, <1>4, <1>5
<1> QED  BY <1>3, <1>6

LEMMA ShrinkingStart ==
  ASSUME NEW m, NEW d, NEW ms, NEW A, NEW s, Deq(m, d, ms, A, s)
  PROVE  Shrinking(m, d, ms, A, s, 0, m, d)
<1>1. s \in Seq(Values) /\ Len(s) \in Nat /\ Change(m, Owned(d), m, Owned(d))
  BY DeqFact
<1>2. IsFront(s, Len(s), s) /\ Len(s) - 0 = Len(s)
  BY <1>1 DEF IsFront
<1>3. SameSpots(d.map, A, d.map, A, Len(s))
  BY DEF SameSpots
<1> QED  BY <1>1, <1>2, <1>3 DEF Shrinking, Stepped

LEMMA ShrinkingNext ==
  ASSUME NEW m, NEW d, NEW ms, NEW A, NEW s, Deq(m, d, ms, A, s), NEW k \in 1..Len(s),
         NEW m1, NEW d1, Shrinking(m, d, ms, A, s, k - 1, m1, d1)
  PROVE  \E m2, d2 : PoppedBack(St(m1, d1)) = St(m2, d2) /\ Shrinking(m, d, ms, A, s, k, m2, d2) /\ St(m2, d2) \in States
<1>1. s \in Seq(Values) /\ Len(s) \in Nat
  BY DeqFact
<1>2. PICK j \in Nat : j = Len(s) - k /\ Len(s) - (k - 1) = j + 1 /\ j + 1 <= Len(s)
  BY <1>1
<1>3. PICK u : IsFront(s, j + 1, u) /\ Stepped(m, d, m1, d1, ms, A, u) /\ SameSpots(d.map, A, d1.map, A, j + 1)
  BY <1>2 DEF Shrinking
<1>4. Deq(m1, d1, ms, A, u) /\ Change(m, Owned(d), m1, Owned(d1))
  BY <1>3 DEF Stepped
<1>5. Len(u) = j + 1
  <2>1. j + 1 \in 0..Len(s)
    BY <1>1, <1>2
  <2> QED  BY <1>1, <1>3, <2>1, FrontFact
<1>6. PICK t : IsFront(u, j, t)
  BY DEF IsFront
<1>7. PICK m2, d2 : PoppedBackTo(m1, d1, A, u, t, m2, d2, ms)
  BY <1>4, <1>5, <1>6, PoppedBackFact
<1>8. /\ PoppedBack(St(m1, d1)) = St(m2, d2)
      /\ Deq(m2, d2, ms, A, t) /\ Change(m1, Owned(d1), m2, Owned(d2))
      /\ SameSpots(d1.map, A, d2.map, A, Len(t))
  BY <1>7 DEF PoppedBackTo, Stepped
<1>9. IsFront(s, j, t)
  BY <1>1, <1>2, <1>3, <1>6, FrontTwice
<1>10. Len(t) = j
  <2>1. j \in 0..Len(s)
    BY <1>1, <1>2
  <2> QED  BY <1>1, <1>9, <2>1, FrontFact
<1>11. Stepped(m, d, m2, d2, ms, A, t)
  <2>1. Change(m, Owned(d), m2, Owned(d2))
    BY <1>4, <1>8, ChangeTwice
  <2> QED  BY <1>8, <2>1 DEF Stepped
<1>12. SameSpots(d.map, A, d2.map, A, j)
  <2>1. j + 1 \in Nat /\ j <= j + 1
    OBVIOUS
  <2>2. SameSpots(d.map, A, d1.map, A, j)
    BY <1>3, <2>1, SpotsFewer
  <2> QED  BY <1>8, <1>10, <2>2, SpotsTwice
<1>13. Shrinking(m, d, ms, A, s, k, m2, d2)
  BY <1>2, <1>9, <1>11, <1>12 DEF Shrinking
<1>14. St(m2, d2) \in States
  BY <1>8, DeqType
<1> QED  BY <1>8, <1>13, <1>14

PoppedTimesTo(m, d, A, s, n, m2, d2, ms2, u) ==
  /\ PoppedTimes(St(m, d), n) = St(m2, d2)
  /\ IsFront(s, Len(s) - n, u)
  /\ Stepped(m, d, m2, d2, ms2, A, u)
  /\ SameSpots(d.map, A, d2.map, A, Len(s) - n)

LEMMA PoppedTimesFact ==
  ASSUME NEW m, NEW d, NEW ms, NEW A, NEW s, Deq(m, d, ms, A, s), NEW n \in 0..Len(s)
  PROVE  \E m2, d2, u : PoppedTimesTo(m, d, A, s, n, m2, d2, ms, u)
<1>1. s \in Seq(Values) /\ Len(s) \in Nat
  BY DeqFact
<1>2. n \in Nat
  BY <1>1
<1>3. PICK st : st = St(m, d)
  OBVIOUS
<1> DEFINE Step == [k \in 1..n |-> [x \in States |-> PoppedBack(x)]]
           V == [k \in 0..n |-> {x \in States : Shrinking(m, d, ms, A, s, k, x.m, x.d)}]
           Run(f) == f = [k \in 0..n |-> IF k = 0 THEN st ELSE PoppedBack(f[k - 1])]
           after == CHOOSE f : Run(f)
<1>4. PoppedTimes(st, n) = after[n]
  BY DEF PoppedTimes
<1>5. st \in V[0]
  <2>1. Shrinking(m, d, ms, A, s, 0, m, d)
    BY ShrinkingStart
  <2>2. st \in States
    BY <1>3, DeqType
  <2>3. st.m = m /\ st.d = d
    BY <1>3, StFact
  <2> QED  BY <2>1, <2>2, <2>3, <1>2
<1>6. ASSUME NEW k \in 1..n, NEW x \in States, Shrinking(m, d, ms, A, s, k - 1, x.m, x.d)
      PROVE  PoppedBack(x) \in States /\ Shrinking(m, d, ms, A, s, k, PoppedBack(x).m, PoppedBack(x).d)
  <2>1. PICK m1, d1 : m1 = x.m /\ d1 = x.d /\ x = St(m1, d1)
    BY StatesFact
  <2>2. k \in 1..Len(s) /\ Shrinking(m, d, ms, A, s, k - 1, m1, d1)
    BY <1>1, <1>6, <2>1
  <2>3. PICK m2, d2 : PoppedBack(St(m1, d1)) = St(m2, d2) /\ Shrinking(m, d, ms, A, s, k, m2, d2) /\ St(m2, d2) \in States
    BY <2>2, ShrinkingNext
  <2>4. PoppedBack(x) = St(m2, d2) /\ St(m2, d2).m = m2 /\ St(m2, d2).d = d2
    BY <2>1, <2>3, StFact
  <2> QED  BY <2>3, <2>4
<1>7. Stages(n, V, Step)
  <2> SUFFICES ASSUME NEW k \in 1..n, NEW x \in V[k - 1]  PROVE Step[k][x] \in V[k]
    BY DEF Stages
  <2>1. k - 1 \in 0..n /\ k \in 0..n
    BY <1>2
  <2>2. x \in States /\ Shrinking(m, d, ms, A, s, k - 1, x.m, x.d)
    BY <2>1
  <2>3. Step[k][x] = PoppedBack(x)
    BY <2>2
  <2>4. PoppedBack(x) \in States /\ Shrinking(m, d, ms, A, s, k, PoppedBack(x).m, PoppedBack(x).d)
    BY <2>2, <1>6
  <2> QED  BY <2>1, <2>3, <2>4
<1> HIDE DEF V
<1>8. PICK f : StagedRun(n, V, st, Step, f)
  <2> HIDE DEF Step
  <2> QED  BY <1>2, <1>5, <1>7, LoopStages
<1>9. \A k \in 0..n : f[k] \in States
  <2>1. \A k \in 0..n : f[k] \in V[k]
    BY <1>8 DEF StagedRun
  <2> QED  BY <2>1 DEF V
<1>10. \A k \in 1..n : f[k - 1] \in States /\ Step[k][f[k - 1]] = PoppedBack(f[k - 1])
  <2>1. \A k \in 1..n : f[k - 1] \in States
    BY <1>2, <1>9
  <2> QED  BY <2>1
<1>11. Run(f)
  <2> HIDE DEF Step
  <2> QED  BY <1>2, <1>8, <1>10 DEF StagedRun
<1>12. Run(after)
  BY <1>11
<1> HIDE DEF after
<1>13. SameLoop(n, after, f)
  BY <1>2, <1>11, <1>12 DEF SameLoop
<1>14. after[n] = f[n] /\ f[n] \in V[n]
  <2>1. \A k \in 0..n : after[k] = f[k]
    BY <1>2, <1>13, LoopUnique
  <2>2. \A k \in 0..n : f[k] \in V[k]
    BY <1>8 DEF StagedRun
  <2> QED  BY <1>2, <2>1, <2>2
<1>15. PICK x \in States : x = after[n] /\ Shrinking(m, d, ms, A, s, n, x.m, x.d)
  BY <1>2, <1>14 DEF V
<1>16. PICK m2, d2 : m2 = x.m /\ d2 = x.d /\ x = St(m2, d2) /\ Shrinking(m, d, ms, A, s, n, m2, d2)
  BY <1>15, StatesFact
<1>17. PICK u : IsFront(s, Len(s) - n, u) /\ Stepped(m, d, m2, d2, ms, A, u) /\ SameSpots(d.map, A, d2.map, A, Len(s) - n)
  BY <1>16 DEF Shrinking
<1>18. PoppedTimesTo(m, d, A, s, n, m2, d2, ms, u)
  BY <1>3, <1>4, <1>15, <1>16, <1>17 DEF PoppedTimesTo
<1> QED  BY <1>18

-----------------------------------------------------------------------------
(* The inductive invariant.                                                *)

\* A deque that shows the contents s: without a map, or in its chunks.
Holds(m, d, s) == (d = NoMap /\ s = <<>>) \/ \E ms, A : Deq(m, d, ms, A, s)

\* The members of a deque with the places P..Q.
Spanned(d, ms, P, Q) == P <= Q /\ Table(d.map, ms, Node(P), Node(Q)) /\ d = Members(d.map, At(P), At(Q))

\* The members of any deque, broken or not: the nodes from start_ to finish_,
\* and no others, have chunks, all different.
Shaped(d) ==
  \/ d = NoMap
  \/ \E ms, P, Q \in Nat : Spanned(d, ms, P, Q)

\* The chunks of each object, and how the objects share the heap.
Chunked(d) == IF d = None THEN {} ELSE Owned(d)
Claims(ob) == [o \in Objects |-> Chunked(ob[o])]
Shares(m, f) ==
  /\ m \in Mems
  /\ \A o \in Objects : f[o] \in SUBSET Chunks
  /\ \A o \in Objects : \A c \in f[o] : m[c] # None
  /\ \A c \in Chunks : m[c] # None => \E o \in Objects : c \in f[o]
  /\ \A o, x \in Objects : \A c \in f[o] : c \in f[x] => o = x

Sound(ob, m, md, br) ==
  /\ ob \in [Objects -> Fields \cup {None}]
  /\ md \in [Objects -> Seq(Values) \cup {None}]
  /\ br \in SUBSET {o \in Objects : ob[o] # None}
  /\ Shares(m, Claims(ob))
  /\ \A o \in Objects : ob[o] # None => Shaped(ob[o])
  /\ \A o \in Objects \ br : ob[o] # None => Holds(m, ob[o], md[o])

IInv == Sound(obj, mem, model, broken)

LEMMA HoldsFrame ==
  ASSUME NEW m, NEW d, NEW s, Holds(m, d, s), NEW m2 \in Mems, \A c \in Owned(d) : m2[c] = m[c]
  PROVE  Holds(m2, d, s)
<1>1. CASE d = NoMap /\ s = <<>>
  BY <1>1 DEF Holds
<1>2. CASE \E ms, A : Deq(m, d, ms, A, s)
  <2>1. PICK ms, A : Deq(m, d, ms, A, s)
    BY <1>2
  <2>2. Owned(d) = In(d.map, Node(A), Node(A + Len(s)))
    BY <2>1, DeqFact
  <2>3. \A i \in Node(A)..Node(A + Len(s)) : m2[d.map[i]] = m[d.map[i]]
    BY <2>2 DEF In
  <2>4. Shows(m2, d.map, Node(A), Node(A + Len(s)), A, s)
    BY <2>1, <2>3 DEF Deq, Room, Shows
  <2>5. Deq(m2, d, ms, A, s)
    BY <2>1, <2>4 DEF Deq, Room
  <2> QED  BY <2>5 DEF Holds
<1> QED  BY <1>1, <1>2 DEF Holds

LEMMA HoldsTeardown ==
  ASSUME NEW m, NEW d, NEW s, Holds(m, d, s), m \in Mems, NEW m2, m2 = Teardown(St(m, d))
  PROVE  Change(m, Owned(d), m2, {})
<1>1. CASE d = NoMap
  <2>1. Owned(d) = {}
    BY <1>1, NoMapFact
  <2>2. DestroyAll(St(m, d)) = m
    BY <2>1, StFact DEF DestroyAll, Mems
  <2>3. m2 = m
    BY <2>1, <2>2, StFact DEF Teardown, FreeChunks, Mems
  <2> QED  BY <2>1, <2>3 DEF Change
<1>2. CASE \E ms, A : Deq(m, d, ms, A, s)
  BY <1>2, TeardownFact
<1> QED  BY <1>1, <1>2 DEF Holds

LEMMA NoMapType == NoMap \in Fields /\ NoMap # None /\ NoMap.map \in Maps(0)
<1>1. <<>> \in Maps(0)
  BY DEF Maps
<1>2. 0 \in 0..MaxMaps
  BY BoundsAssumption
<1>3. <<>> \in UNION {Maps(n) : n \in 0..MaxMaps}
  BY <1>1, <1>2
<1>4. NoMap \in Fields
  <2> HIDE DEF Maps, Iterators
  <2> QED  BY <1>3 DEF Fields, NoMap, Members
<1> QED  BY <1>1, <1>4, NoneAssumption, NoMapFact

LEMMA HoldsFact ==
  ASSUME NEW m, NEW d, NEW s, Holds(m, d, s)
  PROVE  /\ s \in Seq(Values) /\ Shaped(d) /\ MapSize(d) \in Nat
         /\ MapSize(d) <= MaxMaps => d \in Fields
<1>1. CASE d = NoMap /\ s = <<>>
  <2>1. s \in Seq(Values)
    BY <1>1
  <2> QED  BY <1>1, <2>1, NoMapType, NoMapFact DEF Shaped
<1>2. CASE \E ms, A : Deq(m, d, ms, A, s)
  <2>1. PICK ms, A : Deq(m, d, ms, A, s)
    BY <1>2
  <2>2. s \in Seq(Values) /\ MapSize(d) = ms /\ ms \in Nat /\ A \in Nat /\ A + Len(s) \in Nat
    BY <2>1, DeqFact
  <2>3. ms <= MaxMaps => d \in Fields
    BY <2>1, DeqType
  <2>4. Shaped(d)
    <3>1. PICK Q \in Nat : Q = A + Len(s) /\ A <= Q
      BY <2>2
    <3>2. Spanned(d, ms, A, Q)
      BY <2>1, <3>1 DEF Deq, Room, Spanned
    <3> QED  BY <2>2, <3>2 DEF Shaped
  <2> QED  BY <2>2, <2>3, <2>4
<1> QED  BY <1>1, <1>2 DEF Holds

LEMMA ShapedFact ==
  ASSUME NEW d, Shaped(d)
  PROVE  Owned(d) \in SUBSET Chunks /\ MapSize(d) \in Nat
<1>1. CASE d = NoMap
  BY <1>1, NoMapFact
<1>2. ASSUME NEW ms, NEW P \in Nat, NEW Q \in Nat, Spanned(d, ms, P, Q)
      PROVE  Owned(d) \in SUBSET Chunks /\ MapSize(d) \in Nat
  <2>1. Owned(d) = In(d.map, Node(P), Node(Q)) /\ MapSize(d) = ms /\ ms \in Nat
    BY <1>2, ShapeFact DEF Spanned
  <2>2. In(d.map, Node(P), Node(Q)) \in SUBSET Chunks
    BY <1>2, TableFact DEF Spanned
  <2> QED  BY <2>1, <2>2
<1> QED  BY <1>1, <1>2 DEF Shaped

\* The other objects have their chunks still, and nobody touches them.
OthersKept(f, o, f2) == \A x \in Objects \ {o} : f2[x] = f[x]
OthersSafe(m, f, o, m2) == \A x \in Objects \ {o} : \A c \in f[x] : m2[c] = m[c]

\* One object's chunks change.
LEMMA SharesStep ==
  ASSUME NEW m, NEW f, Shares(m, f), NEW o \in Objects, NEW S, S = f[o],
         NEW m2, NEW S2, Change(m, S, m2, S2),
         NEW f2, f2[o] = S2, OthersKept(f, o, f2)
  PROVE  Shares(m2, f2) /\ OthersSafe(m, f, o, m2)
<1>0. \A x \in Objects \ {o} : f2[x] = f[x]
  BY DEF OthersKept
<1>1. ASSUME NEW x \in Objects \ {o}, NEW c \in f[x]
      PROVE  c \in Chunks /\ c \notin S /\ c \notin S2 /\ m2[c] = m[c] /\ m[c] # None
  <2>1. c \in Chunks /\ c \notin S /\ m[c] # None
    BY <1>1 DEF Shares
  <2>2. c \notin S2
    BY <2>1 DEF Change
  <2> QED  BY <2>1, <2>2 DEF Change
<1>2. m2 \in Mems /\ S2 \in SUBSET Chunks
  BY DEF Change
<1>3. ASSUME NEW x \in Objects  PROVE f2[x] \in SUBSET Chunks /\ \A c \in f2[x] : m2[c] # None
  <2>1. CASE x = o
    BY <2>1, <1>2 DEF Change
  <2>2. CASE x # o
    BY <2>2, <1>0, <1>1
  <2> QED  BY <2>1, <2>2
<1>4. ASSUME NEW c \in Chunks, m2[c] # None  PROVE \E x \in Objects : c \in f2[x]
  <2>1. CASE c \in S2
    BY <2>1
  <2>2. CASE c \notin S2
    <3>1. c \notin S
      BY <2>2, <1>4 DEF Change
    <3>2. m[c] # None
      BY <2>2, <3>1, <1>4 DEF Change
    <3>3. PICK x \in Objects : c \in f[x]
      BY <3>2 DEF Shares
    <3>4. x # o
      BY <3>1, <3>3
    <3> QED  BY <3>3, <3>4, <1>0
  <2> QED  BY <2>1, <2>2
<1>5. ASSUME NEW x \in Objects, NEW y \in Objects, NEW c \in f2[x], c \in f2[y]  PROVE x = y
  <2>1. CASE x # o /\ y # o
    BY <2>1, <1>0, <1>5 DEF Shares
  <2>2. CASE x = o \/ y = o
    BY <2>2, <1>0, <1>1, <1>5
  <2> QED  BY <2>1, <2>2
<1>6. Shares(m2, f2)
  BY <1>2, <1>3, <1>4, <1>5 DEF Shares
<1>7. OthersSafe(m, f, o, m2)
  BY <1>1 DEF OthersSafe
<1> QED  BY <1>6, <1>7

\* Two objects exchange their chunks.
LEMMA SharesSwap ==
  ASSUME NEW m, NEW f, Shares(m, f), NEW o \in Objects, NEW x \in Objects,
         NEW f2, f2[o] = f[x], f2[x] = f[o], \A y \in Objects \ {o, x} : f2[y] = f[y]
  PROVE  Shares(m, f2)
<1>1. \A y \in Objects : \E z \in Objects : f2[y] = f[z]
  OBVIOUS
<1>2. \A y \in Objects : \E z \in Objects : f[y] = f2[z]
  OBVIOUS
<1>3. \A y, z \in Objects : \A c \in f2[y] : c \in f2[z] => y = z
  BY DEF Shares
<1>4. \A y \in Objects : f2[y] \in SUBSET Chunks /\ \A c \in f2[y] : m[c] # None
  <2> SUFFICES ASSUME NEW y \in Objects  PROVE f2[y] \in SUBSET Chunks /\ \A c \in f2[y] : m[c] # None
    OBVIOUS
  <2>1. PICK z \in Objects : f2[y] = f[z]
    BY <1>1
  <2> QED  BY <2>1 DEF Shares
<1>5. \A c \in Chunks : m[c] # None => \E y \in Objects : c \in f2[y]
  <2> SUFFICES ASSUME NEW c \in Chunks, m[c] # None  PROVE \E y \in Objects : c \in f2[y]
    OBVIOUS
  <2>1. PICK y \in Objects : c \in f[y]
    BY DEF Shares
  <2>2. PICK z \in Objects : f[y] = f2[z]
    BY <1>2
  <2> QED  BY <2>1, <2>2
<1> QED  BY <1>3, <1>4, <1>5 DEF Shares

\* What becomes of one object.
Entry(m, d, s, bad) ==
  /\ d \in Fields \cup {None} /\ s \in Seq(Values) \cup {None}
  /\ d # None => Shaped(d)
  /\ d # None /\ ~bad => Holds(m, d, s)
  /\ bad => d # None

Updated(f, o, x) == [f EXCEPT ![o] = x]
Swapped(f, o, x) == [f EXCEPT ![o] = f[x], ![x] = f[o]]

LEMMA SoundOne ==
  ASSUME NEW ob, NEW m, NEW md, NEW br, Sound(ob, m, md, br), NEW o \in Objects,
         NEW m2, NEW d2, NEW s2, NEW br2, br2 \in SUBSET Objects, br2 \ {o} = br \ {o},
         Change(m, Chunked(ob[o]), m2, Chunked(d2)), Entry(m2, d2, s2, o \in br2),
         NEW ob2, ob2 = Updated(ob, o, d2), NEW md2, md2 = Updated(md, o, s2)
  PROVE  Sound(ob2, m2, md2, br2) /\ \A x \in Objects \ {o} : \A c \in Chunked(ob[x]) : m2[c] = m[c]
<1>1. /\ ob2 \in [Objects -> Fields \cup {None}] /\ ob2[o] = d2
      /\ \A x \in Objects \ {o} : ob2[x] = ob[x]
  <2> HIDE DEF Fields
  <2> QED  BY DEF Sound, Entry, Updated
<1>2. /\ md2 \in [Objects -> Seq(Values) \cup {None}] /\ md2[o] = s2
      /\ \A x \in Objects \ {o} : md2[x] = md[x]
  BY DEF Sound, Entry, Updated
<1> DEFINE f == Claims(ob)
           f2 == Claims(ob2)
<1>3. /\ f[o] = Chunked(ob[o]) /\ f2[o] = Chunked(d2)
      /\ \A x \in Objects \ {o} : f2[x] = f[x] /\ f[x] = Chunked(ob[x])
  BY <1>1 DEF Claims
<1>4. Shares(m, f)
  BY DEF Sound
<1> HIDE DEF f, f2
<1>5. Shares(m2, f2) /\ \A x \in Objects \ {o} : \A c \in f[x] : m2[c] = m[c]
  <2>1. PICK S, S2 : S = f[o] /\ S2 = f2[o] /\ Change(m, S, m2, S2)
    BY <1>3
  <2>2. OthersKept(f, o, f2)
    BY <1>3 DEF OthersKept
  <2>3. Shares(m2, f2) /\ OthersSafe(m, f, o, m2)
    BY <2>1, <2>2, <1>4, SharesStep
  <2> QED  BY <2>3 DEF OthersSafe
<1>6. ASSUME NEW x \in Objects  PROVE ob2[x] # None => Shaped(ob2[x])
  <2>1. CASE x = o
    BY <2>1, <1>1 DEF Entry
  <2>2. CASE x # o
    BY <2>2, <1>1 DEF Sound
  <2> QED  BY <2>1, <2>2
<1>7. ASSUME NEW x \in Objects \ br2, ob2[x] # None  PROVE Holds(m2, ob2[x], md2[x])
  <2>1. CASE x = o
    BY <2>1, <1>1, <1>2, <1>7 DEF Entry
  <2>2. CASE x # o
    <3>1. x \notin br /\ ob2[x] = ob[x] /\ md2[x] = md[x] /\ ob[x] # None
      BY <2>2, <1>1, <1>2, <1>7
    <3>2. Holds(m, ob[x], md[x])
      BY <3>1 DEF Sound
    <3>3. \A c \in Owned(ob[x]) : m2[c] = m[c]
      BY <2>2, <3>1, <1>3, <1>5 DEF Chunked
    <3>4. m2 \in Mems
      BY <1>5 DEF Shares
    <3> QED  BY <3>1, <3>2, <3>3, <3>4, HoldsFrame
  <2> QED  BY <2>1, <2>2
<1>8. br2 \in SUBSET {x \in Objects : ob2[x] # None}
  <2> SUFFICES ASSUME NEW x \in br2  PROVE ob2[x] # None
    OBVIOUS
  <2>1. CASE x = o
    BY <2>1, <1>1 DEF Entry
  <2>2. CASE x # o
    <3>1. x \in br
      BY <2>2
    <3> QED  BY <2>2, <3>1, <1>1 DEF Sound
  <2> QED  BY <2>1, <2>2
<1>9. Sound(ob2, m2, md2, br2)
  <2>1. Shares(m2, Claims(ob2))
    BY <1>5 DEF f2
  <2> QED  BY <2>1, <1>1, <1>2, <1>6, <1>7, <1>8 DEF Sound
<1> QED  BY <1>3, <1>5, <1>9

LEMMA SoundSwap ==
  ASSUME NEW ob, NEW m, NEW md, NEW br, Sound(ob, m, md, br), NEW o \in Objects \ br, NEW x \in Objects \ br, o # x,
         ob[o] # None, ob[x] # None,
         NEW ob2, ob2 = Swapped(ob, o, x), NEW md2, md2 = Swapped(md, o, x)
  PROVE  Sound(ob2, m, md2, br)
<1>1. /\ ob2 \in [Objects -> Fields \cup {None}] /\ ob2[o] = ob[x] /\ ob2[x] = ob[o]
      /\ \A y \in Objects \ {o, x} : ob2[y] = ob[y]
  <2> HIDE DEF Fields
  <2> QED  BY DEF Sound, Swapped
<1>2. /\ md2 \in [Objects -> Seq(Values) \cup {None}] /\ md2[o] = md[x] /\ md2[x] = md[o]
      /\ \A y \in Objects \ {o, x} : md2[y] = md[y]
  BY DEF Sound, Swapped
<1>3. Shares(m, Claims(ob2))
  <2> DEFINE f == Claims(ob)
             f2 == Claims(ob2)
  <2>1. f2[o] = f[x] /\ f2[x] = f[o] /\ \A y \in Objects \ {o, x} : f2[y] = f[y]
    BY <1>1 DEF Claims
  <2>2. Shares(m, f)
    BY DEF Sound
  <2> HIDE DEF f, f2
  <2>3. Shares(m, f2)
    BY <2>1, <2>2, SharesSwap
  <2> QED  BY <2>3 DEF f2
<1>4. ASSUME NEW y \in Objects, ob2[y] # None
      PROVE  Shaped(ob2[y]) /\ (y \notin br => Holds(m, ob2[y], md2[y]))
  <2>1. CASE y = o
    BY <2>1, <1>1, <1>2 DEF Sound
  <2>2. CASE y = x
    BY <2>2, <1>1, <1>2 DEF Sound
  <2>3. CASE y \notin {o, x}
    BY <2>3, <1>1, <1>2, <1>4 DEF Sound
  <2> QED  BY <2>1, <2>2, <2>3
<1>5. br \in SUBSET {y \in Objects : ob2[y] # None}
  BY <1>1 DEF Sound
<1> QED  BY <1>1, <1>2, <1>3, <1>4, <1>5 DEF Sound

-----------------------------------------------------------------------------
(* Where the elements are.                                                 *)

\* What a step does to the elements of one deque.
Stays(m, d, m2, d2) ==
  LET before == Placement(St(m, d))
      after == Placement(St(m2, d2))
  IN \/ Owned(d) \cap Owned(d2) = {}
     \/ Begins(before, after) \/ Begins(after, before)
     \/ Finishes(before, after) \/ Finishes(after, before)

LEMMA PlacementFact ==
  ASSUME NEW m, NEW d, NEW ms, NEW A, NEW s, Deq(m, d, ms, A, s)
  PROVE  /\ Len(Placement(St(m, d))) = Len(s)
         /\ \A i \in 1..Len(s) : Placement(St(m, d))[i] = <<Spot(d.map, A + (i - 1)), s[i]>>
<1>1. A \in Nat /\ s \in Seq(Values) /\ Len(s) \in Nat
  BY DeqFact
<1>2. Positions(d) = Places(A, Len(s))
  BY ContentsFact
<1>3. PICK n \in Nat : n = Len(s)
  BY <1>1
<1> DEFINE E(i) == <<Address(d, Places(A, n)[i]), Element(St(m, d), Places(A, n)[i])>>
<1>4. Placement(St(m, d)) = [i \in 1..n |-> E(i)]
  <2>1. DOMAIN Places(A, n) = 1..n
    BY DEF Places
  <2> QED  BY <1>2, <1>3, <2>1, StFact DEF Placement
<1>5. ASSUME NEW i \in 1..n  PROVE E(i) = <<Spot(d.map, A + (i - 1)), s[i]>>
  <2>1. PICK p \in Nat : p = A + (i - 1)
    BY <1>1
  <2>2. Places(A, n)[i] = At(p)
    BY <2>1 DEF Places
  <2>3. At(p).node = Node(p) /\ At(p).off = Off(p)
    BY AtFact
  <2>4. Address(d, At(p)) = Spot(d.map, p)
    BY <2>3 DEF Address, Spot
  <2>5. Element(St(m, d), At(p)) = s[i]
    BY <1>3, <2>1, ElementFact
  <2> QED  BY <2>1, <2>2, <2>4, <2>5
<1> HIDE DEF E
<1>6. Len(Placement(St(m, d))) = n
  BY <1>4
<1>7. \A i \in 1..n : Placement(St(m, d))[i] = <<Spot(d.map, A + (i - 1)), s[i]>>
  BY <1>4, <1>5
<1> QED  BY <1>3, <1>6, <1>7

\* The longer deque goes on at the back, or at the front.
LEMMA StaysAtBack ==
  ASSUME NEW m, NEW d, NEW ms, NEW A, NEW s, Deq(m, d, ms, A, s),
         NEW m2, NEW d2, NEW ms2, NEW A2, NEW s2, Deq(m2, d2, ms2, A2, s2),
         Len(s) <= Len(s2), \A i \in 1..Len(s) : s2[i] = s[i], SameSpots(d.map, A, d2.map, A2, Len(s))
  PROVE  Begins(Placement(St(m, d)), Placement(St(m2, d2)))
<1>1. A \in Nat /\ A2 \in Nat /\ Len(s) \in Nat /\ Len(s2) \in Nat
  BY DeqFact
<1> DEFINE before == Placement(St(m, d))
           after == Placement(St(m2, d2))
<1>2. Len(before) = Len(s) /\ \A i \in 1..Len(s) : before[i] = <<Spot(d.map, A + (i - 1)), s[i]>>
  BY PlacementFact
<1>3. Len(after) = Len(s2) /\ \A i \in 1..Len(s2) : after[i] = <<Spot(d2.map, A2 + (i - 1)), s2[i]>>
  BY PlacementFact
<1> HIDE DEF before, after
<1>4. ASSUME NEW i \in 1..Len(s)  PROVE after[i] = before[i]
  <2>1. i \in 1..Len(s2) /\ i - 1 \in 0..Len(s)
    BY <1>1
  <2>2. Spot(d2.map, A2 + (i - 1)) = Spot(d.map, A + (i - 1))
    BY <2>1 DEF SameSpots
  <2> QED  BY <1>2, <1>3, <2>1, <2>2
<1>5. Begins(before, after)
  BY <1>2, <1>3, <1>4 DEF Begins
<1> QED  BY <1>5 DEF before, after

LEMMA StaysAtFront ==
  ASSUME NEW m, NEW d, NEW ms, NEW A, NEW s, Deq(m, d, ms, A, s),
         NEW m2, NEW d2, NEW ms2, NEW A2, NEW s2, Deq(m2, d2, ms2, A2, s2),
         Len(s2) = Len(s) + 1, \A i \in 1..Len(s) : s2[i + 1] = s[i], SameSpots(d.map, A, d2.map, A2 + 1, Len(s))
  PROVE  Finishes(Placement(St(m, d)), Placement(St(m2, d2)))
<1>1. A \in Nat /\ A2 \in Nat /\ Len(s) \in Nat /\ Len(s2) \in Nat
  BY DeqFact
<1> DEFINE before == Placement(St(m, d))
           after == Placement(St(m2, d2))
<1>2. Len(before) = Len(s) /\ \A i \in 1..Len(s) : before[i] = <<Spot(d.map, A + (i - 1)), s[i]>>
  BY PlacementFact
<1>3. Len(after) = Len(s2) /\ \A i \in 1..Len(s2) : after[i] = <<Spot(d2.map, A2 + (i - 1)), s2[i]>>
  BY PlacementFact
<1> HIDE DEF before, after
<1>4. ASSUME NEW i \in 1..Len(s)  PROVE after[Len(after) - Len(before) + i] = before[i]
  <2>1. i + 1 \in 1..Len(s2) /\ i - 1 \in 0..Len(s) /\ Len(after) - Len(before) + i = i + 1
    BY <1>1, <1>2, <1>3
  <2>2. Spot(d2.map, A2 + 1 + (i - 1)) = Spot(d.map, A + (i - 1))
    BY <2>1 DEF SameSpots
  <2>3. A2 + 1 + (i - 1) = A2 + ((i + 1) - 1)
    BY <1>1
  <2>4. after[i + 1] = <<Spot(d2.map, A2 + ((i + 1) - 1)), s2[i + 1]>>
    BY <1>3, <2>1
  <2> QED  BY <1>2, <2>1, <2>2, <2>3, <2>4
<1>5. Finishes(before, after)
  BY <1>1, <1>2, <1>3, <1>4 DEF Finishes
<1> QED  BY <1>5 DEF before, after

\* The deque without elements.
LEMMA StaysEmpty ==
  ASSUME NEW m, NEW d, NEW ms, NEW A, NEW s, Deq(m, d, ms, A, s),
         NEW m2, NEW d2, NEW ms2, NEW A2, NEW s2, Deq(m2, d2, ms2, A2, s2), Len(s2) = 0
  PROVE  Begins(Placement(St(m2, d2)), Placement(St(m, d)))
<1>1. Len(s) \in Nat
  BY DeqFact
<1> DEFINE before == Placement(St(m, d))
           after == Placement(St(m2, d2))
<1>2. Len(before) = Len(s) /\ Len(after) = 0
  BY PlacementFact
<1> HIDE DEF before, after
<1>3. Begins(after, before)
  BY <1>1, <1>2 DEF Begins
<1> QED  BY <1>3 DEF before, after

\* The storage at the places P..Q.
Stored(m, d, p) == m[d.map[Node(p)]][Off(p)]

PlacedAt(m, d, P, n) == [i \in 1..n |-> <<Spot(d.map, P + (i - 1)), Stored(m, d, P + (i - 1))>>]

LEMMA PlacementAt ==
  ASSUME NEW m, NEW d, NEW ms, NEW P \in Nat, NEW n \in Nat, NEW Q \in Nat, Q = P + n, Spanned(d, ms, P, Q)
  PROVE  /\ Len(Placement(St(m, d))) = n
         /\ Placement(St(m, d)) = PlacedAt(m, d, P, n)
<1>1. P + n \in Nat
  OBVIOUS
<1>2. MapSize(d) # 0 /\ d.start = At(P) /\ d.finish = At(P + n)
  <2>1. ms \in Nat /\ ms >= 1 /\ MapSize(d) = ms /\ d.start = At(P) /\ d.finish = At(P + n)
    BY ShapeFact DEF Spanned
  <2> QED  BY <2>1
<1>3. Positions(d) = Places(P, n)
  BY <1>2, PositionsFact
<1> DEFINE E(i) == <<Address(d, Places(P, n)[i]), Element(St(m, d), Places(P, n)[i])>>
           F(i) == <<Spot(d.map, P + (i - 1)), Stored(m, d, P + (i - 1))>>
<1>4. Placement(St(m, d)) = [i \in 1..n |-> E(i)]
  <2>1. DOMAIN Places(P, n) = 1..n
    BY DEF Places
  <2> QED  BY <1>3, <2>1, StFact DEF Placement
<1>5. ASSUME NEW i \in 1..n  PROVE E(i) = F(i)
  <2>1. PICK p \in Nat : p = P + (i - 1)
    OBVIOUS
  <2>2. Places(P, n)[i] = At(p)
    BY <2>1 DEF Places
  <2>3. At(p).node = Node(p) /\ At(p).off = Off(p)
    BY AtFact
  <2>4. Address(d, At(p)) = Spot(d.map, p)
    BY <2>3 DEF Address, Spot
  <2>5. Element(St(m, d), At(p)) = Stored(m, d, p)
    BY <2>3, StFact DEF Element, Stored
  <2> QED  BY <2>1, <2>2, <2>4, <2>5
<1> HIDE DEF E, F
<1>6. Placement(St(m, d)) = [i \in 1..n |-> F(i)]
  BY <1>4, <1>5
<1>7. Len(Placement(St(m, d))) = n
  BY <1>6
<1> QED  BY <1>6, <1>7 DEF F, PlacedAt

\* Nothing happens to a deque whose chunks nobody touches.
LEMMA StaysUntouched ==
  ASSUME NEW m, NEW d, Shaped(d), NEW m2, \A c \in Owned(d) : m2[c] = m[c]
  PROVE  Stays(m, d, m2, d)
<1>1. CASE d = NoMap
  BY <1>1, NoMapFact DEF Stays
<1>2. ASSUME NEW ms, NEW P \in Nat, NEW Q \in Nat, Spanned(d, ms, P, Q)
      PROVE  Stays(m, d, m2, d)
  <2>1. PICK n \in Nat : Q = P + n
    <3>1. Q - P \in Nat /\ Q = P + (Q - P)
      BY <1>2 DEF Spanned
    <3> QED  BY <3>1
  <2> DEFINE before == Placement(St(m, d))
             after == Placement(St(m2, d))
  <2>3. Len(before) = n /\ before = PlacedAt(m, d, P, n)
    BY <1>2, <2>1, PlacementAt
  <2>4. after = PlacedAt(m2, d, P, n)
    BY <1>2, <2>1, PlacementAt
  <2>5. ASSUME NEW i \in 1..n  PROVE Stored(m2, d, P + (i - 1)) = Stored(m, d, P + (i - 1))
    <3>1. PICK p \in Nat : p = P + (i - 1) /\ p \in P..(P + n)
      OBVIOUS
    <3>2. Node(p) \in Node(P)..Node(Q)
      BY <2>1, <3>1, SpanFact
    <3>3. Owned(d) = In(d.map, Node(P), Node(Q))
      BY <1>2, ShapeFact DEF Spanned
    <3>4. d.map[Node(p)] \in Owned(d)
      BY <3>2, <3>3 DEF In
    <3> QED  BY <3>1, <3>4 DEF Stored
  <2> HIDE DEF before, after
  <2>6. after = before
    BY <2>3, <2>4, <2>5 DEF PlacedAt
  <2>7. Begins(before, after)
    BY <2>3, <2>6 DEF Begins
  <2> QED  BY <2>7 DEF Stays, before, after
<1> QED  BY <1>1, <1>2 DEF Shaped

\* push_front_aux has opened a place that nothing was constructed at.
LEMMA StaysOpened ==
  ASSUME NEW m, NEW d, NEW ms, NEW A, NEW s, Deq(m, d, ms, A, s),
         NEW m2, NEW d2, NEW ms2, NEW P, Opened(m2, d2, ms2, P, s), SameSpots(d.map, A, d2.map, P + 1, Len(s))
  PROVE  Finishes(Placement(St(m, d)), Placement(St(m2, d2))) /\ Shaped(d2) /\ MapSize(d2) = ms2 /\ (ms2 <= MaxMaps => d2 \in Fields)
<1>1. A \in Nat /\ Len(s) \in Nat /\ s \in Seq(Values)
  BY DeqFact
<1>2. P \in Nat
  BY DEF Opened
<1>3. PICK n \in Nat, k \in Nat : n = Len(s) /\ k = n + 1
  BY <1>1
<1>9. PICK Q \in Nat : Q = P + k /\ P <= Q
  BY <1>2
<1>4. Spanned(d2, ms2, P, Q)
  BY <1>3, <1>9 DEF Opened, Spanned
<1> DEFINE before == Placement(St(m, d))
           after == Placement(St(m2, d2))
<1>5. Len(before) = n /\ \A i \in 1..n : before[i] = <<Spot(d.map, A + (i - 1)), s[i]>>
  BY <1>3, PlacementFact
<1>6. Len(after) = k /\ after = PlacedAt(m2, d2, P, k)
  BY <1>2, <1>4, <1>9, PlacementAt
<1> HIDE DEF before, after
<1>7. ASSUME NEW i \in 1..n  PROVE after[Len(after) - Len(before) + i] = before[i]
  <2>1. PICK p \in Nat : p = P + ((i + 1) - 1) /\ p = P + 1 + (i - 1) /\ p \in P..(P + k)
    BY <1>2, <1>3
  <2>2. i + 1 \in 1..k /\ Len(after) - Len(before) + i = i + 1 /\ i - 1 \in 0..n
    BY <1>3, <1>5, <1>6
  <2>3. after[i + 1] = <<Spot(d2.map, p), Stored(m2, d2, p)>>
    BY <1>6, <2>1, <2>2 DEF PlacedAt
  <2>4. Spot(d2.map, p) = Spot(d.map, A + (i - 1))
    BY <1>3, <2>1, <2>2 DEF SameSpots
  <2>5. Stored(m2, d2, p) = s[i]
    <3>1. PICK x \in Nat, j \in Offsets : x = Node(p) /\ j = Off(p) /\ p = Row(x) + j
      BY PlaceFact
    <3>2. x \in Node(P)..Node(P + k)
      BY <1>2, <2>1, <3>1, SpanFact
    <3>3. m2[d2.map[x]] = RowOf(s, P + 1, x)
      BY <1>3, <3>2 DEF Opened, Shows
    <3>4. Stored(m2, d2, p) = Cell(s, P + 1, p)
      BY <3>1, <3>3 DEF Stored, RowOf
    <3>5. p \in (P + 1)..(P + 1 + n - 1) /\ p - (P + 1) + 1 = i
      BY <1>2, <2>1
    <3> QED  BY <1>3, <3>4, <3>5 DEF Cell
  <2> QED  BY <1>5, <2>2, <2>3, <2>4, <2>5
<1>8. Finishes(before, after)
  BY <1>3, <1>5, <1>6, <1>7 DEF Finishes
<1>10. Shaped(d2)
  <2>1. ms2 \in Nat
    BY <1>4 DEF Spanned, Table
  <2> QED  BY <1>2, <1>4, <2>1 DEF Shaped
<1>11. MapSize(d2) = ms2 /\ (ms2 <= MaxMaps => d2 \in Fields)
  <2>1. MapSize(d2) = ms2
    BY <1>2, <1>4, <1>9, ShapeFact DEF Spanned
  <2>2. ms2 \in Nat /\ d2.map \in Maps(ms2)
    BY <1>4 DEF Spanned, Table
  <2>3. d2 = Members(d2.map, At(P), At(Q))
    BY <1>4 DEF Spanned
  <2> QED  BY <1>2, <1>9, <2>1, <2>2, <2>3, MembersType
<1> QED  BY <1>8, <1>10, <1>11 DEF before, after

-----------------------------------------------------------------------------
(* A step changes one deque, and the others stay as they are.              *)

One(o, d2, s2) ==
  /\ obj' = [obj EXCEPT ![o] = d2] /\ model' = [model EXCEPT ![o] = s2]
  /\ broken' \in SUBSET Objects /\ broken' \ {o} = broken \ {o}
  /\ Change(mem, Chunked(obj[o]), mem', Chunked(d2))
  /\ Entry(mem', d2, s2, o \in broken')
  /\ obj[o] # None /\ d2 # None => Stays(mem, obj[o], mem', d2)

\* What ElementsStay says of a step.
Stayed == \A o \in Alive \cap Alive' : Stays(mem, obj[o], mem', obj'[o])

LEMMA OneStep ==
  ASSUME IInv, NEW o \in Objects, NEW d2, NEW s2, One(o, d2, s2)
  PROVE  IInv' /\ Stayed
<1>1. /\ Sound(obj, mem, model, broken) /\ broken' \in SUBSET Objects /\ broken' \ {o} = broken \ {o}
      /\ Change(mem, Chunked(obj[o]), mem', Chunked(d2)) /\ Entry(mem', d2, s2, o \in broken')
      /\ obj' = [obj EXCEPT ![o] = d2] /\ model' = [model EXCEPT ![o] = s2]
  BY DEF One, IInv
<1>2. PICK ob2, m2, md2, br2 : ob2 = obj' /\ m2 = mem' /\ md2 = model' /\ br2 = broken'
  OBVIOUS
<1>3. Sound(ob2, m2, md2, br2) /\ \A x \in Objects \ {o} : \A c \in Chunked(obj[x]) : m2[c] = mem[c]
  <2>1. /\ br2 \in SUBSET Objects /\ br2 \ {o} = broken \ {o}
        /\ Change(mem, Chunked(obj[o]), m2, Chunked(d2)) /\ Entry(m2, d2, s2, o \in br2)
        /\ ob2 = Updated(obj, o, d2) /\ md2 = Updated(model, o, s2)
    BY <1>1, <1>2 DEF Updated
  <2>2. Sound(obj, mem, model, broken)
    BY <1>1
  <2> QED  BY <2>1, <2>2, SoundOne
<1>4. IInv'
  BY <1>2, <1>3 DEF IInv
<1>5. ASSUME NEW x \in Alive \cap Alive'  PROVE Stays(mem, obj[x], mem', obj'[x])
  <2>1. x \in Objects /\ obj[x] # None /\ obj'[x] # None
    BY <1>5 DEF Alive
  <2>2. obj \in [Objects -> Fields \cup {None}] /\ Shaped(obj[x])
    BY <1>1, <2>1 DEF Sound
  <2>3. CASE x = o
    <3>1. obj'[x] = d2
      BY <1>1, <2>2, <2>3
    <3> QED  BY <2>1, <2>3, <3>1 DEF One
  <2>4. CASE x # o
    <3>1. obj'[x] = obj[x]
      BY <1>1, <2>1, <2>2, <2>4
    <3>2. \A c \in Owned(obj[x]) : m2[c] = mem[c]
      BY <1>3, <2>1, <2>4 DEF Chunked
    <3>3. Stays(mem, obj[x], m2, obj[x])
      BY <2>2, <3>2, StaysUntouched
    <3> QED  BY <3>1, <3>3, <1>2
  <2> QED  BY <2>3, <2>4
<1> QED  BY <1>4, <1>5 DEF Stayed

LEMMA BecomesOne ==
  ASSUME IInv, NEW o \in Objects \ broken, NEW m2, NEW d2, NEW s2, Becomes(o, St(m2, d2), s2),
         Change(mem, Chunked(obj[o]), m2, Owned(d2)), Holds(m2, d2, s2),
         obj[o] # None => Stays(mem, obj[o], m2, d2)
  PROVE  One(o, d2, s2)
<1>1. /\ mem' = m2 /\ obj' = [obj EXCEPT ![o] = d2] /\ model' = [model EXCEPT ![o] = s2]
      /\ broken' = broken /\ MapSize(d2) <= MaxMaps
  BY StFact DEF Becomes, MapFits
<1>2. s2 \in Seq(Values) /\ Shaped(d2) /\ d2 \in Fields
  BY <1>1, HoldsFact
<1>3. d2 # None
  BY <1>2, NoneAssumption
<1>4. Chunked(d2) = Owned(d2)
  BY <1>3 DEF Chunked
<1>5. Entry(m2, d2, s2, o \in broken)
  BY <1>2 DEF Entry
<1>6. broken \in SUBSET Objects
  BY DEF IInv, Sound
<1> QED  BY <1>1, <1>3, <1>4, <1>5, <1>6 DEF One

LEMMA UsableFact ==
  ASSUME IInv, NEW o \in Usable
  PROVE  /\ o \in Objects \ broken /\ obj[o] # None /\ Holds(mem, obj[o], model[o])
         /\ Chunked(obj[o]) = Owned(obj[o]) /\ model[o] \in Seq(Values)
         /\ obj[o] = NoMap => model[o] = <<>>
         /\ obj[o] # NoMap => \E ms, A : Deq(mem, obj[o], ms, A, model[o])
<1>1. o \in Objects \ broken /\ obj[o] # None
  BY DEF Usable, Alive
<1>2. Holds(mem, obj[o], model[o])
  BY <1>1 DEF IInv, Sound
<1>3. model[o] \in Seq(Values)
  BY <1>2, HoldsFact
<1>4. obj[o] = NoMap => model[o] = <<>>
  <2>1. ASSUME obj[o] = NoMap, NEW ms, NEW A, Deq(mem, obj[o], ms, A, model[o])  PROVE FALSE
    <3>1. ms \in Nat /\ ms >= 1 /\ MapSize(obj[o]) = ms
      BY <2>1, DeqFact
    <3>2. MapSize(obj[o]) = 0
      BY <2>1, NoMapFact
    <3> QED  BY <3>1, <3>2
  <2> QED  BY <1>2, <2>1 DEF Holds
<1>5. obj[o] # NoMap => \E ms, A : Deq(mem, obj[o], ms, A, model[o])
  BY <1>2 DEF Holds
<1> QED  BY <1>1, <1>2, <1>3, <1>4, <1>5 DEF Chunked

LEMMA HasMapFact ==
  ASSUME IInv, NEW o \in Objects, HasMap(o)
  PROVE  o \in Usable /\ \E ms, A : Deq(mem, obj[o], ms, A, model[o])
<1>1. o \in Usable /\ MapSize(obj[o]) # 0
  BY DEF HasMap
<1>2. obj[o] # NoMap
  BY <1>1, NoMapFact
<1> QED  BY <1>1, <1>2, UsableFact

\* A member function leaves the deque o with the contents s2.
LEMMA SteppedOne ==
  ASSUME IInv, NEW o \in Usable, NEW m2, NEW d2, NEW ms2, NEW A2, NEW s2, Becomes(o, St(m2, d2), s2),
         Stepped(mem, obj[o], m2, d2, ms2, A2, s2), Stays(mem, obj[o], m2, d2)
  PROVE  One(o, d2, s2)
<1>1. o \in Objects \ broken /\ Chunked(obj[o]) = Owned(obj[o])
  BY UsableFact
<1>2. Change(mem, Owned(obj[o]), m2, Owned(d2)) /\ Holds(m2, d2, s2)
  BY DEF Stepped, Holds
<1> QED  BY <1>1, <1>2, BecomesOne

LEMMA PushBackOne ==
  ASSUME IInv, NEW o \in Objects, NEW v \in Values, PushBack(o, v)
  PROVE  \E d2, s2 : One(o, d2, s2)
<1>1. HasMap(o) /\ CanAllocate(1) /\ Becomes(o, PushedBack(St(mem, obj[o]), v), Append(model[o], v))
  BY DEF PushBack, State
<1>2. o \in Usable
  BY <1>1, HasMapFact
<1>3. PICK d, s : d = obj[o] /\ s = model[o]
  OBVIOUS
<1>4. PICK ms, A : Deq(mem, d, ms, A, s)
  BY <1>1, <1>3, HasMapFact
<1>5. 1 <= Cardinality(Free(mem))
  BY <1>1, FreeFinite DEF CanAllocate
<1>6. PICK m2, d2, ms2, A2 : PushedBackTo(mem, d, A, s, v, m2, d2, ms2, A2)
  BY <1>4, <1>5, PushedBackFact
<1>7. /\ PushedBack(St(mem, d), v) = St(m2, d2) /\ Stepped(mem, d, m2, d2, ms2, A2, Append(s, v))
      /\ SameSpots(d.map, A, d2.map, A2, Len(s))
  BY <1>6 DEF PushedBackTo
<1>8. PICK s2 : s2 = Append(s, v)
  OBVIOUS
<1>9. s \in Seq(Values) /\ Len(s) \in Nat
  BY <1>4, DeqFact
<1>10. Len(s) <= Len(s2) /\ \A i \in 1..Len(s) : s2[i] = s[i]
  BY <1>8, <1>9
<1>11. Deq(m2, d2, ms2, A2, s2) /\ Stepped(mem, d, m2, d2, ms2, A2, s2)
  BY <1>7, <1>8 DEF Stepped
<1>12. Begins(Placement(St(mem, d)), Placement(St(m2, d2)))
  BY <1>4, <1>7, <1>10, <1>11, StaysAtBack
<1>13. Stays(mem, d, m2, d2)
  BY <1>12 DEF Stays
<1>14. Becomes(o, St(m2, d2), s2)
  BY <1>1, <1>3, <1>7, <1>8
<1> QED  BY <1>2, <1>3, <1>11, <1>13, <1>14, SteppedOne

LEMMA SpotsBack ==
  ASSUME NEW n, NEW map, NEW A, NEW map2, NEW A2, SameSpots(map, A, map2, A2, n)
  PROVE  SameSpots(map2, A2, map, A, n)
BY DEF SameSpots

LEMMA PushFrontOne ==
  ASSUME IInv, NEW o \in Objects, NEW v \in Values, PushFront(o, v)
  PROVE  \E d2, s2 : One(o, d2, s2)
<1>1. HasMap(o) /\ CanAllocate(1) /\ Becomes(o, PushedFront(St(mem, obj[o]), v), <<v>> \o model[o])
  BY DEF PushFront, State
<1>2. o \in Usable
  BY <1>1, HasMapFact
<1>3. PICK d, s : d = obj[o] /\ s = model[o]
  OBVIOUS
<1>4. PICK ms, A : Deq(mem, d, ms, A, s)
  BY <1>1, <1>3, HasMapFact
<1>5. 1 <= Cardinality(Free(mem))
  BY <1>1, FreeFinite DEF CanAllocate
<1>6. PICK m2, d2, ms2, P : PushedFrontTo(mem, d, A, s, v, m2, d2, ms2, P)
  BY <1>4, <1>5, PushedFrontFact
<1>7. /\ PushedFront(St(mem, d), v) = St(m2, d2) /\ Stepped(mem, d, m2, d2, ms2, P, <<v>> \o s)
      /\ SameSpots(d.map, A, d2.map, P + 1, Len(s))
  BY <1>6 DEF PushedFrontTo
<1>8. PICK s2 : s2 = <<v>> \o s
  OBVIOUS
<1>9. s \in Seq(Values) /\ Len(s) \in Nat
  BY <1>4, DeqFact
<1>10. Len(s2) = Len(s) + 1 /\ \A i \in 1..Len(s) : s2[i + 1] = s[i]
  BY <1>8, <1>9
<1>11. Deq(m2, d2, ms2, P, s2) /\ Stepped(mem, d, m2, d2, ms2, P, s2)
  BY <1>7, <1>8 DEF Stepped
<1>12. Finishes(Placement(St(mem, d)), Placement(St(m2, d2)))
  BY <1>4, <1>7, <1>10, <1>11, StaysAtFront
<1>13. Stays(mem, d, m2, d2)
  BY <1>12 DEF Stays
<1>14. Becomes(o, St(m2, d2), s2)
  BY <1>1, <1>3, <1>7, <1>8
<1> QED  BY <1>2, <1>3, <1>11, <1>13, <1>14, SteppedOne

\* A deque with elements.
LEMMA FilledDeq ==
  ASSUME IInv, NEW o \in Usable, model[o] # <<>>
  PROVE  \E ms, A, k \in Nat : Deq(mem, obj[o], ms, A, model[o]) /\ Len(model[o]) = k + 1
<1>1. PICK ms, A : Deq(mem, obj[o], ms, A, model[o])
  BY UsableFact
<1>2. ms \in Nat /\ A \in Nat /\ model[o] \in Seq(Values)
  BY <1>1, DeqFact
<1>3. PICK k \in Nat : Len(model[o]) = k + 1
  <2>1. Len(model[o]) \in Nat /\ Len(model[o]) # 0
    BY <1>2
  <2>2. Len(model[o]) - 1 \in Nat /\ Len(model[o]) = (Len(model[o]) - 1) + 1
    BY <2>1
  <2> QED  BY <2>2
<1> QED  BY <1>1, <1>2, <1>3

LEMMA PopBackOne ==
  ASSUME IInv, NEW o \in Objects, PopBack(o)
  PROVE  \E d2, s2 : One(o, d2, s2)
<1>1. o \in Usable /\ model[o] # <<>> /\ Becomes(o, PoppedBack(St(mem, obj[o])), SubSeq(model[o], 1, Len(model[o]) - 1))
  BY DEF PopBack, State
<1>2. PICK d, s : d = obj[o] /\ s = model[o]
  OBVIOUS
<1>3. PICK ms, A, k \in Nat : Deq(mem, d, ms, A, s) /\ Len(s) = k + 1
  BY <1>1, <1>2, FilledDeq
<1>4. PICK t : IsFront(s, k, t)
  BY DEF IsFront
<1>5. PICK m2, d2 : PoppedBackTo(mem, d, A, s, t, m2, d2, ms)
  BY <1>3, <1>4, PoppedBackFact
<1>6. /\ PoppedBack(St(mem, d)) = St(m2, d2) /\ Stepped(mem, d, m2, d2, ms, A, t)
      /\ SameSpots(d.map, A, d2.map, A, Len(t))
  BY <1>5 DEF PoppedBackTo
<1>7. s \in Seq(Values)
  BY <1>3, DeqFact
<1>8. Len(t) <= Len(s) /\ \A i \in 1..Len(t) : s[i] = t[i]
  <2>1. k \in 0..Len(s)
    BY <1>3
  <2>2. Len(t) = k /\ \A i \in 1..k : t[i] = s[i]
    BY <1>4, <1>7, <2>1, FrontFact
  <2> QED  BY <1>3, <2>2
<1>9. Deq(m2, d2, ms, A, t)
  BY <1>6 DEF Stepped
<1>10. SameSpots(d2.map, A, d.map, A, Len(t))
  BY <1>6, SpotsBack
<1>11. Begins(Placement(St(m2, d2)), Placement(St(mem, d)))
  BY <1>3, <1>8, <1>9, <1>10, StaysAtBack
<1>12. Stays(mem, d, m2, d2)
  BY <1>11 DEF Stays
<1>13. Becomes(o, St(m2, d2), t)
  <2>1. Len(s) - 1 = k
    BY <1>3
  <2> QED  BY <1>1, <1>2, <1>4, <1>6, <2>1 DEF IsFront
<1> QED  BY <1>1, <1>2, <1>6, <1>12, <1>13, SteppedOne

LEMMA PopFrontOne ==
  ASSUME IInv, NEW o \in Objects, PopFront(o)
  PROVE  \E d2, s2 : One(o, d2, s2)
<1>1. o \in Usable /\ model[o] # <<>> /\ Becomes(o, PoppedFront(St(mem, obj[o])), Tail(model[o]))
  BY DEF PopFront, State
<1>2. PICK d, s : d = obj[o] /\ s = model[o]
  OBVIOUS
<1>3. PICK ms, A, k \in Nat : Deq(mem, d, ms, A, s) /\ Len(s) = k + 1
  BY <1>1, <1>2, FilledDeq
<1>4. PICK t : IsTail(s, t)
  BY DEF IsTail
<1>5. PICK m2, d2 : PoppedFrontTo(mem, d, A, s, t, m2, d2, ms)
  BY <1>3, <1>4, PoppedFrontFact
<1>6. /\ PoppedFront(St(mem, d)) = St(m2, d2) /\ Stepped(mem, d, m2, d2, ms, A + 1, t)
      /\ SameSpots(d.map, A + 1, d2.map, A + 1, Len(t))
  BY <1>5 DEF PoppedFrontTo
<1>7. s \in Seq(Values)
  BY <1>3, DeqFact
<1>8. Len(s) = Len(t) + 1 /\ \A i \in 1..Len(t) : s[i + 1] = t[i]
  BY <1>3, <1>4, <1>7 DEF IsTail
<1>9. PICK B : B = A + 1
  OBVIOUS
<1>10. Deq(m2, d2, ms, B, t) /\ SameSpots(d2.map, B, d.map, A + 1, Len(t))
  BY <1>6, <1>9, SpotsBack DEF Stepped
<1>11. Finishes(Placement(St(m2, d2)), Placement(St(mem, d)))
  BY <1>3, <1>8, <1>10, StaysAtFront
<1>12. Stays(mem, d, m2, d2)
  BY <1>11 DEF Stays
<1>13. Becomes(o, St(m2, d2), t) /\ Stepped(mem, d, m2, d2, ms, B, t)
  BY <1>1, <1>2, <1>4, <1>6, <1>9 DEF IsTail
<1> QED  BY <1>1, <1>2, <1>12, <1>13, SteppedOne

LEMMA ClearOne ==
  ASSUME IInv, NEW o \in Objects, Clear(o)
  PROVE  \E d2, s2 : One(o, d2, s2)
<1>1. o \in Usable /\ Becomes(o, Cleared(St(mem, obj[o])), <<>>)
  BY DEF Clear, State
<1>2. PICK d : d = obj[o]
  OBVIOUS
<1>3. CASE d = NoMap
  <2>1. Cleared(St(mem, d)) = St(mem, d)
    BY <1>3, NoMapFact, StFact DEF Cleared
  <2>2. o \in Objects \ broken /\ Chunked(d) = {} /\ Owned(d) = {}
    BY <1>1, <1>2, <1>3, UsableFact, NoMapFact
  <2>3. Change(mem, {}, mem, {})
    <3>1. mem \in Mems
      BY DEF IInv, Sound, Shares
    <3> QED  BY <3>1 DEF Change
  <2>4. Holds(mem, d, <<>>) /\ Stays(mem, d, mem, d)
    BY <1>3, <2>2 DEF Holds, Stays
  <2>5. Becomes(o, St(mem, d), <<>>)
    BY <1>1, <1>2, <2>1
  <2> QED  BY <1>2, <2>2, <2>3, <2>4, <2>5, BecomesOne
<1>4. CASE d # NoMap
  <2>1. PICK ms, A, s : Deq(mem, d, ms, A, s)
    BY <1>1, <1>2, <1>4, UsableFact
  <2>2. PICK m2, d2, A2 : ClearedTo(mem, d, m2, d2, ms, A2)
    BY <2>1, ClearedFact
  <2>3. Cleared(St(mem, d)) = St(m2, d2) /\ Stepped(mem, d, m2, d2, ms, A2, <<>>)
    BY <2>2 DEF ClearedTo
  <2>4. Deq(m2, d2, ms, A2, <<>>) /\ Len(<<>>) = 0
    BY <2>3 DEF Stepped
  <2>5. Begins(Placement(St(m2, d2)), Placement(St(mem, d)))
    BY <2>1, <2>4, StaysEmpty
  <2>6. Stays(mem, d, m2, d2)
    BY <2>5 DEF Stays
  <2>7. Becomes(o, St(m2, d2), <<>>)
    BY <1>1, <1>2, <2>3
  <2> QED  BY <1>1, <1>2, <2>3, <2>6, <2>7, SteppedOne
<1> QED  BY <1>3, <1>4

\* The map is rebuilt, and nothing else.
LEMMA RemappedStays ==
  ASSUME NEW m, NEW d, NEW ms, NEW A, NEW s, Deq(m, d, ms, A, s), NEW d2, NEW ms2, NEW A2, Remapped(m, d, A, s, d2, ms2, A2)
  PROVE  Stepped(m, d, m, d2, ms2, A2, s) /\ Stays(m, d, m, d2)
<1>1. Deq(m, d2, ms2, A2, s) /\ Owned(d2) = Owned(d) /\ SameSpots(d.map, A, d2.map, A2, Len(s))
  BY DEF Remapped
<1>2. Change(m, Owned(d), m, Owned(d)) /\ Len(s) \in Nat
  BY DeqFact
<1>3. Stepped(m, d, m, d2, ms2, A2, s)
  BY <1>1, <1>2 DEF Stepped
<1>4. Begins(Placement(St(m, d)), Placement(St(m, d2)))
  <2>1. Len(s) <= Len(s) /\ \A i \in 1..Len(s) : s[i] = s[i]
    BY <1>2
  <2> QED  BY <1>1, <2>1, StaysAtBack
<1> QED  BY <1>3, <1>4 DEF Stays

LEMMA NoMemoryOne ==
  ASSUME IInv, NEW o \in Objects, PushBackNoMemory(o) \/ PushFrontNoMemory(o)
  PROVE  \E d2, s2 : One(o, d2, s2)
<1>1. HasMap(o)
  BY DEF PushBackNoMemory, PushFrontNoMemory
<1>2. o \in Usable
  BY <1>1, HasMapFact
<1>3. PICK d, s : d = obj[o] /\ s = model[o]
  OBVIOUS
<1>4. PICK ms, A : Deq(mem, d, ms, A, s)
  BY <1>1, <1>3, HasMapFact
<1>5. PICK d2 : Becomes(o, St(mem, d2), s) /\ (d2 = ReserveBack(d) \/ d2 = ReserveFront(d))
  BY <1>3 DEF PushBackNoMemory, PushFrontNoMemory
<1>6. PICK ms2, A2 : Remapped(mem, d, A, s, d2, ms2, A2)
  BY <1>4, <1>5, ReserveBackFact, ReserveFrontFact
<1>7. Stepped(mem, d, mem, d2, ms2, A2, s) /\ Stays(mem, d, mem, d2)
  BY <1>4, <1>6, RemappedStays
<1> QED  BY <1>2, <1>3, <1>5, <1>7, SteppedOne

\* The same with the history left as it is.
LEMMA SameModel ==
  ASSUME IInv, NEW o \in Objects, UNCHANGED model
  PROVE  model' = [model EXCEPT ![o] = model[o]] /\ broken \in SUBSET Objects
<1>1. model \in [Objects -> Seq(Values) \cup {None}] /\ broken \in SUBSET Objects
  BY DEF IInv, Sound
<1> QED  BY <1>1

LEMMA PushBackThrowsOne ==
  ASSUME IInv, NEW o \in Objects, PushBackThrows(o)
  PROVE  \E d2, s2 : One(o, d2, s2)
<1>1. PICK d, s : d = obj[o] /\ s = model[o]
  OBVIOUS
<1>2. PICK x : x = BackRoom(St(mem, d))
  OBVIOUS
<1>3. PICK at : at = x.d.finish.node + 1
  OBVIOUS
<1>4. /\ HasMap(o) /\ AtChunkEnd(d) /\ CanAllocate(1) /\ MapFits(o, x.d)
      /\ mem' = [x.m EXCEPT ![x.d.map[at]] = None]
      /\ obj' = [obj EXCEPT ![o] = WithMap(x.d, [x.d.map EXCEPT ![at] = None])]
      /\ UNCHANGED <<model, broken>>
  BY <1>1, <1>2, <1>3 DEF PushBackThrows, State
<1>5. o \in Usable
  BY <1>4, HasMapFact
<1>6. PICK ms, A : Deq(mem, d, ms, A, s)
  BY <1>1, <1>4, HasMapFact
<1>7. 1 <= Cardinality(Free(mem))
  BY <1>4, FreeFinite DEF CanAllocate
<1>8. PICK m1, d1, ms2, A2, c : BackRoomed(mem, d, A, s, m1, d1, ms2, A2, c)
  BY <1>4, <1>6, <1>7, BackRoomFact
<1>9. x.m = m1 /\ x.d = d1
  BY <1>2, <1>8, StFact DEF BackRoomed
<1>10. PICK d2 : d2 = ReserveBack(d)
  OBVIOUS
<1>11. [m1 EXCEPT ![d1.map[at]] = None] = mem /\ WithMap(d1, [d1.map EXCEPT ![at] = None]) = d2
  BY <1>3, <1>8, <1>9, <1>10, BackThrownFact
<1>12. mem' = mem /\ obj' = [obj EXCEPT ![o] = d2] /\ broken' = broken
  BY <1>4, <1>9, <1>11
<1>13. Remapped(mem, d, A, s, d2, ms2, A2)
  BY <1>8, <1>10 DEF BackRoomed
<1>14. Stepped(mem, d, mem, d2, ms2, A2, s) /\ Stays(mem, d, mem, d2)
  BY <1>6, <1>13, RemappedStays
<1>15. Change(mem, Owned(d), mem, Owned(d2)) /\ Holds(mem, d2, s)
  BY <1>14 DEF Stepped, Holds
<1>16. MapSize(d2) <= MaxMaps
  <2>1. MapSize(d2) = ms2 /\ ms2 \in Nat
    BY <1>14, DeqFact DEF Stepped
  <2>2. d1.map \in Maps(ms2)
    BY <1>8 DEF BackRoomed, Room, Table
  <2>3. MapSize(d1) = ms2
    BY <2>1, <2>2, MapSizeFact
  <2> QED  BY <1>4, <1>9, <2>1, <2>3 DEF MapFits
<1>17. d2 \in Fields /\ d2 # None /\ Shaped(d2) /\ s \in Seq(Values)
  BY <1>15, <1>16, HoldsFact, NoneAssumption
<1>18. Chunked(d) = Owned(d) /\ Chunked(d2) = Owned(d2)
  BY <1>1, <1>5, <1>17, UsableFact DEF Chunked
<1>19. Entry(mem, d2, s, o \in broken)
  BY <1>15, <1>17 DEF Entry
<1>20. model' = [model EXCEPT ![o] = s] /\ broken \in SUBSET Objects
  BY <1>1, <1>4, SameModel
<1>21. One(o, d2, s)
  BY <1>1, <1>12, <1>14, <1>15, <1>18, <1>19, <1>20 DEF One
<1> QED  BY <1>21

LEMMA PushFrontThrowsOne ==
  ASSUME IInv, NEW o \in Objects, PushFrontThrows(o)
  PROVE  \E d2, s2 : One(o, d2, s2)
<1>1. PICK d, s : d = obj[o] /\ s = model[o]
  OBVIOUS
<1>2. PICK x : x = FrontRoom(St(mem, d))
  OBVIOUS
<1>3. /\ HasMap(o) /\ AtChunkStart(d) /\ CanAllocate(1) /\ MapFits(o, x.d)
      /\ mem' = x.m /\ obj' = [obj EXCEPT ![o] = x.d]
      /\ broken' = broken \cup {o} /\ UNCHANGED model
  BY <1>1, <1>2 DEF PushFrontThrows, State, Break
<1>4. o \in Usable
  BY <1>3, HasMapFact
<1>5. PICK ms, A : Deq(mem, d, ms, A, s)
  BY <1>1, <1>3, HasMapFact
<1>6. 1 <= Cardinality(Free(mem))
  BY <1>3, FreeFinite DEF CanAllocate
<1>7. PICK m2, d2, ms2, P : FrontRoomed(mem, d, A, s, m2, d2, ms2, P)
  BY <1>3, <1>5, <1>6, FrontRoomFact
<1>8. x.m = m2 /\ x.d = d2
  BY <1>2, <1>7, StFact DEF FrontRoomed
<1>9. /\ Opened(m2, d2, ms2, P, s) /\ Change(mem, Owned(d), m2, Owned(d2))
      /\ SameSpots(d.map, A, d2.map, P + 1, Len(s))
  BY <1>7 DEF FrontRoomed
<1>10. Finishes(Placement(St(mem, d)), Placement(St(m2, d2))) /\ Shaped(d2) /\ MapSize(d2) = ms2 /\ (ms2 <= MaxMaps => d2 \in Fields)
  BY <1>5, <1>9, StaysOpened
<1>11. Stays(mem, d, m2, d2)
  BY <1>10 DEF Stays
<1>12. d2 \in Fields /\ d2 # None
  BY <1>3, <1>8, <1>10, NoneAssumption DEF MapFits
<1>13. s \in Seq(Values)
  BY <1>5, DeqFact
<1>14. Chunked(d) = Owned(d) /\ Chunked(d2) = Owned(d2)
  BY <1>1, <1>4, <1>12, UsableFact DEF Chunked
<1>15. Entry(m2, d2, s, o \in broken \cup {o})
  BY <1>10, <1>12, <1>13 DEF Entry
<1>16. model' = [model EXCEPT ![o] = s] /\ broken \in SUBSET Objects
  BY <1>1, <1>3, SameModel
<1>17. broken' \in SUBSET Objects /\ broken' \ {o} = broken \ {o}
  BY <1>3, <1>16
<1>18. One(o, d2, s)
  BY <1>1, <1>3, <1>8, <1>9, <1>11, <1>14, <1>15, <1>16, <1>17 DEF One
<1> QED  BY <1>18

LEMMA PushAfterMoveOne ==
  ASSUME IInv, NEW o \in Objects, PushAfterMove(o)
  PROVE  \E d2, s2 : One(o, d2, s2)
<1>1. o \in Usable /\ broken' = broken \cup {o} /\ UNCHANGED <<obj, mem, model>>
  BY DEF PushAfterMove, Break
<1>2. PICK d, s : d = obj[o] /\ s = model[o]
  OBVIOUS
<1>3. Chunked(d) = Owned(d) /\ d # None /\ s \in Seq(Values)
  BY <1>1, <1>2, UsableFact
<1>4. mem \in Mems /\ obj \in [Objects -> Fields \cup {None}] /\ Shaped(d)
  BY <1>2, <1>3 DEF IInv, Sound, Shares
<1>5. Change(mem, Owned(d), mem, Owned(d))
  <2>1. Owned(d) \in SUBSET Chunks
    BY <1>4, ShapedFact
  <2>2. \A c \in Owned(d) : mem[c] # None
    BY <1>2, <1>3 DEF IInv, Sound, Shares, Claims
  <2> QED  BY <1>4, <2>1, <2>2 DEF Change
<1>6. obj' = [obj EXCEPT ![o] = d] /\ d \in Fields \cup {None}
  BY <1>1, <1>2, <1>4
<1>7. Stays(mem, d, mem, d)
  BY <1>4, StaysUntouched
<1>8. model' = [model EXCEPT ![o] = s] /\ broken \in SUBSET Objects
  BY <1>1, <1>2, SameModel
<1>9. broken' \in SUBSET Objects /\ broken' \ {o} = broken \ {o}
  BY <1>1, <1>8
<1>10. Entry(mem, d, s, o \in broken')
  BY <1>1, <1>3, <1>4, <1>6 DEF Entry
<1>11. One(o, d, s)
  BY <1>1, <1>2, <1>3, <1>5, <1>6, <1>7, <1>8, <1>9, <1>10 DEF One
<1> QED  BY <1>11

LEMMA EnoughFact ==
  ASSUME NEW m, NEW A \in Nat, NEW s \in Seq(Values), NEW n \in Nat,
         NumNodes(n) <= Cardinality(Free(m)) \/ (Off(A + Len(s)) = 0 /\ NumNodes(n) <= Cardinality(Free(m)) + 1)
  PROVE  Enough(m, A, s, n)
<1>1. PICK B \in Nat : B = A + Len(s)
  OBVIOUS
<1>2. PICK b, k, z, F \in Nat : b = Node(B) /\ k = Node(n) /\ z = Node(B + n) /\ F = Cardinality(Free(m))
  <2>0. B + n \in Nat
    OBVIOUS
  <2>1. Node(B) \in Nat /\ Node(n) \in Nat /\ Node(B + n) \in Nat
    BY <2>0, PlaceFact
  <2>2. Cardinality(Free(m)) \in Nat
    BY FreeFinite
  <2> QED  BY <2>1, <2>2
<1>3. z <= b + k + 1 /\ (Off(B) = 0 => z = b + k)
  BY <1>2, NodeSum
<1>4. NumNodes(n) = k + 1
  BY <1>2 DEF NumNodes, Node
<1>5. k + 1 <= F \/ (Off(B) = 0 /\ k + 1 <= F + 1)
  BY <1>1, <1>2, <1>4
<1>6. z - b <= F
  BY <1>3, <1>5
<1> QED  BY <1>1, <1>2, <1>6 DEF Enough

LEMMA PushedNone ==
  ASSUME NEW st
  PROVE  PushedAll(st, <<>>) = st
<1> DEFINE Run(f) == f = [i \in 0..0 |-> IF i = 0 THEN st ELSE PushedBack(f[i - 1], <<>>[i])]
           after == CHOOSE f : Run(f)
<1>1. PushedAll(st, <<>>) = after[0]
  <2>1. Len(<<>>) = 0
    OBVIOUS
  <2> QED  BY <2>1 DEF PushedAll
<1>2. Run([i \in 0..0 |-> st])
  OBVIOUS
<1>3. Run(after)
  BY <1>2
<1> HIDE DEF after
<1>4. after[0] = st
  BY <1>3
<1> QED  BY <1>1, <1>4

\* n copies of v.
Copies(n, v) == [i \in 1..n |-> v]

LEMMA ShrinkOne ==
  ASSUME IInv, NEW o \in Usable, NEW n \in Nat, NEW size, size = Size(obj[o]), n < size,
         Becomes(o, PoppedTimes(St(mem, obj[o]), size - n), SubSeq(model[o], 1, n))
  PROVE  \E d2, s2 : One(o, d2, s2)
<1>1. PICK d, s : d = obj[o] /\ s = model[o]
  OBVIOUS
<1>2. d # NoMap
  <2>1. d = NoMap => size = 0
    BY <1>1, NoMapFact
  <2> QED  BY <2>1
<1>3. PICK ms, A : Deq(mem, d, ms, A, s)
  BY <1>1, <1>2, UsableFact
<1>4. size = Len(s) /\ s \in Seq(Values) /\ Len(s) \in Nat
  BY <1>1, <1>3, ContentsFact, DeqFact
<1>5. PICK k \in 0..Len(s) : k = size - n /\ Len(s) - k = n
  <2>1. size - n \in 0..Len(s) /\ Len(s) - (size - n) = n
    BY <1>4
  <2> QED  BY <2>1
<1>6. PICK m2, d2, t : PoppedTimesTo(mem, d, A, s, k, m2, d2, ms, t)
  BY <1>3, PoppedTimesFact
<1>7. /\ PoppedTimes(St(mem, d), k) = St(m2, d2) /\ IsFront(s, n, t) /\ Stepped(mem, d, m2, d2, ms, A, t)
      /\ SameSpots(d.map, A, d2.map, A, n)
  BY <1>5, <1>6 DEF PoppedTimesTo
<1>8. Len(t) = n /\ \A i \in 1..n : t[i] = s[i]
  <2>1. n \in 0..Len(s)
    BY <1>4
  <2> QED  BY <1>4, <1>7, <2>1, FrontFact
<1>9. Len(t) <= Len(s) /\ \A i \in 1..Len(t) : s[i] = t[i]
  BY <1>4, <1>8
<1>10. Deq(m2, d2, ms, A, t) /\ SameSpots(d2.map, A, d.map, A, Len(t))
  BY <1>7, <1>8, SpotsBack DEF Stepped
<1>11. Begins(Placement(St(m2, d2)), Placement(St(mem, d)))
  BY <1>3, <1>9, <1>10, StaysAtBack
<1>12. Stays(mem, d, m2, d2)
  BY <1>11 DEF Stays
<1>13. Becomes(o, St(m2, d2), t)
  BY <1>1, <1>5, <1>7 DEF IsFront
<1> QED  BY <1>1, <1>7, <1>12, <1>13, SteppedOne

LEMMA GrowOne ==
  ASSUME IInv, NEW o \in Usable, NEW more \in Seq(Values), CanAllocate(NumNodes(Len(more))), more # <<>> => HasMap(o),
         Becomes(o, PushedAll(St(mem, obj[o]), more), model[o] \o more)
  PROVE  \E d2, s2 : One(o, d2, s2)
<1>1. PICK d, s : d = obj[o] /\ s = model[o]
  OBVIOUS
<1>2. CASE d = NoMap
  <2>1. o \in Objects \ broken /\ Chunked(d) = {} /\ Owned(d) = {} /\ s = <<>>
    BY <1>1, <1>2, UsableFact, NoMapFact
  <2>2. more = <<>>
    BY <1>1, <1>2, NoMapFact DEF HasMap
  <2>3. Becomes(o, St(mem, d), <<>>)
    BY <1>1, <2>1, <2>2, PushedNone
  <2>4. Change(mem, {}, mem, {})
    <3>1. mem \in Mems
      BY DEF IInv, Sound, Shares
    <3> QED  BY <3>1 DEF Change
  <2>5. Holds(mem, d, <<>>) /\ Stays(mem, d, mem, d)
    BY <1>2, <2>1 DEF Holds, Stays
  <2> QED  BY <1>1, <2>1, <2>3, <2>4, <2>5, BecomesOne
<1>3. CASE d # NoMap
  <2>1. PICK ms, A : Deq(mem, d, ms, A, s)
    BY <1>1, <1>3, UsableFact
  <2>2. A \in Nat /\ s \in Seq(Values) /\ Len(s) \in Nat /\ Len(more) \in Nat
    BY <2>1, DeqFact
  <2>3. Enough(mem, A, s, Len(more))
    <3>1. NumNodes(Len(more)) <= Cardinality(Free(mem))
      <4>1. NumNodes(Len(more)) \in Nat /\ Cardinality(Free(mem)) \in Nat
        <5>1. Node(Len(more)) \in Nat
          BY <2>2, PlaceFact
        <5>2. NumNodes(Len(more)) = Node(Len(more)) + 1
          BY DEF NumNodes, Node
        <5> QED  BY <5>1, <5>2, FreeFinite
      <4> QED  BY <4>1 DEF CanAllocate
    <3> QED  BY <2>2, <3>1, EnoughFact
  <2>4. PICK m2, d2, ms2, A2 : PushedAllTo(mem, d, A, s, more, m2, d2, ms2, A2)
    BY <2>1, <2>3, PushedAllFact
  <2>5. PICK t : t = s \o more
    OBVIOUS
  <2>6. /\ PushedAll(St(mem, d), more) = St(m2, d2) /\ Stepped(mem, d, m2, d2, ms2, A2, t)
        /\ SameSpots(d.map, A, d2.map, A2, Len(s))
    BY <2>4, <2>5 DEF PushedAllTo
  <2>7. Len(s) <= Len(t) /\ \A i \in 1..Len(s) : t[i] = s[i]
    BY <2>2, <2>5
  <2>8. Deq(m2, d2, ms2, A2, t)
    BY <2>6 DEF Stepped
  <2>9. Begins(Placement(St(mem, d)), Placement(St(m2, d2)))
    BY <2>1, <2>6, <2>7, <2>8, StaysAtBack
  <2>10. Stays(mem, d, m2, d2)
    BY <2>9 DEF Stays
  <2>11. Becomes(o, St(m2, d2), t)
    BY <1>1, <2>5, <2>6
  <2> QED  BY <1>1, <2>6, <2>10, <2>11, SteppedOne
<1> QED  BY <1>2, <1>3

LEMMA ResizeOne ==
  ASSUME IInv, NEW o \in Objects, NEW n \in Nat, NEW v \in Values, Resize(o, n, v)
  PROVE  \E d2, s2 : One(o, d2, s2)
<1>1. PICK size : size = Size(obj[o])
  OBVIOUS
<1>2. o \in Usable
  BY DEF Resize
<1>3. size \in Nat
  <2>1. CASE obj[o] = NoMap
    BY <1>1, <2>1, NoMapFact
  <2>2. CASE obj[o] # NoMap
    <3>1. PICK ms, A : Deq(mem, obj[o], ms, A, model[o])
      BY <1>2, <2>2, UsableFact
    <3> QED  BY <1>1, <3>1, ContentsFact, DeqFact
  <2> QED  BY <2>1, <2>2
<1>4. CASE n < size
  <2>1. Becomes(o, PoppedTimes(St(mem, obj[o]), size - n), SubSeq(model[o], 1, n))
    BY <1>1, <1>4 DEF Resize, State
  <2> QED  BY <1>1, <1>2, <1>4, <2>1, ShrinkOne
<1>5. CASE ~(n < size)
  <2>1. PICK k \in Nat : k = n - size
    <3>1. n - size \in Nat
      BY <1>3, <1>5
    <3> QED  BY <3>1
  <2>2. PICK more : more = Copies(k, v)
    OBVIOUS
  <2>3. more \in Seq(Values)
    BY <2>2 DEF Copies
  <2>4. /\ CanAllocate(NumNodes(Len(more))) /\ (more # <<>> => HasMap(o))
        /\ Becomes(o, PushedAll(St(mem, obj[o]), more), model[o] \o more)
    BY <1>1, <1>5, <2>1, <2>2 DEF Resize, State, Copies
  <2> QED  BY <1>2, <2>3, <2>4, GrowOne
<1> QED  BY <1>4, <1>5

LEMMA CanAllocateFact ==
  ASSUME NEW n \in Nat, CanAllocate(NumNodes(n))
  PROVE  NumNodes(n) <= Cardinality(Free(mem)) /\ NumNodes(n) \in Nat /\ NumNodes(n) >= 1 /\ Cardinality(Free(mem)) \in Nat
<1>1. Node(n) \in Nat /\ NumNodes(n) = Node(n) + 1
  BY PlaceFact DEF NumNodes, Node
<1>2. Cardinality(Free(mem)) \in Nat
  BY FreeFinite
<1> QED  BY <1>1, <1>2 DEF CanAllocate

\* A constructor makes a deque with the contents s.
LEMMA MadeOne ==
  ASSUME IInv, NEW o \in Objects, o \notin Alive, NEW s, NEW m2, NEW d2, NEW ms2, NEW A2,
         MadeOf(mem, s, m2, d2, ms2, A2), Becomes(o, St(m2, d2), s)
  PROVE  One(o, d2, s)
<1>1. obj[o] = None /\ o \notin broken
  BY DEF Alive, IInv, Sound
<1>2. Chunked(obj[o]) = {}
  BY <1>1 DEF Chunked
<1>3. Change(mem, {}, m2, Owned(d2)) /\ Holds(m2, d2, s)
  BY DEF MadeOf, Holds
<1> QED  BY <1>1, <1>2, <1>3, BecomesOne

LEMMA ConstructFilledOne ==
  ASSUME IInv, NEW o \in Objects, NEW s \in Seq(Values), ConstructFilled(o, s)
  PROVE  \E d2, s2 : One(o, d2, s2)
<1>1. o \notin Alive /\ CanAllocate(NumNodes(Len(s))) /\ Becomes(o, Filled(mem, s), s)
  BY DEF ConstructFilled
<1>2. mem \in Mems /\ Len(s) \in Nat
  BY DEF IInv, Sound, Shares
<1>3. PICK m2, d2, ms2, A2 : Filled(mem, s) = St(m2, d2) /\ MadeOf(mem, s, m2, d2, ms2, A2)
  BY <1>1, <1>2, CanAllocateFact, FilledFact
<1>4. Becomes(o, St(m2, d2), s)
  BY <1>1, <1>3
<1> QED  BY <1>1, <1>3, <1>4, MadeOne

LEMMA ConstructRangeOne ==
  ASSUME IInv, NEW o \in Objects, NEW s \in Seq(Values), ConstructRange(o, s)
  PROVE  \E d2, s2 : One(o, d2, s2)
<1>1. o \notin Alive /\ CanAllocate(NumNodes(Len(s))) /\ Becomes(o, PushedAll(InitMap(mem, 0), s), s)
  BY DEF ConstructRange
<1>2. mem \in Mems /\ Len(s) \in Nat
  BY DEF IInv, Sound, Shares
<1>3. NumNodes(Len(s)) <= Cardinality(Free(mem)) /\ 1 <= Cardinality(Free(mem))
  BY <1>1, <1>2, CanAllocateFact
<1>4. PICK m1, d1, ms1, A1 : /\ InitMap(mem, 0) = St(m1, d1) /\ A1 \in Nat /\ Off(A1) = 0
                             /\ Deq(m1, d1, ms1, A1, <<>>)
                             /\ Change(mem, {}, m1, Owned(d1))
                             /\ Cardinality(Free(m1)) = Cardinality(Free(mem)) - 1
  BY <1>2, <1>3, InitEmptyFact
<1>5. PICK e \in Seq(Values) : e = <<>> /\ Len(e) = 0 /\ e \o s = s
  <2>1. <<>> \in Seq(Values) /\ Len(<<>>) = 0 /\ <<>> \o s = s
    OBVIOUS
  <2> QED  BY <2>1, Zenon
<1>6. Enough(m1, A1, e, Len(s))
  <2>1. A1 + Len(e) = A1
    BY <1>4, <1>5
  <2>2. NumNodes(Len(s)) <= Cardinality(Free(m1)) + 1
    <3>1. Cardinality(Free(mem)) \in Nat /\ NumNodes(Len(s)) \in Nat
      BY <1>1, <1>2, CanAllocateFact
    <3> QED  BY <3>1, <1>3, <1>4
  <2>3. Off(A1 + Len(e)) = 0
    BY <1>4, <2>1
  <2> QED  BY <1>2, <1>4, <2>2, <2>3, EnoughFact
<1>7. PICK m2, d2, ms2, A2 : PushedAllTo(m1, d1, A1, e, s, m2, d2, ms2, A2)
  BY <1>4, <1>5, <1>6, PushedAllFact
<1>8. PushedAll(St(m1, d1), s) = St(m2, d2) /\ Deq(m2, d2, ms2, A2, s) /\ Change(m1, Owned(d1), m2, Owned(d2))
  BY <1>5, <1>7 DEF PushedAllTo, Stepped
<1>9. Change(mem, {}, m2, Owned(d2))
  BY <1>4, <1>8, ChangeTwice
<1>10. MadeOf(mem, s, m2, d2, ms2, A2)
  BY <1>8, <1>9 DEF MadeOf
<1>11. Becomes(o, St(m2, d2), s)
  BY <1>1, <1>4, <1>8
<1> QED  BY <1>1, <1>10, <1>11, MadeOne

\* What a copy reads.
LEMMA UsableContents ==
  ASSUME IInv, NEW o \in Usable
  PROVE  Contents(St(mem, obj[o])) = model[o] /\ Size(obj[o]) = Len(model[o])
<1>1. CASE obj[o] = NoMap
  <2>1. model[o] = <<>> /\ Len(<<>>) = 0
    BY <1>1, UsableFact
  <2> QED  BY <1>1, <2>1, NoMapFact
<1>2. CASE obj[o] # NoMap
  <2>1. PICK ms, A : Deq(mem, obj[o], ms, A, model[o])
    BY <1>2, UsableFact
  <2> QED  BY <2>1, ContentsFact
<1> QED  BY <1>1, <1>2

LEMMA ConstructCopyOne ==
  ASSUME IInv, NEW o \in Objects, NEW rhs \in Objects, ConstructCopy(o, rhs)
  PROVE  \E d2, s2 : One(o, d2, s2)
<1>1. PICK s : s = model[rhs]
  OBVIOUS
<1>2. rhs \in Usable
  BY DEF ConstructCopy
<1>3. s \in Seq(Values) /\ Contents(St(mem, obj[rhs])) = s
  BY <1>1, <1>2, UsableFact, UsableContents
<1>4. ConstructFilled(o, s)
  BY <1>1, <1>3 DEF ConstructCopy, ConstructFilled, State
<1> QED  BY <1>3, <1>4, ConstructFilledOne

LEMMA DestructOne ==
  ASSUME IInv, NEW o \in Objects, Destruct(o)
  PROVE  \E d2, s2 : One(o, d2, s2)
<1>1. /\ o \in Usable /\ mem' = Teardown(St(mem, obj[o])) /\ obj' = [obj EXCEPT ![o] = None]
      /\ model' = [model EXCEPT ![o] = None] /\ broken' = broken
  BY DEF Destruct, State
<1>2. PICK d, m2 : d = obj[o] /\ m2 = Teardown(St(mem, d))
  OBVIOUS
<1>3. o \in Objects \ broken /\ Chunked(d) = Owned(d) /\ Holds(mem, d, model[o])
  BY <1>1, <1>2, UsableFact
<1>4. Change(mem, Owned(d), m2, {})
  <2>1. mem \in Mems
    BY DEF IInv, Sound, Shares
  <2> QED  BY <1>2, <1>3, <2>1, HoldsTeardown
<1>5. Chunked(None) = {}
  BY DEF Chunked
<1>6. Entry(m2, None, None, o \in broken)
  BY <1>3 DEF Entry
<1>7. broken \in SUBSET Objects
  BY DEF IInv, Sound
<1>8. One(o, None, None)
  BY <1>1, <1>2, <1>3, <1>4, <1>5, <1>6, <1>7 DEF One
<1> QED  BY <1>8

LEMMA AssignFromOne ==
  ASSUME IInv, NEW o \in Usable, NEW s \in Seq(Values), AssignFrom(o, s, s)
  PROVE  \E d2, s2 : One(o, d2, s2)
<1>1. /\ CanAllocate(NumNodes(Len(s)))
      /\ Becomes(o, St(Teardown(St(Filled(mem, s).m, obj[o])), Filled(mem, s).d), s)
  BY DEF AssignFrom
<1>2. mem \in Mems /\ Len(s) \in Nat
  BY DEF IInv, Sound, Shares
<1>3. PICK m1, d2, ms2, A2 : Filled(mem, s) = St(m1, d2) /\ MadeOf(mem, s, m1, d2, ms2, A2)
  BY <1>1, <1>2, CanAllocateFact, FilledFact
<1>4. PICK d : d = obj[o]
  OBVIOUS
<1>5. PICK m2 : m2 = Teardown(St(m1, d))
  OBVIOUS
<1>6. Becomes(o, St(m2, d2), s)
  BY <1>1, <1>3, <1>4, <1>5, StFact
<1>7. o \in Objects \ broken /\ Chunked(d) = Owned(d) /\ Holds(mem, d, model[o]) /\ obj[o] # None
  BY <1>4, UsableFact
<1>8. Deq(m1, d2, ms2, A2, s) /\ Change(mem, {}, m1, Owned(d2))
  BY <1>3 DEF MadeOf
<1>9. \A c \in Owned(d) : c \in Chunks /\ mem[c] # None
  <2>1. Owned(d) \in SUBSET Chunks
    BY <1>7, HoldsFact, ShapedFact
  <2>2. \A c \in Owned(d) : mem[c] # None
    BY <1>4, <1>7 DEF IInv, Sound, Shares, Claims
  <2> QED  BY <2>1, <2>2
<1>10. Owned(d) \cap Owned(d2) = {}
  BY <1>8, <1>9 DEF Change
<1>11. \A c \in Owned(d) : m1[c] = mem[c]
  BY <1>8, <1>9, <1>10 DEF Change
<1>12. m1 \in Mems
  BY <1>8 DEF Change
<1>13. Holds(m1, d, model[o])
  BY <1>7, <1>11, <1>12, HoldsFrame
<1>14. Change(m1, Owned(d), m2, {})
  BY <1>5, <1>12, <1>13, HoldsTeardown
<1>15. Change(mem, Owned(d), m2, Owned(d2))
  BY <1>8, <1>9, <1>10, <1>11, <1>14 DEF Change
<1>16. Holds(m2, d2, s)
  <2>1. \A c \in Owned(d2) : m2[c] = m1[c]
    BY <1>8, <1>10, <1>14 DEF Change
  <2>2. Holds(m1, d2, s) /\ m2 \in Mems
    BY <1>8, <1>14 DEF Holds, Change
  <2> QED  BY <2>1, <2>2, HoldsFrame
<1>17. Stays(mem, d, m2, d2)
  BY <1>10 DEF Stays
<1> QED  BY <1>4, <1>6, <1>7, <1>15, <1>16, <1>17, BecomesOne

LEMMA AssignCopyOne ==
  ASSUME IInv, NEW o \in Objects, NEW rhs \in Objects, AssignCopy(o, rhs)
  PROVE  \E d2, s2 : One(o, d2, s2)
<1>1. PICK s : s = model[rhs]
  OBVIOUS
<1>2. rhs \in Usable /\ o \in Usable
  BY DEF AssignCopy
<1>3. s \in Seq(Values) /\ Contents(St(mem, obj[rhs])) = s
  BY <1>1, <1>2, UsableFact, UsableContents
<1>4. AssignFrom(o, s, s)
  BY <1>1, <1>3 DEF AssignCopy, State
<1> QED  BY <1>2, <1>3, <1>4, AssignFromOne

-----------------------------------------------------------------------------
(* The steps that move the contents of one deque to another.               *)

\* Nobody keeps his chunks.
LEMMA StayedApart ==
  ASSUME NEW o \in Objects, NEW x \in Objects, Sound(obj, mem, model, broken),
         obj[o] = None \/ obj'[o] = None \/ Owned(obj[o]) \cap Owned(obj'[o]) = {},
         Owned(obj[x]) \cap Owned(obj'[x]) = {},
         \A y \in Objects \ {o, x} : obj'[y] = obj[y],
         \A y \in Objects \ {o, x} : \A c \in Chunked(obj[y]) : mem'[c] = mem[c]
  PROVE  Stayed
<1>1. ASSUME NEW y \in Alive \cap Alive'  PROVE Stays(mem, obj[y], mem', obj'[y])
  <2>1. y \in Objects /\ obj[y] # None /\ obj'[y] # None
    BY <1>1 DEF Alive
  <2>2. CASE y \in {o, x}
    BY <2>1, <2>2 DEF Stays
  <2>3. CASE y \notin {o, x}
    <3>1. PICK m2 : m2 = mem'
      OBVIOUS
    <3>2. obj'[y] = obj[y] /\ \A c \in Owned(obj[y]) : m2[c] = mem[c]
      BY <2>1, <2>3, <3>1 DEF Chunked
    <3>3. Shaped(obj[y])
      BY <2>1 DEF Sound
    <3>4. Stays(mem, obj[y], m2, obj[y])
      BY <3>2, <3>3, StaysUntouched
    <3> QED  BY <3>1, <3>2, <3>4
  <2> QED  BY <2>2, <2>3
<1> QED  BY <1>1 DEF Stayed

\* Different deques have different chunks.
LEMMA OwnedApart ==
  ASSUME NEW ob, NEW m, NEW md, NEW br, Sound(ob, m, md, br), NEW o \in Objects, NEW x \in Objects, o # x,
         ob[o] # None, ob[x] # None
  PROVE  Owned(ob[o]) \cap Owned(ob[x]) = {}
<1>1. Claims(ob)[o] = Owned(ob[o]) /\ Claims(ob)[x] = Owned(ob[x])
  BY DEF Claims, Chunked
<1> QED  BY <1>1 DEF Sound, Shares

LEMMA SwapStep ==
  ASSUME IInv, NEW o \in Objects, NEW rhs \in Objects, Swap(o, rhs)
  PROVE  IInv' /\ Stayed
<1>1. /\ o \in Usable /\ rhs \in Usable /\ o # rhs /\ mem' = mem /\ broken' = broken
      /\ obj' = Swapped(obj, o, rhs) /\ model' = Swapped(model, o, rhs)
  BY DEF Swap, Swapped
<1>2. /\ o \in Objects \ broken /\ rhs \in Objects \ broken /\ obj[o] # None /\ obj[rhs] # None
  BY <1>1, UsableFact
<1>3. Sound(obj, mem, model, broken)
  BY DEF IInv
<1>4. PICK ob2, md2 : ob2 = obj' /\ md2 = model'
  OBVIOUS
<1>5. Sound(ob2, mem, md2, broken)
  BY <1>1, <1>2, <1>3, <1>4, SoundSwap
<1>6. IInv'
  BY <1>1, <1>4, <1>5 DEF IInv
<1>7. obj \in [Objects -> Fields \cup {None}]
  BY <1>3 DEF Sound
<1>8. obj'[o] = obj[rhs] /\ obj'[rhs] = obj[o] /\ \A y \in Objects \ {o, rhs} : obj'[y] = obj[y]
  <2> HIDE DEF Fields
  <2> QED  BY <1>1, <1>2, <1>7 DEF Swapped
<1>9. Owned(obj[o]) \cap Owned(obj[rhs]) = {}
  BY <1>1, <1>2, <1>3, OwnedApart
<1>10. \A y \in Objects \ {o, rhs} : \A c \in Chunked(obj[y]) : mem'[c] = mem[c]
  BY <1>1
<1>11. Owned(obj[o]) \cap Owned(obj'[o]) = {} /\ Owned(obj[rhs]) \cap Owned(obj'[rhs]) = {}
  BY <1>8, <1>9
<1>12. Stayed
  BY <1>3, <1>8, <1>10, <1>11, StayedApart
<1> QED  BY <1>6, <1>12

\* The members of rhs go to o, which has none or has just lost them.
LEMMA TakeOverStep ==
  ASSUME IInv, NEW o \in Objects \ broken, NEW rhs \in Usable, o # rhs, TakeOver(o, rhs),
         NEW m2, m2 = mem', Change(mem, Chunked(obj[o]), m2, {})
  PROVE  IInv' /\ Stayed
<1>1. Sound(obj, mem, model, broken)
  BY DEF IInv
<1>2. rhs \in Objects \ broken /\ obj[rhs] # None
  BY UsableFact
<1>3. obj \in [Objects -> Fields \cup {None}] /\ model \in [Objects -> Seq(Values) \cup {None}] /\ broken \in SUBSET Objects
  BY <1>1 DEF Sound
<1>4. PICK e : e = <<>>
  OBVIOUS
<1>5. PICK ob1, md1 : ob1 = Updated(obj, o, NoMap) /\ md1 = Updated(model, o, e)
  OBVIOUS
<1>6. Chunked(NoMap) = {} /\ Entry(m2, NoMap, e, o \in broken)
  <2>1. e \in Seq(Values)
    BY <1>4
  <2> QED  BY <2>1, <1>4, NoMapType, NoMapFact DEF Chunked, Entry, Shaped, Holds
<1>7. Sound(ob1, m2, md1, broken) /\ \A x \in Objects \ {o} : \A c \in Chunked(obj[x]) : m2[c] = mem[c]
  <2>1. PICK d2 : d2 = NoMap
    OBVIOUS
  <2>2. Change(mem, Chunked(obj[o]), m2, Chunked(d2)) /\ Entry(m2, d2, e, o \in broken)
    BY <1>6, <2>1
  <2>3. ob1 = Updated(obj, o, d2) /\ md1 = Updated(model, o, e)
    BY <1>5, <2>1
  <2> QED  BY <1>1, <1>3, <2>2, <2>3, SoundOne
<1>8. /\ ob1[o] = NoMap /\ \A y \in Objects \ {o} : ob1[y] = obj[y]
      /\ md1[o] = e /\ \A y \in Objects \ {o} : md1[y] = model[y]
  BY <1>3, <1>5 DEF Updated
<1>9. obj' = Swapped(ob1, o, rhs) /\ model' = Swapped(md1, o, rhs) /\ broken' = broken
  <2>1. obj' = [obj EXCEPT ![o] = obj[rhs], ![rhs] = NoMap] /\ model' = [model EXCEPT ![o] = model[rhs], ![rhs] = <<>>] /\ broken' = broken
    BY DEF TakeOver
  <2>2. obj' = Swapped(ob1, o, rhs)
    <3> HIDE DEF Fields
    <3> QED  BY <2>1, <1>2, <1>3, <1>5 DEF Updated, Swapped
  <2>3. model' = Swapped(md1, o, rhs)
    BY <2>1, <1>2, <1>3, <1>4, <1>5 DEF Updated, Swapped
  <2> QED  BY <2>1, <2>2, <2>3
<1>10. PICK ob2, md2 : ob2 = obj' /\ md2 = model'
  OBVIOUS
<1>11. Sound(ob2, m2, md2, broken)
  <2>1. ob1[o] # None /\ ob1[rhs] # None
    BY <1>2, <1>8, NoMapType
  <2> QED  BY <2>1, <1>2, <1>7, <1>9, <1>10, SoundSwap
<1>12. IInv'
  BY <1>9, <1>10, <1>11 DEF IInv
<1>13. obj'[o] = obj[rhs] /\ obj'[rhs] = NoMap /\ \A y \in Objects \ {o, rhs} : obj'[y] = obj[y]
  <2>1. ob1 \in [Objects -> Fields \cup {None}]
    BY <1>7 DEF Sound
  <2> HIDE DEF Fields
  <2> QED  BY <2>1, <1>2, <1>8, <1>9 DEF Swapped
<1>14. obj[o] = None \/ Owned(obj[o]) \cap Owned(obj'[o]) = {}
  BY <1>1, <1>2, <1>13, OwnedApart
<1>15. Owned(obj[rhs]) \cap Owned(obj'[rhs]) = {}
  BY <1>13, NoMapFact
<1>16. \A y \in Objects \ {o, rhs} : \A c \in Chunked(obj[y]) : mem'[c] = mem[c]
  BY <1>7
<1>17. Stayed
  BY <1>1, <1>2, <1>13, <1>14, <1>15, <1>16, StayedApart
<1> QED  BY <1>12, <1>17

LEMMA ConstructMoveStep ==
  ASSUME IInv, NEW o \in Objects, NEW rhs \in Objects, ConstructMove(o, rhs)
  PROVE  IInv' /\ Stayed
<1>1. o \notin Alive /\ rhs \in Usable /\ TakeOver(o, rhs) /\ mem' = mem
  BY DEF ConstructMove
<1>2. obj[o] = None /\ o \notin broken /\ o # rhs
  BY <1>1 DEF Alive, Usable, IInv, Sound
<1>3. Change(mem, Chunked(obj[o]), mem, {})
  <2>1. mem \in Mems
    BY DEF IInv, Sound, Shares
  <2> QED  BY <2>1, <1>2 DEF Change, Chunked
<1> QED  BY <1>1, <1>2, <1>3, TakeOverStep

LEMMA AssignMoveStep ==
  ASSUME IInv, NEW o \in Objects, NEW rhs \in Objects, AssignMove(o, rhs)
  PROVE  IInv' /\ Stayed
<1>1. o \in Usable /\ rhs \in Usable /\ o # rhs /\ TakeOver(o, rhs) /\ mem' = Teardown(St(mem, obj[o]))
  BY DEF AssignMove, State
<1>2. PICK m2 : m2 = mem'
  OBVIOUS
<1>3. o \in Objects \ broken /\ Chunked(obj[o]) = Owned(obj[o]) /\ Holds(mem, obj[o], model[o])
  BY <1>1, UsableFact
<1>4. Change(mem, Owned(obj[o]), m2, {})
  <2>1. mem \in Mems
    BY DEF IInv, Sound, Shares
  <2> QED  BY <1>1, <1>2, <1>3, <2>1, HoldsTeardown
<1> QED  BY <1>1, <1>2, <1>3, <1>4, TakeOverStep

-----------------------------------------------------------------------------
(* Every step.                                                             *)

LEMMA ModFact ==
  ASSUME NEW x \in Nat
  PROVE  x % K \in Values
BY SizeAssumption, DivMod DEF Values

LEMMA ListsFact ==
  ASSUME NEW s \in Lists
  PROVE  s \in Seq(Values)
<1>1. PICK n \in 0..MaxLen : s = [i \in 1..n |-> (i + 1) % K]
  BY DEF Lists
<1>2. n \in Nat
  BY <1>1, BoundsAssumption
<1>3. ASSUME NEW i \in 1..n  PROVE (i + 1) % K \in Values
  <2>1. i + 1 \in Nat
    BY <1>2
  <2> QED  BY <2>1, ModFact
<1> QED  BY <1>1, <1>2, <1>3

LEMMA NewElementFact ==
  ASSUME IInv, NEW o \in Usable
  PROVE  NewBack(o) \in Values /\ NewFront(o) \in Values
<1>1. model[o] \in Seq(Values)
  BY UsableFact
<1>2. PICK c \in Nat : c = K /\ c >= 1
  BY SizeAssumption
<1>3. NewElement(o) \in Values
  <2>1. CASE HasMap(o)
    <3>1. PICK ms, A : Deq(mem, obj[o], ms, A, model[o])
      BY <2>1, HasMapFact DEF Usable, Alive
    <3>2. A \in Nat /\ obj[o].start.node = Node(A) /\ obj[o].start.off = Off(A)
      BY <3>1, DeqFact
    <3>3. PICK x, y, w \in Nat : x = Node(A) /\ y = Off(A) /\ w = ChunkElems
      BY <3>2, PlaceFact, ChunkFact
    <3>4. x * w + y \in Nat
      BY <3>3
    <3>5. NewElement(o) = (x * w + y) % K
      BY <2>1, <3>2, <3>3 DEF NewElement
    <3> QED  BY <3>4, <3>5, ModFact
  <2>2. CASE ~HasMap(o)
    BY <1>2, <2>2 DEF NewElement, Values
  <2> QED  BY <2>1, <2>2
<1>4. PICK e \in Nat : e = NewElement(o)
  BY <1>2, <1>3 DEF Values
<1>5. CASE Length(o) = 0
  <2>1. NewBack(o) \in Values
    BY <1>3, <1>5 DEF NewBack
  <2>2. e + c - 1 \in Nat
    BY <1>2
  <2>3. NewFront(o) = (e + c - 1) % K
    BY <1>2, <1>4, <1>5 DEF NewFront
  <2> QED  BY <2>1, <2>2, <2>3, ModFact
<1>6. CASE Length(o) # 0
  <2>1. Len(model[o]) # 0
    BY <1>6 DEF Length
  <2>2. model[o][Len(model[o])] \in Values /\ Head(model[o]) \in Values
    BY <1>1, <2>1
  <2>3. PICK x, y \in Nat : x = model[o][Len(model[o])] /\ y = Head(model[o])
    BY <1>2, <2>2 DEF Values
  <2>4. x + 1 \in Nat /\ y + c - 1 \in Nat
    BY <1>2
  <2>5. NewBack(o) = (x + 1) % K /\ NewFront(o) = (y + c - 1) % K
    BY <1>2, <1>6, <2>3 DEF NewBack, NewFront
  <2> QED  BY <2>4, <2>5, ModFact
<1> QED  BY <1>5, <1>6

LEMMA SameStep ==
  ASSUME IInv, UNCHANGED <<obj, mem, model, broken>>
  PROVE  IInv' /\ Stayed
<1>1. IInv'
  BY DEF IInv
<1>2. ASSUME NEW o \in Alive \cap Alive'  PROVE Stays(mem, obj[o], mem', obj'[o])
  <2>1. Shaped(obj[o])
    BY <1>2 DEF Alive, IInv, Sound
  <2>2. \A c \in Owned(obj[o]) : mem[c] = mem[c]
    OBVIOUS
  <2>3. Stays(mem, obj[o], mem, obj[o])
    BY <2>1, <2>2, StaysUntouched
  <2> QED  BY <2>3
<1> QED  BY <1>1, <1>2 DEF Stayed

LEMMA NextStep ==
  ASSUME IInv, [Next]_vars
  PROVE  IInv' /\ Stayed
<1>1. CASE UNCHANGED vars
  BY <1>1, SameStep DEF vars
<1>2. ASSUME NEW n \in 1..MaxLen, ConstructThrows(n)  PROVE IInv' /\ Stayed
  BY <1>2, SameStep DEF ConstructThrows
<1>3. ASSUME NEW o \in Objects, Construction(o)  PROVE IInv' /\ Stayed
  <2>1. ASSUME NEW s \in Lists, ConstructFilled(o, s) \/ ConstructRange(o, s) \/ AssignList(o, s)  PROVE IInv' /\ Stayed
    <3>1. s \in Seq(Values)
      BY ListsFact
    <3>2. CASE ConstructFilled(o, s)
      BY <3>1, <3>2, ConstructFilledOne, OneStep
    <3>3. CASE ConstructRange(o, s)
      BY <3>1, <3>3, ConstructRangeOne, OneStep
    <3>4. CASE AssignList(o, s)
      BY <3>1, <3>4, AssignFromOne, OneStep DEF AssignList
    <3> QED  BY <2>1, <3>2, <3>3, <3>4
  <2>2. ASSUME NEW rhs \in Objects,
               ConstructCopy(o, rhs) \/ ConstructMove(o, rhs) \/ AssignCopy(o, rhs) \/ AssignMove(o, rhs) \/ Swap(o, rhs)
        PROVE  IInv' /\ Stayed
    <3>1. CASE ConstructCopy(o, rhs)
      BY <3>1, ConstructCopyOne, OneStep
    <3>2. CASE ConstructMove(o, rhs)
      BY <3>2, ConstructMoveStep
    <3>3. CASE AssignCopy(o, rhs)
      BY <3>3, AssignCopyOne, OneStep
    <3>4. CASE AssignMove(o, rhs)
      BY <3>4, AssignMoveStep
    <3>5. CASE Swap(o, rhs)
      BY <3>5, SwapStep
    <3> QED  BY <2>2, <3>1, <3>2, <3>3, <3>4, <3>5
  <2>3. CASE Destruct(o)
    BY <2>3, DestructOne, OneStep
  <2> QED  BY <1>3, <2>1, <2>2, <2>3 DEF Construction
<1>4. ASSUME NEW o \in Objects, BackOp(o)  PROVE IInv' /\ Stayed
  <2>1. CASE PushBack(o, NewBack(o))
    <3>1. NewBack(o) \in Values
      BY <2>1, NewElementFact DEF PushBack, HasMap
    <3> QED  BY <2>1, <3>1, PushBackOne, OneStep
  <2>2. CASE PushBackNoMemory(o)
    BY <2>2, NoMemoryOne, OneStep
  <2>3. CASE PushBackThrows(o)
    BY <2>3, PushBackThrowsOne, OneStep
  <2>4. CASE PopBack(o)
    BY <2>4, PopBackOne, OneStep
  <2>5. ASSUME NEW n \in 0..(Length(o) + 1), Resize(o, n, NewBack(o))  PROVE IInv' /\ Stayed
    <3>1. o \in Usable
      BY <2>5 DEF Resize
    <3>2. NewBack(o) \in Values
      BY <3>1, NewElementFact
    <3>3. n \in Nat
      <4>1. Length(o) \in Nat
        BY <3>1, UsableFact DEF Length
      <4> QED  BY <4>1
    <3> QED  BY <2>5, <3>2, <3>3, ResizeOne, OneStep
  <2> QED  BY <1>4, <2>1, <2>2, <2>3, <2>4, <2>5 DEF BackOp
<1>5. ASSUME NEW o \in Objects, FrontOp(o)  PROVE IInv' /\ Stayed
  <2>1. CASE PushFront(o, NewFront(o))
    <3>1. NewFront(o) \in Values
      BY <2>1, NewElementFact DEF PushFront, HasMap
    <3> QED  BY <2>1, <3>1, PushFrontOne, OneStep
  <2>2. CASE PushFrontNoMemory(o)
    BY <2>2, NoMemoryOne, OneStep
  <2>3. CASE PushFrontThrows(o)
    BY <2>3, PushFrontThrowsOne, OneStep
  <2>4. CASE PopFront(o)
    BY <2>4, PopFrontOne, OneStep
  <2> QED  BY <1>5, <2>1, <2>2, <2>3, <2>4 DEF FrontOp
<1>6. ASSUME NEW o \in Objects, Clear(o)  PROVE IInv' /\ Stayed
  BY <1>6, ClearOne, OneStep
<1>7. ASSUME NEW o \in Objects, PushAfterMove(o)  PROVE IInv' /\ Stayed
  BY <1>7, PushAfterMoveOne, OneStep
<1> QED  BY <1>1, <1>2, <1>3, <1>4, <1>5, <1>6, <1>7 DEF Next

-----------------------------------------------------------------------------
(* The theorems.                                                           *)

LEMMA InitFact == Init => IInv
<1> SUFFICES ASSUME Init  PROVE IInv
  OBVIOUS
<1>1. /\ obj = [o \in Objects |-> None] /\ mem = [c \in Chunks |-> None]
      /\ model = [o \in Objects |-> None] /\ broken = {}
  BY DEF Init
<1>2. mem \in Mems /\ \A c \in Chunks : mem[c] = None
  BY <1>1 DEF Mems
<1>3. \A o \in Objects : Claims(obj)[o] = {}
  BY <1>1 DEF Claims, Chunked
<1>4. Shares(mem, Claims(obj))
  BY <1>2, <1>3 DEF Shares
<1> QED  BY <1>1, <1>4 DEF IInv, Sound

\* The inductive invariant: every usable deque shows the contents that a
\* std::deque would have, in a map whose entries from start_ to finish_ are
\* different chunks in use and whose other entries are unused, and the chunks
\* in use are shared out among the deques.
THEOREM IInvCorrect == Spec => []IInv
<1>1. IInv /\ [Next]_vars => IInv'
  BY NextStep
<1> QED  BY <1>1, InitFact, PTL DEF Spec

\* The observers of a deque with a map.
LEMMA DeqObserved ==
  ASSUME NEW m, NEW d, NEW ms, NEW A, NEW s, Deq(m, d, ms, A, s)
  PROVE  /\ Empty(d) <=> s = <<>>
         /\ \A i \in 1..Len(s) : /\ Element(St(m, d), Plus(d.start, i - 1)) = s[i]
                                 /\ Element(St(m, d), Plus(d.finish, i - 1 - Len(s))) = s[i]
                                 /\ Less(Plus(d.start, i - 1), d.finish)
         /\ s # <<>> => Element(St(m, d), Decremented(d.finish)) = s[Len(s)]
<1>1. A \in Nat /\ s \in Seq(Values) /\ d.start = At(A) /\ d.finish = At(A + Len(s))
  BY DeqFact
<1>2. PICK n, B \in Nat : n = Len(s) /\ B = A + n
  BY <1>1
<1>3. Empty(d) <=> s = <<>>
  <2>1. At(A) = At(B) <=> A = B
    BY <1>1, AtLess
  <2>2. A = B <=> n = 0
    BY <1>1, <1>2
  <2>3. n = 0 <=> s = <<>>
    BY <1>1, <1>2
  <2> QED  BY <1>1, <1>2, <2>1, <2>2, <2>3 DEF Empty
<1>4. ASSUME NEW i \in 1..n
      PROVE  /\ Element(St(m, d), Plus(d.start, i - 1)) = s[i]
             /\ Element(St(m, d), Plus(d.finish, i - 1 - n)) = s[i]
             /\ Less(Plus(d.start, i - 1), d.finish)
  <2>1. PICK p \in Nat : p = A + (i - 1) /\ p < B
    BY <1>1, <1>2
  <2>2. Plus(At(A), i - 1) = At(p)
    <3>1. i - 1 \in Int /\ A + (i - 1) >= 0
      BY <1>1
    <3> QED  BY <1>1, <2>1, <3>1, AtPlus
  <2>3. Plus(At(B), i - 1 - n) = At(p)
    <3>1. i - 1 - n \in Int /\ B + (i - 1 - n) >= 0 /\ B + (i - 1 - n) = p
      BY <1>1, <1>2, <2>1
    <3> QED  BY <3>1, AtPlus
  <2>4. Element(St(m, d), At(p)) = s[i]
    BY <1>2, <2>1, ElementFact
  <2>5. Less(At(p), At(B))
    BY <2>1, AtLess
  <2> QED  BY <1>1, <1>2, <2>2, <2>3, <2>4, <2>5
<1>5. ASSUME s # <<>>  PROVE Element(St(m, d), Decremented(d.finish)) = s[n]
  <2>1. n # 0
    BY <1>1, <1>2, <1>5
  <2>2. PICK p \in Nat : p = A + (n - 1) /\ B = p + 1
    <3>1. A \in Nat /\ n \in Nat /\ B = A + n
      BY <1>1, <1>2
    <3> QED  BY <2>1, <3>1
  <2>3. Decremented(At(B)) = At(p)
    BY <2>2, AtNext
  <2>4. n \in 1..Len(s)
    BY <1>2, <2>1
  <2>5. Element(St(m, d), At(p)) = s[n]
    BY <2>2, <2>4, ElementFact
  <2> QED  BY <1>1, <1>2, <2>3, <2>5
<1> QED  BY <1>2, <1>3, <1>4, <1>5

\* operator== compares contents.
LEMMA EqualFact ==
  ASSUME NEW m, NEW d, NEW s \in Seq(Values), Size(d) = Len(s), Contents(St(m, d)) = s,
         NEW d2, NEW s2 \in Seq(Values), Size(d2) = Len(s2), Contents(St(m, d2)) = s2
  PROVE  Equal(St(m, d), St(m, d2)) <=> s = s2
<1>1. Equal(St(m, d), St(m, d2)) <=> Len(s) = Len(s2) /\ \A i \in DOMAIN s : s[i] = s2[i]
  BY StFact DEF Equal
<1>2. DOMAIN s = 1..Len(s)
  OBVIOUS
<1> QED  BY <1>1, <1>2

\* Whatever the history of the deques, and for chunks and maps of any size, a
\* deque that is not broken shows through size, operator[], its iterators and
\* operator== what a std::deque would.
THEOREM ActsAsDequeCorrect == Spec => []ActsAsDeque
<1>1. IInv => ActsAsDeque
  <2> SUFFICES ASSUME IInv, NEW o \in Usable
               PROVE  /\ Size(obj[o]) = Len(model[o])
                      /\ Empty(obj[o]) <=> model[o] = <<>>
                      /\ Contents(State(o)) = model[o]
                      /\ \A i \in 1..Len(model[o]) :
                           /\ Element(State(o), Plus(obj[o].start, i - 1)) = model[o][i]
                           /\ Element(State(o), Plus(obj[o].finish, i - 1 - Len(model[o]))) = model[o][i]
                           /\ Less(Plus(obj[o].start, i - 1), obj[o].finish)
                      /\ model[o] # <<>> => Element(State(o), Decremented(obj[o].finish)) = model[o][Len(model[o])]
                      /\ \A x \in Usable : Equal(State(o), State(x)) <=> model[o] = model[x]
    BY DEF ActsAsDeque
  <2>1. Contents(St(mem, obj[o])) = model[o] /\ Size(obj[o]) = Len(model[o]) /\ model[o] \in Seq(Values)
    BY UsableContents, UsableFact
  <2>2. ASSUME NEW x \in Usable  PROVE Equal(State(o), State(x)) <=> model[o] = model[x]
    <3>1. Contents(St(mem, obj[x])) = model[x] /\ Size(obj[x]) = Len(model[x]) /\ model[x] \in Seq(Values)
      BY UsableContents, UsableFact
    <3> QED  BY <2>1, <3>1, EqualFact DEF State
  <2>3. CASE obj[o] = NoMap
    <3>1. model[o] = <<>> /\ Len(<<>>) = 0
      BY <2>3, UsableFact
    <3>2. Empty(obj[o])
      BY <2>3, NoMapFact DEF Empty
    <3>3. 1..Len(model[o]) = {}
      BY <3>1
    <3> QED  BY <2>1, <2>2, <3>1, <3>2, <3>3 DEF State
  <2>4. CASE obj[o] # NoMap
    <3>1. PICK ms, A : Deq(mem, obj[o], ms, A, model[o])
      BY <2>4, UsableFact
    <3>2. PICK d, s : d = obj[o] /\ s = model[o]
      OBVIOUS
    <3>3. Deq(mem, d, ms, A, s)
      BY <3>1, <3>2
    <3>4. /\ Empty(d) <=> s = <<>>
          /\ \A i \in 1..Len(s) : /\ Element(St(mem, d), Plus(d.start, i - 1)) = s[i]
                                  /\ Element(St(mem, d), Plus(d.finish, i - 1 - Len(s))) = s[i]
                                  /\ Less(Plus(d.start, i - 1), d.finish)
          /\ s # <<>> => Element(St(mem, d), Decremented(d.finish)) = s[Len(s)]
      BY <3>3, DeqObserved
    <3> QED  BY <2>1, <2>2, <3>2, <3>4 DEF State
  <2> QED  BY <2>3, <2>4
<1> QED  BY <1>1, IInvCorrect, PTL

\* A table has as many chunks as nodes.
LEMMA OwnedCount ==
  ASSUME NEW d, Shaped(d)
  PROVE  Cardinality(Owned(d)) = Cardinality(Nodes(d))
<1>1. CASE d = NoMap
  BY <1>1, NoMapFact
<1>2. ASSUME NEW ms, NEW P \in Nat, NEW Q \in Nat, Spanned(d, ms, P, Q)
      PROVE  Cardinality(Owned(d)) = Cardinality(Nodes(d))
  <2>1. PICK map, lo, hi : map = d.map /\ lo = Node(P) /\ hi = Node(Q)
    OBVIOUS
  <2>2. Table(map, ms, lo, hi) /\ Owned(d) = In(map, lo, hi) /\ Nodes(d) = lo..hi
    BY <1>2, <2>1, ShapeFact DEF Spanned
  <2>3. lo \in Nat /\ hi \in Nat /\ \A i, k \in lo..hi : map[i] = map[k] => i = k
    BY <2>2 DEF Table
  <2> DEFINE S == lo..hi
             T == In(map, lo, hi)
             f == [i \in S |-> map[i]]
  <2>4. f \in [S -> T] /\ (\A i, k \in S : f[i] = f[k] => i = k) /\ (\A c \in T : \E i \in S : f[i] = c)
    BY <2>3 DEF In
  <2>5. IsFiniteSet(S)
    BY <2>3, FS_Interval
  <2> HIDE DEF S, T, f
  <2>6. f \in Surjection(S, T) /\ f \in Injection(S, T)
    BY <2>4 DEF Surjection, Injection, IsInjective
  <2>7. Cardinality(T) = Cardinality(S)
    BY <2>5, <2>6, FS_Surjection
  <2> QED  BY <2>2, <2>7 DEF S, T
<1> QED  BY <1>1, <1>2 DEF Shaped

\* The elements alive in the chunks of a deque.
LEMMA DeqAlive ==
  ASSUME NEW m, NEW d, NEW ms, NEW A, NEW s, Deq(m, d, ms, A, s), NEW c \in Owned(d), NEW j \in Offsets
  PROVE  m[c][j] # Raw <=> \E i \in Nodes(d) : d.map[i] = c /\ j \in Ends(d, i)
<1>1. /\ A \in Nat /\ s \in Seq(Values) /\ Len(s) \in Nat /\ Nodes(d) = Node(A)..Node(A + Len(s))
      /\ Owned(d) = In(d.map, Node(A), Node(A + Len(s)))
  BY DeqFact
<1>2. PICK i \in Nodes(d) : d.map[i] = c
  BY <1>1 DEF In
<1>3. \A k \in Nodes(d) : d.map[k] = c => k = i
  BY <1>1, <1>2 DEF Deq, Room, Table
<1>4. PICK p \in Nat : p = Row(i) + j
  BY <1>1, <1>2, EndsFact
<1>5. j \in Ends(d, i) <=> A <= p /\ p < A + Len(s)
  BY <1>1, <1>2, <1>4, EndsFact
<1>6. m[c][j] = Cell(s, A, p)
  BY <1>1, <1>2, <1>4 DEF Deq, Room, Shows, RowOf
<1>7. Cell(s, A, p) # Raw <=> A <= p /\ p < A + Len(s)
  BY <1>1, CellFact
<1> QED  BY <1>2, <1>3, <1>5, <1>6, <1>7

\* No throw, move, growth or teardown frees a chunk twice, loses one that a
\* deque could still free, or shares one between two deques, and the elements
\* alive are those from start_ to finish_.
THEOREM ChunksExactCorrect == Spec => []ChunksExact
<1>1. IInv => ChunksExact
  <2> SUFFICES ASSUME IInv  PROVE ChunksExact
    OBVIOUS
  <2>1. Shares(mem, Claims(obj)) /\ \A o \in Alive : o \in Objects /\ Claims(obj)[o] = Owned(obj[o]) /\ Shaped(obj[o])
    BY DEF IInv, Sound, Alive, Claims, Chunked
  <2>2. \A o \in Objects \ Alive : Claims(obj)[o] = {}
    BY DEF Alive, Claims, Chunked
  <2>3. {c \in Chunks : mem[c] # None} = UNION {Owned(obj[o]) : o \in Alive}
    <3>1. ASSUME NEW c \in Chunks, mem[c] # None  PROVE \E o \in Alive : c \in Owned(obj[o])
      <4>1. PICK o \in Objects : c \in Claims(obj)[o]
        BY <2>1, <3>1 DEF Shares
      <4>2. o \in Alive
        BY <2>2, <4>1
      <4> QED  BY <2>1, <4>1, <4>2
    <3>2. ASSUME NEW o \in Alive, NEW c \in Owned(obj[o])  PROVE c \in Chunks /\ mem[c] # None
      BY <2>1 DEF Shares
    <3> QED  BY <3>1, <3>2
  <2>4. ASSUME NEW o \in Alive
        PROVE  /\ \A x \in Alive \ {o} : Owned(obj[o]) \cap Owned(obj[x]) = {}
               /\ Cardinality(Owned(obj[o])) = Cardinality(Nodes(obj[o]))
    <3>1. ASSUME NEW x \in Alive \ {o}  PROVE Owned(obj[o]) \cap Owned(obj[x]) = {}
      BY <2>1 DEF Shares
    <3>2. Cardinality(Owned(obj[o])) = Cardinality(Nodes(obj[o]))
      BY <2>1, OwnedCount
    <3> QED  BY <3>1, <3>2
  <2>5. ASSUME NEW o \in Usable, NEW c \in Chunks, NEW j \in Offsets, c \in Owned(obj[o])
        PROVE  mem[c][j] # Raw <=> \E i \in Nodes(obj[o]) : obj[o].map[i] = c /\ j \in Ends(obj[o], i)
    <3>1. obj[o] # NoMap
      BY <2>5, NoMapFact
    <3>2. PICK ms, A : Deq(mem, obj[o], ms, A, model[o])
      BY <3>1, UsableFact
    <3> QED  BY <2>5, <3>2, DeqAlive
  <2> QED  BY <2>3, <2>4, <2>5 DEF ChunksExact
<1> QED  BY <1>1, IInvCorrect, PTL

\* "Elements never relocate once constructed": no step moves an element of a
\* deque that keeps any of its chunks, not even one that rebuilds the map.
THEOREM ElementsStayCorrect == Spec => ElementsStay
<1>1. IInv /\ [Next]_vars => Stayed
  BY NextStep
<1>2. Stayed => \A o \in Alive \cap Alive' :
                  LET before == Placement(State(o))
                      after == Placement(State(o)')
                  IN \/ Owned(obj[o]) \cap Owned(obj'[o]) = {}
                     \/ Begins(before, after) \/ Begins(after, before)
                     \/ Finishes(before, after) \/ Finishes(after, before)
  BY DEF Stayed, Stays, State
<1> QED  BY <1>1, <1>2, IInvCorrect, PTL DEF Spec, ElementsStay
=============================================================================
