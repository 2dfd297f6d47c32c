------------------------ MODULE FixedContainersProofs ------------------------
(***************************************************************************)
(* Proofs about FixedContainers, for every capacity and any number of      *)
(* containers and values.  The inductive invariant says of every container *)
(* that is not broken what each slot of its storage holds, counted from    *)
(* head_ on.                                                               *)
(***************************************************************************)
EXTENDS FixedContainers, Arithmetic, SequenceTheorems

-----------------------------------------------------------------------------
(* The inductive invariant.                                                *)

\* The class and its Capacity.
Sized == kind \in {"queue", "stack"} /\ cap \in Capacities

\* The slot d slots after h, and how far slot i is from h.
At(h, d) == IF h + d < BufCap THEN h + d ELSE h + d - BufCap
Dist(h, i) == IF h <= i THEN i - h ELSE i - h + BufCap

\* Storage with the elements s from slot h on, and all other slots dead.
Ring(h, s) == [i \in 0..(BufCap - 1) |-> IF Dist(h, i) < Len(s) THEN s[Dist(h, i) + 1] ELSE Dead]

\* The container with that storage, and the elements that fit it.
Item(h, s) == Fields(Ring(h, s), h, IF kind = "queue" THEN At(h, Len(s)) ELSE Len(s))
Fits(h, s) == /\ h \in 0..(BufCap - 1)
              /\ kind = "stack" => h = 0
              /\ s \in Seq(Elements) /\ Len(s) <= cap

\* A container with the fields r holds exactly the elements s.
Holds(r, s) == \E h \in Nat : Fits(h, s) /\ r = Item(h, s)

TypeOK == /\ Sized
          /\ obj = [o \in Objects |-> obj[o]]
          /\ model = [o \in Objects |-> model[o]]
          /\ broken \subseteq Objects

HoldInv == \A o \in Usable : Holds(obj[o], model[o])

IInv == TypeOK /\ HoldInv

-----------------------------------------------------------------------------
(* Arithmetic of the slots.                                                *)

\* A queue has a slot more than its Capacity at least, a stack none.
LEMMA Geometry ==
  ASSUME Sized
  PROVE  /\ cap \in Nat /\ cap >= 1 /\ BufCap \in Nat /\ BufCap >= cap
         /\ kind = "queue" => BufCap >= cap + 1
         /\ kind # "queue" => kind = "stack" /\ BufCap = cap
<1>1. cap \in Nat /\ cap >= 1 /\ \E p \in 1..MaxSize : IsRoundUp(p, cap + 1)
  BY CapacityAssumption DEF Sized
<1>2. CASE kind = "queue"
  <2> DEFINE c == CHOOSE p \in 1..MaxSize : IsRoundUp(p, cap + 1)
  <2>1. c \in 1..MaxSize /\ IsRoundUp(c, cap + 1)
    BY <1>1
  <2>2. BufCap = c
    BY <1>1, <1>2 DEF BufCap, RoundUpToPowerOfTwo
  <2> HIDE DEF c
  <2>3. c \in Nat /\ c >= cap + 1
    BY <2>1, <1>1, SizeAssumption DEF IsRoundUp
  <2> QED  BY <1>1, <1>2, <2>2, <2>3
<1>3. CASE kind # "queue"
  BY <1>1, <1>3 DEF Sized, BufCap
<1> QED  BY <1>2, <1>3

\* A number below two laps, reduced.
LEMMA ModFact ==
  ASSUME NEW c \in Nat, c >= 1, NEW x \in 0..(2 * c - 1)
  PROVE  x % c = IF x < c THEN x ELSE x - c
<1>2. CASE x < c
  <2>1. x % c = x
    BY <1>2, FirstLap
  <2> QED  BY <1>2, <2>1
<1>3. CASE ~(x < c)
  <2> DEFINE y == x - c
  <2>1. y \in 0..(c - 1) /\ y \in Nat /\ x = y + c
    BY <1>3
  <2> HIDE DEF y
  <2>2. (y + c) % c = y % c
    BY <2>1, NextLap
  <2>3. y % c = y
    BY <2>1, FirstLap
  <2>4. y = x - c
    BY <2>1
  <2> QED  BY <1>3, <2>1, <2>2, <2>3, <2>4
<1> QED  BY <1>2, <1>3

\* The same for the storage.
LEMMA BufMod ==
  ASSUME Sized, NEW x \in Int, 0 <= x, x < 2 * BufCap
  PROVE  x % BufCap = IF x < BufCap THEN x ELSE x - BufCap
<1>1. PICK c \in Nat : c = BufCap /\ c >= 1
  BY Geometry
<1>2. x \in 0..(2 * c - 1)
  BY <1>1
<1>3. x % c = IF x < c THEN x ELSE x - c
  BY <1>1, <1>2, ModFact
<1> QED  BY <1>1, <1>3

\* Walking d slots on and measuring the distance undo each other.
LEMMA WalkFact ==
  ASSUME Sized, NEW h \in 0..(BufCap - 1), NEW d \in 0..(BufCap - 1)
  PROVE  /\ At(h, d) \in 0..(BufCap - 1) /\ Dist(h, At(h, d)) = d
         /\ Dist(h, d) \in 0..(BufCap - 1) /\ At(h, Dist(h, d)) = d
         /\ (h + d) % BufCap = At(h, d)
<1>1. BufCap \in Nat /\ BufCap >= 1
  BY Geometry
<1>2. PICK x \in Int : x = h + d
  BY <1>1
<1>6. 0 <= x /\ x < 2 * BufCap
  BY <1>1, <1>2
<1>7. x % BufCap = IF x < BufCap THEN x ELSE x - BufCap
  BY <1>6, BufMod
<1>8. At(h, d) = IF x < BufCap THEN x ELSE x - BufCap
  BY <1>1, <1>2 DEF At
<1>3. (h + d) % BufCap = At(h, d)
  BY <1>2, <1>7, <1>8, Zenon
<1>4. At(h, d) \in 0..(BufCap - 1) /\ Dist(h, At(h, d)) = d
  BY <1>1 DEF At, Dist
<1>5. Dist(h, d) \in 0..(BufCap - 1) /\ At(h, Dist(h, d)) = d
  BY <1>1 DEF At, Dist
<1> QED  BY <1>3, <1>4, <1>5

\* The same for two slots.
LEMMA DistUnique ==
  ASSUME Sized, NEW h \in 0..(BufCap - 1), NEW i \in 0..(BufCap - 1), NEW d \in 0..(BufCap - 1)
  PROVE  Dist(h, i) = d <=> i = At(h, d)
<1>1. Dist(h, At(h, d)) = d
  BY WalkFact
<1>2. At(h, Dist(h, i)) = i
  BY WalkFact
<1> QED  BY <1>1, <1>2

LEMMA DistNat ==
  ASSUME Sized, NEW h \in 0..(BufCap - 1), NEW i \in 0..(BufCap - 1)
  PROVE  Dist(h, i) \in Nat
<1>1. BufCap \in Nat
  BY Geometry
<1> QED  BY <1>1 DEF Dist

-----------------------------------------------------------------------------
(* What a container shows.                                                 *)

LEMMA FieldsFact ==
  ASSUME NEW a, NEW h, NEW t
  PROVE  Fields(a, h, t).slots = a /\ Fields(a, h, t).head = h /\ Fields(a, h, t).tail = t
  BY DEF Fields

LEMMA ItemFields ==
  ASSUME NEW h, NEW s
  PROVE  /\ Item(h, s).slots = Ring(h, s) /\ Item(h, s).head = h
         /\ kind = "queue" => Item(h, s) = Fields(Ring(h, s), h, At(h, Len(s))) /\ Item(h, s).tail = At(h, Len(s))
         /\ kind # "queue" => Item(h, s) = Fields(Ring(h, s), h, Len(s)) /\ Item(h, s).tail = Len(s)
  BY FieldsFact DEF Item

LEMMA FitsFact ==
  ASSUME Sized, NEW h, NEW s, Fits(h, s)
  PROVE  /\ h \in 0..(BufCap - 1) /\ h \in Nat /\ s \in Seq(Elements)
         /\ Len(s) \in Nat /\ Len(s) <= cap /\ Len(s) <= BufCap
         /\ kind = "queue" => Len(s) \in 0..(BufCap - 1)
         /\ kind # "queue" => h = 0
  BY Geometry DEF Fits

\* The storage, by distance.
LEMMA RingAt ==
  ASSUME Sized, NEW h, NEW s, Fits(h, s), NEW d \in 0..(BufCap - 1)
  PROVE  Ring(h, s)[At(h, d)] = IF d < Len(s) THEN s[d + 1] ELSE Dead
<1>1. At(h, d) \in 0..(BufCap - 1) /\ Dist(h, At(h, d)) = d
  BY FitsFact, WalkFact
<1> QED  BY <1>1 DEF Ring

\* size().
LEMMA SizeFact ==
  ASSUME Sized, NEW h, NEW s, Fits(h, s)
  PROVE  Size(Item(h, s)) = Len(s)
<1>1. CASE kind = "queue"
  <2> DEFINE t == At(h, Len(s))
  <2>1. h \in 0..(BufCap - 1) /\ Len(s) \in 0..(BufCap - 1) /\ BufCap \in Nat /\ BufCap >= 1
    BY <1>1, FitsFact, Geometry
  <2>2. t \in 0..(BufCap - 1)
    BY <2>1, WalkFact
  <2>3. PICK x \in Int : x = t - h + BufCap
    BY <2>1, <2>2
  <2>6. 0 <= x /\ x < 2 * BufCap /\ (IF x < BufCap THEN x ELSE x - BufCap) = Len(s)
    BY <2>1, <2>2, <2>3 DEF At
  <2>4. x % BufCap = IF x < BufCap THEN x ELSE x - BufCap
    BY <2>6, BufMod
  <2>5. (t - h + BufCap) % BufCap = Len(s)
    BY <2>3, <2>4, <2>6
  <2> QED  BY <1>1, <2>5, ItemFields DEF Size
<1>2. CASE kind # "queue"
  BY <1>2, ItemFields DEF Size
<1> QED  BY <1>1, <1>2

\* The slot of the j-th oldest element.
LEMMA SlotFact ==
  ASSUME Sized, NEW h, NEW s, Fits(h, s), NEW j \in 1..BufCap
  PROVE  Slot(Item(h, s), j) = At(h, j - 1)
<1>1. BufCap \in Nat /\ BufCap >= 1 /\ j - 1 \in 0..(BufCap - 1) /\ h \in 0..(BufCap - 1) /\ h \in Int
  BY FitsFact, Geometry
<1>2. CASE kind = "queue"
  <2>1. (h + (j - 1)) % BufCap = At(h, j - 1)
    BY <1>1, WalkFact
  <2>2. h + j - 1 = h + (j - 1)
    BY <1>1
  <2> QED  BY <1>2, <2>1, <2>2, ItemFields DEF Slot
<1>3. CASE kind # "queue"
  <2>1. At(0, j - 1) = j - 1
    BY <1>1 DEF At
  <2> QED  BY <1>3, <2>1, FitsFact DEF Slot
<1> QED  BY <1>2, <1>3

LEMMA ContentsFact ==
  ASSUME Sized, NEW h, NEW s, Fits(h, s)
  PROVE  Contents(Item(h, s)) = s
<1>1. s \in Seq(Elements) /\ Len(s) \in Nat /\ Len(s) <= BufCap /\ BufCap \in Nat
  BY FitsFact, Geometry
<1>2. ASSUME NEW j \in 1..Len(s)  PROVE Item(h, s).slots[Slot(Item(h, s), j)] = s[j]
  <2>1. j \in 1..BufCap /\ j - 1 \in 0..(BufCap - 1) /\ j - 1 < Len(s) /\ (j - 1) + 1 = j
    BY <1>1
  <2>2. Ring(h, s)[At(h, j - 1)] = s[j]
    BY <2>1, RingAt
  <2> QED  BY <2>1, <2>2, SlotFact, ItemFields
<1>3. Contents(Item(h, s)) = [j \in 1..Len(s) |-> Item(h, s).slots[Slot(Item(h, s), j)]]
  BY SizeFact DEF Contents
<1>4. s = [j \in 1..Len(s) |-> s[j]]
  BY <1>1
<1> QED  BY <1>2, <1>3, <1>4

\* empty().
LEMMA EmptyFact ==
  ASSUME Sized, NEW h, NEW s, Fits(h, s)
  PROVE  Item(h, s).head = Item(h, s).tail <=> s = <<>>
<1>1. h \in 0..(BufCap - 1) /\ h \in Int /\ Len(s) \in Nat /\ s \in Seq(Elements) /\ BufCap \in Nat
  BY FitsFact, Geometry
<1>2. Len(s) = 0 <=> s = <<>>
  BY <1>1
<1>3. CASE kind = "queue"
  <2>1. Len(s) \in 0..(BufCap - 1)
    BY <1>3, FitsFact
  <2>2. h = At(h, Len(s)) <=> Len(s) = 0
    BY <1>1, <2>1 DEF At
  <2> QED  BY <1>2, <1>3, <2>2, ItemFields
<1>4. CASE kind # "queue"
  BY <1>2, <1>4, FitsFact, ItemFields
<1> QED  BY <1>3, <1>4

-----------------------------------------------------------------------------
(* What the helpers do.                                                    *)

\* construct behind the last element.
LEMMA ConstructFact ==
  ASSUME Sized, NEW h, NEW s, Fits(h, s), Len(s) < BufCap, NEW v \in Elements
  PROVE  Construct(Ring(h, s), At(h, Len(s)), v) = Ring(h, Append(s, v))
<1>0. PICK n \in Nat : n = Len(s)
  BY FitsFact
<1>1. h \in 0..(BufCap - 1) /\ s \in Seq(Elements) /\ n \in 0..(BufCap - 1) /\ BufCap \in Nat
  BY <1>0, FitsFact, Geometry
<1>8. PICK t : t = At(h, n)
  OBVIOUS
<1>2. t \in 0..(BufCap - 1) /\ Ring(h, s)[t] = Dead
  <2>1. t \in 0..(BufCap - 1)
    BY <1>1, <1>8, WalkFact
  <2>2. Ring(h, s)[t] = IF n < Len(s) THEN s[n + 1] ELSE Dead
    BY <1>1, <1>8, RingAt
  <2> QED  BY <1>0, <2>1, <2>2
<1>3. \A i \in 0..(BufCap - 1) : Dist(h, i) \in Nat /\ (Dist(h, i) = n <=> i = t)
  <2>1. ASSUME NEW i \in 0..(BufCap - 1)  PROVE Dist(h, i) \in Nat
    BY <1>1 DEF Dist
  <2>2. ASSUME NEW i \in 0..(BufCap - 1)  PROVE Dist(h, i) = n <=> i = t
    BY <1>1, <1>8, DistUnique
  <2> QED  BY <2>1, <2>2
<1>4. Len(Append(s, v)) = n + 1 /\ Append(s, v)[n + 1] = v /\ \A j \in 1..n : Append(s, v)[j] = s[j]
  BY <1>0, <1>1, AppendProperties
<1>5. Construct(Ring(h, s), t, v) = [Ring(h, s) EXCEPT ![t] = v]
  BY <1>2 DEF Construct
<1>6. ASSUME NEW i \in 0..(BufCap - 1)
      PROVE  [Ring(h, s) EXCEPT ![t] = v][i] = Ring(h, Append(s, v))[i]
  <2>1. CASE i = t
    <3>1. Dist(h, i) = n
      BY <1>3, <2>1
    <3>2. Append(s, v)[n + 1] = v /\ n < n + 1
      BY <1>1, <1>4
    <3>3. Ring(h, Append(s, v))[i] = v
      BY <1>4, <3>1, <3>2 DEF Ring
    <3> QED  BY <1>2, <2>1, <3>3 DEF Ring
  <2>2. CASE i # t
    <3>1. PICK d \in Nat : d = Dist(h, i) /\ d # n
      BY <1>3, <2>2
    <3>2. d < n <=> d < n + 1
      BY <1>1, <3>1
    <3>3. d < n => Append(s, v)[d + 1] = s[d + 1]
      BY <1>1, <1>4, <3>1
    <3>4. Ring(h, Append(s, v))[i] = IF d < n THEN s[d + 1] ELSE Dead
      BY <1>4, <3>1, <3>2, <3>3 DEF Ring
    <3>5. Ring(h, s)[i] = IF d < n THEN s[d + 1] ELSE Dead
      BY <1>0, <3>1 DEF Ring
    <3> QED  BY <2>2, <3>4, <3>5 DEF Ring
  <2> QED  BY <2>1, <2>2
<1>7. [Ring(h, s) EXCEPT ![t] = v] = Ring(h, Append(s, v))
  BY <1>6 DEF Ring
<1> QED  BY <1>0, <1>5, <1>7, <1>8

\* advance(), for an index d slots after head_.
LEMMA AdvanceFact ==
  ASSUME Sized, NEW h \in 0..(BufCap - 1), NEW d \in 0..(BufCap - 1), d + 1 < BufCap
  PROVE  Advance(At(h, d)) = At(h, d + 1)
<1>1. BufCap \in Nat /\ BufCap >= 1 /\ d + 1 \in 0..(BufCap - 1)
  BY Geometry
<1>5. At(h, d) \in 0..(BufCap - 1)
  BY WalkFact
<1>2. PICK x \in Int : x = At(h, d) + 1 /\ 0 <= x /\ x < 2 * BufCap
  BY <1>1, <1>5
<1>3. x % BufCap = IF x < BufCap THEN x ELSE x - BufCap
  BY <1>2, BufMod
<1>4. At(h, d + 1) = IF x < BufCap THEN x ELSE x - BufCap
  BY <1>1, <1>2 DEF At
<1> QED  BY <1>2, <1>3, <1>4, Zenon DEF Advance

\* push of a container that is not full.
LEMMA PushFact ==
  ASSUME Sized, NEW h, NEW s, Fits(h, s), Len(s) < cap, NEW v \in Elements
  PROVE  /\ Fits(h, Append(s, v))
         /\ kind = "queue" => QueuePushed(Item(h, s), v) = Item(h, Append(s, v))
         /\ kind # "queue" => StackPushed(Item(h, s), v) = Item(h, Append(s, v))
<1>1. /\ h \in 0..(BufCap - 1) /\ h \in Nat /\ s \in Seq(Elements) /\ Len(s) \in Nat /\ cap \in Nat
      /\ BufCap \in Nat /\ Len(s) < BufCap
  BY FitsFact, Geometry
<1>2. Len(Append(s, v)) = Len(s) + 1 /\ Append(s, v) \in Seq(Elements)
  BY <1>1, AppendProperties
<1>3. Fits(h, Append(s, v))
  BY <1>1, <1>2 DEF Fits
<1>7. PICK u : u = Append(s, v)
  OBVIOUS
<1>4. Construct(Ring(h, s), At(h, Len(s)), v) = Ring(h, Append(s, v))
  BY <1>1, ConstructFact
<1>5. ASSUME kind = "queue"  PROVE QueuePushed(Item(h, s), v) = Item(h, Append(s, v))
  <2>1. Len(s) \in 0..(BufCap - 1) /\ Len(s) + 1 < BufCap
    BY <1>1, <1>5, Geometry
  <2>2. Advance(At(h, Len(s))) = At(h, Len(s) + 1)
    BY <1>1, <2>1, AdvanceFact
  <2>3. QueuePushed(Item(h, s), v) = Fields(Ring(h, Append(s, v)), h, At(h, Len(s) + 1))
    BY <1>4, <1>5, <2>2, ItemFields DEF QueuePushed
  <2>4. Item(h, u) = Fields(Ring(h, u), h, At(h, Len(u)))
    BY <1>5, ItemFields
  <2> QED  BY <1>2, <1>7, <2>3, <2>4
<1>6. ASSUME kind # "queue"  PROVE StackPushed(Item(h, s), v) = Item(h, Append(s, v))
  <2>1. At(h, Len(s)) = Len(s)
    BY <1>1, <1>6, FitsFact DEF At
  <2>2. StackPushed(Item(h, s), v) = Fields(Ring(h, Append(s, v)), h, Len(s) + 1)
    BY <1>4, <1>6, <2>1, ItemFields DEF StackPushed
  <2>3. Item(h, u) = Fields(Ring(h, u), h, Len(u))
    BY <1>6, ItemFields
  <2> QED  BY <1>2, <1>7, <2>2, <2>3
<1> QED  BY <1>3, <1>5, <1>6

\* destroy of the oldest element of a queue, whose storage then starts one
\* slot further on.
LEMMA DestroyFirst ==
  ASSUME Sized, NEW h, NEW s, Fits(h, s), s # <<>>, kind = "queue"
  PROVE  Destroy(Ring(h, s), h) = Ring(At(h, 1), Tail(s))
<1>1. /\ h \in 0..(BufCap - 1) /\ h \in Nat /\ s \in Seq(Elements) /\ Len(s) \in Nat /\ Len(s) >= 1
      /\ BufCap \in Nat /\ BufCap >= 2 /\ Len(s) < BufCap
  BY FitsFact, Geometry
<1>2. Len(Tail(s)) = Len(s) - 1 /\ \A j \in 1..(Len(s) - 1) : Tail(s)[j] = s[j + 1]
  BY <1>1
<1>3. PICK g : g = At(h, 1)
  OBVIOUS
<1>4. g \in 0..(BufCap - 1)
  BY <1>1, <1>3 DEF At
<1>5. Ring(h, s)[h] \in Elements
  <2>1. Dist(h, h) = 0
    BY <1>1 DEF Dist
  <2>2. Ring(h, s)[h] = s[1]
    BY <1>1, <2>1 DEF Ring
  <2> QED  BY <1>1, <2>2
<1>6. Destroy(Ring(h, s), h) = [Ring(h, s) EXCEPT ![h] = Dead]
  BY <1>5 DEF Destroy
<1>7. ASSUME NEW i \in 0..(BufCap - 1)  PROVE [Ring(h, s) EXCEPT ![h] = Dead][i] = Ring(g, Tail(s))[i]
  <2>1. PICK e \in Nat : e = Dist(g, i)
    BY <1>4, DistNat
  <2>2. Ring(g, Tail(s))[i] = IF e < Len(s) - 1 THEN Tail(s)[e + 1] ELSE Dead
    BY <1>2, <2>1 DEF Ring
  <2>3. CASE i = h
    <3>1. e = BufCap - 1
      BY <1>1, <1>3, <2>1, <2>3 DEF At, Dist
    <3>2. ~(e < Len(s) - 1)
      BY <1>1, <3>1
    <3> QED  BY <2>2, <2>3, <3>2 DEF Ring
  <2>4. CASE i # h
    <3>1. PICK d \in Nat : d = Dist(h, i)
      BY <1>1, DistNat
    <3>2. d = e + 1
      BY <1>1, <1>3, <2>1, <2>4, <3>1 DEF At, Dist
    <3>3. Ring(h, s)[i] = IF d < Len(s) THEN s[d + 1] ELSE Dead
      BY <3>1 DEF Ring
    <3>4. e < Len(s) - 1 => Tail(s)[e + 1] = s[d + 1]
      <4> SUFFICES ASSUME e < Len(s) - 1  PROVE Tail(s)[e + 1] = s[d + 1]
        OBVIOUS
      <4>1. e + 1 \in 1..(Len(s) - 1)
        BY <1>1
      <4> QED  BY <1>2, <3>2, <4>1
    <3>5. e < Len(s) - 1 <=> d < Len(s)
      BY <1>1, <3>2
    <3>6. [Ring(h, s) EXCEPT ![h] = Dead][i] = Ring(h, s)[i]
      BY <2>4 DEF Ring
    <3> QED  BY <2>2, <3>3, <3>4, <3>5, <3>6
  <2> QED  BY <2>3, <2>4
<1>8. [Ring(h, s) EXCEPT ![h] = Dead] = Ring(g, Tail(s))
  BY <1>7 DEF Ring
<1> QED  BY <1>3, <1>6, <1>8

\* destroy of the newest element.
LEMMA DestroyLast ==
  ASSUME Sized, NEW h, NEW s, Fits(h, s), NEW n \in Nat, Len(s) = n + 1
  PROVE  Destroy(Ring(h, s), At(h, n)) = Ring(h, SubSeq(s, 1, n))
<1>1. /\ h \in 0..(BufCap - 1) /\ h \in Nat /\ s \in Seq(Elements) /\ BufCap \in Nat
      /\ n \in 0..(BufCap - 1)
  BY FitsFact, Geometry
<1>2. PICK u : u = SubSeq(s, 1, n)
  OBVIOUS
<1>3. Len(u) = n /\ \A j \in 1..n : u[j] = s[j]
  BY <1>1, <1>2
<1>4. PICK t : t = At(h, n)
  OBVIOUS
<1>5. t \in 0..(BufCap - 1)
  BY <1>1, <1>4, WalkFact
<1>6. Ring(h, s)[t] \in Elements
  <2>1. Ring(h, s)[t] = IF n < Len(s) THEN s[n + 1] ELSE Dead
    BY <1>1, <1>4, RingAt
  <2> QED  BY <1>1, <2>1
<1>7. Destroy(Ring(h, s), t) = [Ring(h, s) EXCEPT ![t] = Dead]
  BY <1>6 DEF Destroy
<1>8. ASSUME NEW i \in 0..(BufCap - 1)  PROVE [Ring(h, s) EXCEPT ![t] = Dead][i] = Ring(h, u)[i]
  <2>1. PICK d \in Nat : d = Dist(h, i)
    BY <1>1, DistNat
  <2>2. d = n <=> i = t
    BY <1>1, <1>4, <2>1, DistUnique
  <2>3. Ring(h, u)[i] = IF d < n THEN u[d + 1] ELSE Dead
    BY <1>3, <2>1 DEF Ring
  <2>4. Ring(h, s)[i] = IF d < n + 1 THEN s[d + 1] ELSE Dead
    BY <2>1 DEF Ring
  <2>5. CASE i = t
    BY <2>2, <2>3, <2>5 DEF Ring
  <2>6. CASE i # t
    <3>1. d < n => u[d + 1] = s[d + 1]
      BY <1>3
    <3>2. d < n + 1 <=> d < n
      BY <2>2, <2>6
    <3>3. [Ring(h, s) EXCEPT ![t] = Dead][i] = Ring(h, s)[i]
      BY <2>6 DEF Ring
    <3> QED  BY <2>3, <2>4, <3>1, <3>2, <3>3
  <2> QED  BY <2>5, <2>6
<1>9. [Ring(h, s) EXCEPT ![t] = Dead] = Ring(h, u)
  BY <1>8 DEF Ring
<1> QED  BY <1>2, <1>4, <1>7, <1>9

\* pop of a queue and of a stack that are not empty.
LEMMA QueuePopFact ==
  ASSUME Sized, NEW h, NEW s, Fits(h, s), s # <<>>, kind = "queue"
  PROVE  Holds(QueuePopped(Item(h, s)), Tail(s))
<1>1. /\ h \in 0..(BufCap - 1) /\ h \in Nat /\ s \in Seq(Elements) /\ Len(s) \in Nat /\ Len(s) >= 1
      /\ BufCap \in Nat /\ BufCap >= 2 /\ Len(s) < BufCap /\ cap \in Nat /\ Len(s) <= cap
  BY FitsFact, Geometry
<1>2. PICK u : u = Tail(s)
  OBVIOUS
<1>3. u \in Seq(Elements) /\ Len(u) = Len(s) - 1
  BY <1>1, <1>2
<1>4. PICK g : g = At(h, 1)
  OBVIOUS
<1>5. g \in 0..(BufCap - 1) /\ g \in Nat
  BY <1>1, <1>4 DEF At
<1>6. Fits(g, u)
  BY <1>1, <1>3, <1>5 DEF Fits
<1>7. Advance(h) = g
  <2>1. At(h, 0) = h
    BY <1>1 DEF At
  <2>2. PICK z \in Nat : z = 0
    OBVIOUS
  <2>3. Advance(At(h, z)) = At(h, z + 1)
    BY <1>1, <2>2, AdvanceFact
  <2> QED  BY <1>4, <2>1, <2>2, <2>3
<1>8. At(g, Len(u)) = At(h, Len(s))
  BY <1>1, <1>3, <1>4 DEF At
<1>9. QueuePopped(Item(h, s)) = Fields(Ring(g, u), g, At(g, Len(u)))
  BY <1>2, <1>4, <1>7, <1>8, DestroyFirst, ItemFields DEF QueuePopped
<1>10. Item(g, u) = Fields(Ring(g, u), g, At(g, Len(u)))
  BY ItemFields
<1> QED  BY <1>2, <1>5, <1>6, <1>9, <1>10 DEF Holds

LEMMA StackPopFact ==
  ASSUME Sized, NEW h, NEW s, Fits(h, s), NEW n \in Nat, Len(s) = n + 1, kind # "queue"
  PROVE  Holds(StackPopped(Item(h, s)), SubSeq(s, 1, n))
<1>1. /\ h = 0 /\ h \in Nat /\ h \in 0..(BufCap - 1) /\ s \in Seq(Elements) /\ cap \in Nat /\ Len(s) <= cap
      /\ BufCap \in Nat /\ n < BufCap
  BY FitsFact, Geometry
<1>2. PICK u : u = SubSeq(s, 1, n)
  OBVIOUS
<1>3. u \in Seq(Elements) /\ Len(u) = n
  BY <1>1, <1>2
<1>4. Fits(h, u)
  BY <1>1, <1>3 DEF Fits
<1>5. At(h, n) = n
  BY <1>1 DEF At
<1>6. Destroy(Ring(h, s), n) = Ring(h, u)
  BY <1>2, <1>5, DestroyLast
<1>7. Item(h, s).slots = Ring(h, s) /\ Item(h, s).head = h /\ Item(h, s).tail - 1 = n
  BY ItemFields
<1>8. StackPopped(Item(h, s)) = Fields(Ring(h, u), h, n)
  BY <1>6, <1>7 DEF StackPopped
<1>9. Item(h, u) = Fields(Ring(h, u), h, Len(u))
  BY ItemFields
<1> QED  BY <1>1, <1>2, <1>3, <1>4, <1>8, <1>9 DEF Holds

\* The empty container.
LEMMA FreshFact ==
  ASSUME Sized
  PROVE  Fits(0, <<>>) /\ Fresh = Item(0, <<>>) /\ \A h \in 0..(BufCap - 1) : Ring(h, <<>>) = Ring(0, <<>>)
<1>1. BufCap \in Nat /\ BufCap >= 1 /\ cap \in Nat
  BY Geometry
<1>2. Len(<<>>) = 0 /\ <<>> \in Seq(Elements)
  OBVIOUS
<1>3. Fits(0, <<>>)
  BY <1>1, <1>2 DEF Fits
<1>4. ASSUME NEW h \in 0..(BufCap - 1)  PROVE Ring(h, <<>>) = [i \in 0..(BufCap - 1) |-> Dead]
  <2>1. ASSUME NEW i \in 0..(BufCap - 1)  PROVE ~(Dist(h, i) < Len(<<>>))
    BY <1>1, <1>2 DEF Dist
  <2> QED  BY <2>1 DEF Ring
<1>5. PICK z \in 0..(BufCap - 1) : z = 0
  BY <1>1
<1>6. At(0, 0) = 0
  BY <1>1 DEF At
<1>7. Item(0, <<>>) = Fields(Ring(0, <<>>), 0, 0)
  BY <1>2, <1>6 DEF Item
<1>8. Ring(0, <<>>) = [i \in 0..(BufCap - 1) |-> Dead]
  BY <1>4, <1>5
<1> QED  BY <1>3, <1>4, <1>7, <1>8 DEF Fresh

-----------------------------------------------------------------------------
(* The loops.                                                              *)

\* Storage without its k oldest elements, and without its newest but n.
Cut(h, s, k) == [i \in 0..(BufCap - 1) |->
                   IF k <= Dist(h, i) /\ Dist(h, i) < Len(s) THEN s[Dist(h, i) + 1] ELSE Dead]
Low(s, n) == [i \in 0..(BufCap - 1) |-> IF i < n THEN s[i + 1] ELSE Dead]

LEMMA CutStep ==
  ASSUME Sized, NEW h, NEW s, Fits(h, s), NEW k \in Nat, k < Len(s)
  PROVE  Destroy(Cut(h, s, k), At(h, k)) = Cut(h, s, k + 1)
<1>1. /\ h \in 0..(BufCap - 1) /\ h \in Nat /\ s \in Seq(Elements) /\ BufCap \in Nat
      /\ k \in 0..(BufCap - 1) /\ Len(s) \in Nat
  BY FitsFact, Geometry
<1>2. PICK t : t = At(h, k)
  OBVIOUS
<1>3. t \in 0..(BufCap - 1) /\ Dist(h, t) = k
  BY <1>1, <1>2, WalkFact
<1>4. Cut(h, s, k)[t] \in Elements
  <2>1. Cut(h, s, k)[t] = s[k + 1]
    BY <1>1, <1>3 DEF Cut
  <2> QED  BY <1>1, <2>1
<1>5. Destroy(Cut(h, s, k), t) = [Cut(h, s, k) EXCEPT ![t] = Dead]
  BY <1>4 DEF Destroy
<1>6. ASSUME NEW i \in 0..(BufCap - 1)  PROVE [Cut(h, s, k) EXCEPT ![t] = Dead][i] = Cut(h, s, k + 1)[i]
  <2>1. PICK d \in Nat : d = Dist(h, i)
    BY <1>1, DistNat
  <2>2. d = k <=> i = t
    BY <1>1, <1>2, <2>1, DistUnique
  <2>3. Cut(h, s, k + 1)[i] = IF k + 1 <= d /\ d < Len(s) THEN s[d + 1] ELSE Dead
    BY <2>1 DEF Cut
  <2>4. Cut(h, s, k)[i] = IF k <= d /\ d < Len(s) THEN s[d + 1] ELSE Dead
    BY <2>1 DEF Cut
  <2>5. CASE i = t
    BY <2>2, <2>3, <2>5 DEF Cut
  <2>6. CASE i # t
    <3>1. k + 1 <= d <=> k <= d
      BY <2>2, <2>6
    <3>2. [Cut(h, s, k) EXCEPT ![t] = Dead][i] = Cut(h, s, k)[i]
      BY <2>6 DEF Cut
    <3> QED  BY <2>3, <2>4, <3>1, <3>2
  <2> QED  BY <2>5, <2>6
<1>7. [Cut(h, s, k) EXCEPT ![t] = Dead] = Cut(h, s, k + 1)
  BY <1>6 DEF Cut
<1> QED  BY <1>2, <1>5, <1>7

\* clear of a queue.
LEMMA QueueClearFact ==
  ASSUME Sized, NEW h, NEW s, Fits(h, s), kind = "queue"
  PROVE  QueueClear(Item(h, s)) = Fresh
<1>0. PICK r : r = Item(h, s)
  OBVIOUS
<1>1. PICK n \in Nat : n = Len(s)
  BY FitsFact
<1> DEFINE g == [k \in 0..n |-> Cut(h, s, k)]
           Run(f) == f = [k \in 0..n |-> IF k = 0 THEN r.slots ELSE Destroy(f[k - 1], Slot(r, k))]
           after == CHOOSE f : Run(f)
<1>2. h \in 0..(BufCap - 1) /\ BufCap \in Nat /\ n <= BufCap /\ s \in Seq(Elements)
  BY <1>1, FitsFact, Geometry
<1>3. Cut(h, s, 0) = r.slots
  <2>1. \A i \in 0..(BufCap - 1) : 0 <= Dist(h, i)
    BY <1>2 DEF Dist
  <2>2. r.slots = Ring(h, s)
    BY <1>0, ItemFields
  <2> QED  BY <2>1, <2>2 DEF Cut, Ring
<1>4. ASSUME NEW k \in 1..n  PROVE Cut(h, s, k) = Destroy(Cut(h, s, k - 1), Slot(r, k))
  <2>1. PICK j \in Nat : j = k - 1
    OBVIOUS
  <2>2. k = j + 1 /\ j < Len(s) /\ k \in 1..BufCap
    BY <1>1, <1>2, <2>1
  <2>3. Slot(r, k) = At(h, k - 1)
    BY <1>0, <2>2, SlotFact
  <2>4. Destroy(Cut(h, s, j), At(h, j)) = Cut(h, s, j + 1)
    BY <2>2, CutStep
  <2> QED  BY <2>1, <2>2, <2>3, <2>4
<1>5. Size(r) = n
  BY <1>0, <1>1, SizeFact
<1>6. QueueClear(r) = Fields(after[n], 0, 0)
  BY <1>5 DEF QueueClear
<1>7. Run(g)
  BY <1>3, <1>4
<1>8. Run(after)
  BY <1>7
<1> HIDE DEF after
<1>9. SameLoop(n, after, g)
  BY <1>3, <1>4, <1>8 DEF SameLoop
<1>10. after[n] = Cut(h, s, n)
  <2>1. after[n] = g[n]
    BY <1>9, LoopUnique
  <2> QED  BY <2>1
<1>11. Cut(h, s, n) = [i \in 0..(BufCap - 1) |-> Dead]
  <2>1. ASSUME NEW i \in 0..(BufCap - 1)  PROVE ~(n <= Dist(h, i) /\ Dist(h, i) < Len(s))
    <3>1. Dist(h, i) \in Nat
      BY <1>2, DistNat
    <3> QED  BY <1>1, <3>1
  <2> QED  BY <2>1 DEF Cut
<1> QED  BY <1>0, <1>6, <1>10, <1>11 DEF Fresh

LEMMA LowStep ==
  ASSUME Sized, NEW s, Fits(0, s), NEW n \in Nat, n < Len(s)
  PROVE  Destroy(Low(s, n + 1), n) = Low(s, n)
<1>1. s \in Seq(Elements) /\ BufCap \in Nat /\ n \in 0..(BufCap - 1) /\ Len(s) \in Nat
  BY FitsFact, Geometry
<1>2. Low(s, n + 1)[n] = s[n + 1] /\ s[n + 1] \in Elements
  BY <1>1 DEF Low
<1>3. Destroy(Low(s, n + 1), n) = [Low(s, n + 1) EXCEPT ![n] = Dead]
  BY <1>2 DEF Destroy
<1>5. ASSUME NEW i \in 0..(BufCap - 1)  PROVE [Low(s, n + 1) EXCEPT ![n] = Dead][i] = Low(s, n)[i]
  <2>1. i # n => (i < n + 1 <=> i < n)
    BY <1>1
  <2>2. i = n => ~(i < n)
    BY <1>1
  <2> QED  BY <1>1, <2>1, <2>2 DEF Low
<1>4. [Low(s, n + 1) EXCEPT ![n] = Dead] = Low(s, n)
  BY <1>5 DEF Low
<1> QED  BY <1>3, <1>4

\* clear of a stack.
LEMMA StackClearFact ==
  ASSUME Sized, NEW h, NEW s, Fits(h, s), kind # "queue"
  PROVE  StackClear(Item(h, s)) = Fresh
<1>0. PICK r : r = Item(h, s)
  OBVIOUS
<1>1. PICK n \in Nat : n = Len(s)
  BY FitsFact
<1> DEFINE g == [k \in 0..n |-> Low(s, n - k)]
           Run(f) == f = [k \in 0..n |-> IF k = 0 THEN r.slots ELSE Destroy(f[k - 1], r.tail - k)]
           after == CHOOSE f : Run(f)
<1>2. h = 0 /\ Fits(0, s) /\ BufCap \in Nat /\ n <= BufCap /\ s \in Seq(Elements) /\ r.tail = n
  <2>1. r.tail = n
    BY <1>0, <1>1, ItemFields
  <2>2. h = 0 /\ n <= BufCap /\ s \in Seq(Elements)
    BY <1>1, FitsFact
  <2> QED  BY <2>1, <2>2, Geometry
<1>3. Low(s, n - 0) = r.slots
  <2>1. \A i \in 0..(BufCap - 1) : Dist(h, i) = i
    BY <1>2 DEF Dist
  <2>2. r.slots = Ring(h, s)
    BY <1>0, ItemFields
  <2>3. n - 0 = Len(s)
    BY <1>1
  <2> QED  BY <2>1, <2>2, <2>3 DEF Low, Ring
<1>4. ASSUME NEW k \in 1..n  PROVE Low(s, n - k) = Destroy(Low(s, n - (k - 1)), r.tail - k)
  <2>1. PICK j \in Nat : j = n - k
    OBVIOUS
  <2>2. n - (k - 1) = j + 1 /\ j < Len(s) /\ r.tail - k = j
    BY <1>1, <1>2, <2>1
  <2>3. Destroy(Low(s, j + 1), j) = Low(s, j)
    BY <1>2, <2>2, LowStep
  <2> QED  BY <2>1, <2>2, <2>3
<1>6. StackClear(r) = Fields(after[n], 0, 0)
  BY <1>2 DEF StackClear
<1>7. Run(g)
  BY <1>3, <1>4
<1>8. Run(after)
  BY <1>7
<1> HIDE DEF after
<1>9. SameLoop(n, after, g)
  BY <1>3, <1>4, <1>8 DEF SameLoop
<1>10. after[n] = Low(s, n - n)
  <2>1. after[n] = g[n]
    BY <1>9, LoopUnique
  <2> QED  BY <2>1
<1>11. Low(s, n - n) = [i \in 0..(BufCap - 1) |-> Dead]
  BY DEF Low
<1> QED  BY <1>0, <1>6, <1>10, <1>11 DEF Fresh

LEMMA ClearFact ==
  ASSUME Sized, NEW r, NEW s, Holds(r, s)
  PROVE  Clear(r) = Fresh
<1>1. PICK h \in Nat : Fits(h, s) /\ r = Item(h, s)
  BY DEF Holds
<1>2. CASE kind = "queue"
  BY <1>1, <1>2, QueueClearFact DEF Clear
<1>3. CASE kind # "queue"
  BY <1>1, <1>3, StackClearFact DEF Clear
<1> QED  BY <1>2, <1>3

\* The first j of the elements s, in the first slots.
First(s, j) == Item(0, SubSeq(s, 1, j))

\* What the provers need to know of the first elements.
LEMMA FirstFits ==
  ASSUME Sized, NEW s \in Seq(Elements), Len(s) <= cap, NEW j \in 0..Len(s)
  PROVE  /\ Fits(0, SubSeq(s, 1, j)) /\ Len(SubSeq(s, 1, j)) = j
         /\ SubSeq(s, 1, j) \in Seq(Elements) /\ \A i \in 1..j : SubSeq(s, 1, j)[i] = s[i]
<1>1. PICK u : u = SubSeq(s, 1, j)
  OBVIOUS
<1>2. u \in Seq(Elements) /\ Len(u) = j /\ \A i \in 1..j : u[i] = s[i]
  BY <1>1
<1>3. cap \in Nat /\ BufCap \in Nat /\ BufCap >= 1 /\ Len(s) \in Nat
  BY Geometry
<1>4. Fits(0, u)
  BY <1>2, <1>3 DEF Fits
<1> QED  BY <1>1, <1>2, <1>4

LEMMA FirstStep ==
  ASSUME Sized, NEW s \in Seq(Elements), Len(s) <= cap, NEW j \in Nat, j < Len(s)
  PROVE  /\ kind = "queue" => QueuePushed(First(s, j), s[j + 1]) = First(s, j + 1)
         /\ kind # "queue" => StackPushed(First(s, j), s[j + 1]) = First(s, j + 1)
<1>1. j \in 0..Len(s) /\ j + 1 \in 0..Len(s) /\ cap \in Nat /\ s[j + 1] \in Elements /\ Len(s) \in Nat
  BY Geometry
<1>2. PICK u : u = SubSeq(s, 1, j)
  OBVIOUS
<1>3. Fits(0, u) /\ Len(u) = j /\ u \in Seq(Elements) /\ \A i \in 1..j : u[i] = s[i]
  BY <1>1, <1>2, FirstFits
<1>4. PICK v \in Elements : v = s[j + 1]
  BY <1>1
<1>5. Append(u, v) = SubSeq(s, 1, j + 1)
  <2>1. PICK w : w = SubSeq(s, 1, j + 1)
    OBVIOUS
  <2>2. w \in Seq(Elements) /\ Len(w) = j + 1 /\ \A i \in 1..(j + 1) : w[i] = s[i]
    BY <1>1, <2>1
  <2>3. /\ Append(u, v) \in Seq(Elements) /\ Len(Append(u, v)) = j + 1
        /\ \A i \in 1..j : Append(u, v)[i] = u[i] /\ Append(u, v)[j + 1] = v
    BY <1>3, AppendProperties
  <2>4. ASSUME NEW i \in 1..(j + 1)  PROVE Append(u, v)[i] = w[i]
    <3>1. CASE i = j + 1
      <4>1. Append(u, v)[j + 1] = v
        BY <1>3, AppendProperties
      <4> QED  BY <1>4, <2>2, <3>1, <4>1
    <3>2. CASE i \in 1..j
      BY <1>3, <2>2, <2>3, <3>2
    <3>3. i = j + 1 \/ i \in 1..j
      BY <2>4
    <3> QED  BY <3>1, <3>2, <3>3
  <2>5. Append(u, v) = w
    BY <2>2, <2>3, <2>4
  <2> QED  BY <2>1, <2>5
<1>6. Len(u) < cap
  BY <1>1, <1>3
<1>7. PICK h : h = 0
  OBVIOUS
<1>8. /\ kind = "queue" => QueuePushed(Item(h, u), v) = Item(h, Append(u, v))
      /\ kind # "queue" => StackPushed(Item(h, u), v) = Item(h, Append(u, v))
  BY <1>3, <1>6, <1>7, PushFact
<1> QED  BY <1>2, <1>4, <1>5, <1>7, <1>8 DEF First

LEMMA FirstNone ==
  ASSUME Sized, NEW s \in Seq(Elements)
  PROVE  First(s, 0) = Fresh /\ First(s, Len(s)) = Item(0, s)
<1>1. SubSeq(s, 1, 0) = <<>>
  OBVIOUS
<1>2. SubSeq(s, 1, Len(s)) = s
  OBVIOUS
<1> QED  BY <1>1, <1>2, FreshFact DEF First

\* The loop of a constructor or an assignment of queues.
LEMMA QueuePartlyFact ==
  ASSUME Sized, NEW s \in Seq(Elements), Len(s) <= cap, NEW k \in 0..Len(s), kind = "queue"
  PROVE  QueuePartly(Fresh, s, k) = First(s, k)
<1> DEFINE g == [j \in 0..k |-> First(s, j)]
           Run(f) == f = [j \in 0..k |-> IF j = 0 THEN Fresh ELSE QueuePushed(f[j - 1], s[j])]
           made == CHOOSE f : Run(f)
<1>1. First(s, 0) = Fresh
  BY FirstNone
<1>2. ASSUME NEW j \in 1..k  PROVE First(s, j) = QueuePushed(First(s, j - 1), s[j])
  <2>1. PICK i \in Nat : i = j - 1
    OBVIOUS
  <2>2. j = i + 1 /\ i < Len(s)
    BY <2>1
  <2>3. QueuePushed(First(s, i), s[i + 1]) = First(s, i + 1)
    BY <2>2, FirstStep
  <2> QED  BY <2>1, <2>2, <2>3
<1>3. QueuePartly(Fresh, s, k) = made[k]
  BY DEF QueuePartly
<1>4. Run(g)
  BY <1>1, <1>2
<1>5. Run(made)
  BY <1>4
<1> HIDE DEF made
<1>6. k \in Nat /\ SameLoop(k, made, g)
  BY <1>1, <1>2, <1>5 DEF SameLoop
<1>7. made[k] = g[k]
  BY <1>6, LoopUnique
<1> QED  BY <1>3, <1>6, <1>7

\* The same of stacks.  A loop that stopped has set no size.
LEMMA StackPartlyFact ==
  ASSUME Sized, NEW s \in Seq(Elements), Len(s) <= cap, NEW k \in 0..Len(s), kind # "queue",
         k = Len(s) \/ k = 0
  PROVE  StackPartly(Fresh, s, k) = First(s, k)
<1> DEFINE g == [j \in 0..k |-> First(s, j)]
           Run(f) == f = [j \in 0..k |-> IF j = 0 THEN Fresh ELSE StackPushed(f[j - 1], s[j])]
           made == CHOOSE f : Run(f)
<1>1. First(s, 0) = Fresh
  BY FirstNone
<1>2. ASSUME NEW j \in 1..k  PROVE First(s, j) = StackPushed(First(s, j - 1), s[j])
  <2>1. PICK i \in Nat : i = j - 1
    OBVIOUS
  <2>2. j = i + 1 /\ i < Len(s)
    BY <2>1
  <2>3. StackPushed(First(s, i), s[i + 1]) = First(s, i + 1)
    BY <2>2, FirstStep
  <2> QED  BY <2>1, <2>2, <2>3
<1>3. StackPartly(Fresh, s, k) = Fields(made[k].slots, made[k].head, IF k = Len(s) THEN k ELSE 0)
  BY DEF StackPartly
<1>4. Run(g)
  BY <1>1, <1>2
<1>5. Run(made)
  BY <1>4
<1> HIDE DEF made
<1>6. k \in Nat /\ SameLoop(k, made, g)
  BY <1>1, <1>2, <1>5 DEF SameLoop
<1>7. made[k] = g[k]
  BY <1>6, LoopUnique
<1>8. made[k] = First(s, k)
  BY <1>6, <1>7
<1>9. PICK u : u = SubSeq(s, 1, k)
  OBVIOUS
<1>10. Len(u) = k
  BY <1>9, FirstFits
<1>11. Item(0, u) = Fields(Ring(0, u), 0, Len(u))
  BY DEF Item
<1>12. Fields(Ring(0, u), 0, k).slots = Ring(0, u) /\ Fields(Ring(0, u), 0, k).head = 0
  BY FieldsFact
<1>13. First(s, k) = Fields(Ring(0, u), 0, k)
  BY <1>9, <1>10, <1>11 DEF First
<1>14. (IF k = Len(s) THEN k ELSE 0) = k
  OBVIOUS
<1> QED  BY <1>3, <1>8, <1>12, <1>13, <1>14

\* A copy of all elements.
LEMMA FilledFact ==
  ASSUME Sized, NEW s \in Seq(Elements), Len(s) <= cap
  PROVE  Holds(Filled(Fresh, s), s)
<1>1. PICK k \in 0..Len(s) : k = Len(s)
  OBVIOUS
<1>4. Filled(Fresh, s) = First(s, k)
  <2>1. kind = "queue" => QueuePartly(Fresh, s, k) = First(s, k)
    BY QueuePartlyFact
  <2>2. kind # "queue" => StackPartly(Fresh, s, k) = First(s, k)
    BY <1>1, StackPartlyFact
  <2> QED  BY <1>1, <2>1, <2>2 DEF Filled, Partly
<1>5. First(s, k) = Item(0, s) /\ Fits(0, s)
  <2>1. SubSeq(s, 1, k) = s
    BY <1>1
  <2> QED  BY <2>1, FirstFits DEF First
<1>6. PICK h \in Nat : h = 0
  OBVIOUS
<1> QED  BY <1>4, <1>5, <1>6 DEF Holds

\* A copy that stopped after k elements, of a queue, or of a stack before the
\* first.
LEMMA PartlyFact ==
  ASSUME Sized, NEW s \in Seq(Elements), Len(s) <= cap, NEW k \in 0..Len(s), kind = "queue" \/ k = 0
  PROVE  Holds(Partly(Fresh, s, k), SubSeq(s, 1, k))
<1>1. Partly(Fresh, s, k) = First(s, k)
  <2>1. kind = "queue" => QueuePartly(Fresh, s, k) = First(s, k)
    BY QueuePartlyFact
  <2>2. kind # "queue" => StackPartly(Fresh, s, k) = First(s, k)
    BY StackPartlyFact
  <2> QED  BY <2>1, <2>2 DEF Partly
<1>2. PICK u : u = SubSeq(s, 1, k)
  OBVIOUS
<1>3. First(s, k) = Item(0, u) /\ Fits(0, u)
  BY <1>2, FirstFits DEF First
<1>4. PICK h \in Nat : h = 0
  OBVIOUS
<1> QED  BY <1>1, <1>2, <1>3, <1>4 DEF Holds

-----------------------------------------------------------------------------
(* Moved elements, equality and swap.                                      *)

\* The elements of which the k oldest have been moved from.
Stripped(s, k) == [j \in 1..Len(s) |-> IF j <= k THEN Moved ELSE s[j]]

LEMMA MovedFromFact ==
  ASSUME Sized, NEW h, NEW s, Fits(h, s), NEW k \in Nat, k <= Len(s)
  PROVE  MovedFrom(Item(h, s), k) = Item(h, Stripped(s, k)) /\ Fits(h, Stripped(s, k))
<1>1. PICK r : r = Item(h, s)
  OBVIOUS
<1>2. PICK u : u = Stripped(s, k)
  OBVIOUS
<1>3. /\ h \in 0..(BufCap - 1) /\ h \in Nat /\ s \in Seq(Elements) /\ Len(s) \in Nat /\ Len(s) <= cap
      /\ Len(s) <= BufCap /\ BufCap \in Nat
  BY FitsFact, Geometry
<1>4. /\ u \in Seq(Elements) /\ Len(u) = Len(s)
      /\ \A j \in 1..Len(s) : u[j] = IF j <= k THEN Moved ELSE s[j]
  BY <1>2, <1>3 DEF Stripped, Elements
<1>5. Fits(h, u)
  BY <1>3, <1>4 DEF Fits
<1>6. r.slots = Ring(h, s) /\ r.head = h /\ DOMAIN r.slots = 0..(BufCap - 1)
  BY <1>1, ItemFields DEF Ring
<1>7. ASSUME NEW i \in 0..(BufCap - 1)
      PROVE  (IF \E j \in 1..k : i = Slot(r, j) THEN Moved ELSE r.slots[i]) = Ring(h, u)[i]
  <2>1. PICK d \in Nat : d = Dist(h, i) /\ d \in 0..(BufCap - 1)
    BY <1>3, WalkFact, DistNat
  <2>2. ASSUME NEW j \in 1..k  PROVE i = Slot(r, j) <=> j = d + 1
    <3>1. j \in 1..BufCap /\ j - 1 \in 0..(BufCap - 1)
      BY <1>3
    <3>2. Slot(r, j) = At(h, j - 1)
      BY <1>1, <3>1, SlotFact
    <3>3. Dist(h, i) = j - 1 <=> i = At(h, j - 1)
      BY <1>3, <3>1, DistUnique
    <3>4. d = j - 1 <=> j = d + 1
      OBVIOUS
    <3> QED  BY <2>1, <3>2, <3>3, <3>4
  <2>3. (\E j \in 1..k : i = Slot(r, j)) <=> d < k
    <3>1. d < k <=> d + 1 \in 1..k
      BY <2>1
    <3> QED  BY <2>2, <3>1
  <2>4. r.slots[i] = IF d < Len(s) THEN s[d + 1] ELSE Dead
    BY <1>6, <2>1 DEF Ring
  <2>5. Ring(h, u)[i] = IF d < Len(s) THEN u[d + 1] ELSE Dead
    BY <1>4, <2>1 DEF Ring
  <2>6. CASE d < k
    <3>1. d < Len(s) /\ u[d + 1] = Moved
      BY <1>3, <1>4, <2>6
    <3> QED  BY <2>3, <2>5, <2>6, <3>1
  <2>7. CASE ~(d < k)
    <3>1. d < Len(s) => u[d + 1] = s[d + 1]
      BY <1>3, <1>4, <2>7
    <3> QED  BY <2>3, <2>4, <2>5, <2>7, <3>1
  <2> QED  BY <2>6, <2>7
<1>8. MovedFrom(r, k) = Fields(Ring(h, u), h, r.tail)
  <2>1. [i \in 0..(BufCap - 1) |-> IF \E j \in 1..k : i = Slot(r, j) THEN Moved ELSE r.slots[i]] = Ring(h, u)
    BY <1>7 DEF Ring
  <2> QED  BY <1>6, <2>1 DEF MovedFrom
<1>9. Item(h, u) = Fields(Ring(h, u), h, r.tail)
  BY <1>1, <1>4 DEF Item, Fields
<1> QED  BY <1>1, <1>2, <1>5, <1>8, <1>9

\* operator==.
LEMMA EqualFact ==
  ASSUME Sized, NEW x, NEW s, Holds(x, s), NEW y, NEW u, Holds(y, u)
  PROVE  Equal(x, y) <=> s = u
<1>1. PICK h \in Nat : Fits(h, s) /\ x = Item(h, s)
  BY DEF Holds
<1>2. PICK g \in Nat : Fits(g, u) /\ y = Item(g, u)
  BY DEF Holds
<1>3. s \in Seq(Elements) /\ u \in Seq(Elements) /\ Len(s) \in Nat /\ Len(u) \in Nat
  BY <1>1, <1>2, FitsFact
<1>4. s = u <=> Len(s) = Len(u) /\ \A i \in 1..Len(s) : s[i] = u[i]
  BY <1>3
<1>5. Size(x) = Len(s) /\ Size(y) = Len(u) /\ Contents(x) = s /\ Contents(y) = u
  BY <1>1, <1>2, SizeFact, ContentsFact
<1>6. /\ \A i \in 1..Len(s) : x.slots[Slot(x, i)] = s[i]
      /\ \A i \in 1..Len(u) : y.slots[Slot(y, i)] = u[i]
  BY <1>5 DEF Contents
<1>7. CASE kind = "queue"
  BY <1>4, <1>5, <1>6, <1>7 DEF Equal, QueueEqual
<1>8. CASE kind # "queue"
  <2>1. x.tail = Len(s) /\ y.tail = Len(u)
    BY <1>5, <1>8 DEF Size
  <2>2. \A i \in 1..Len(s) : x.slots[i - 1] = s[i]
    BY <1>6, <1>8 DEF Slot
  <2>3. \A i \in 1..Len(u) : y.slots[i - 1] = u[i]
    BY <1>6, <1>8 DEF Slot
  <2>4. ASSUME Len(s) = Len(u)
        PROVE  (\A i \in 0..(Len(s) - 1) : x.slots[i] = y.slots[i]) <=> (\A i \in 1..Len(s) : s[i] = u[i])
    <3>1. ASSUME \A i \in 0..(Len(s) - 1) : x.slots[i] = y.slots[i], NEW i \in 1..Len(s)  PROVE s[i] = u[i]
      <4>1. i - 1 \in 0..(Len(s) - 1)
        BY <1>3
      <4> QED  BY <2>2, <2>3, <2>4, <3>1, <4>1
    <3>2. ASSUME \A i \in 1..Len(s) : s[i] = u[i], NEW i \in 0..(Len(s) - 1)  PROVE x.slots[i] = y.slots[i]
      <4>1. PICK j \in 1..Len(s) : j - 1 = i
        <5>1. i + 1 \in 1..Len(s) /\ (i + 1) - 1 = i
          BY <1>3
        <5> QED  BY <5>1
      <4> QED  BY <2>2, <2>3, <2>4, <3>2, <4>1
    <3> QED  BY <3>1, <3>2
  <2>5. Equal(x, y) <=> Len(s) = Len(u) /\ \A i \in 0..(Len(s) - 1) : x.slots[i] = y.slots[i]
    BY <1>8, <2>1 DEF Equal, StackEqual
  <2> QED  BY <1>4, <2>4, <2>5
<1> QED  BY <1>7, <1>8

\* Storage of a stack with the elements u.
LEMMA StackItem ==
  ASSUME Sized, kind # "queue", NEW u \in Seq(Elements), Len(u) <= cap, NEW a,
         a = [i \in 0..(BufCap - 1) |-> IF i < Len(u) THEN u[i + 1] ELSE Dead]
  PROVE  Holds(Fields(a, 0, Len(u)), u)
<1>1. BufCap \in Nat /\ BufCap >= 1 /\ cap \in Nat
  BY Geometry
<1>2. PICK h \in Nat : h = 0
  OBVIOUS
<1>3. Fits(h, u)
  BY <1>1, <1>2 DEF Fits
<1>4. \A i \in 0..(BufCap - 1) : Dist(h, i) = i
  BY <1>1, <1>2 DEF Dist
<1>5. Ring(h, u) = a
  BY <1>4 DEF Ring
<1>6. Item(h, u) = Fields(a, 0, Len(u))
  <2>1. Item(h, u) = Fields(Ring(h, u), h, Len(u))
    BY ItemFields
  <2> QED  BY <1>2, <1>5, <2>1
<1> QED  BY <1>3, <1>6 DEF Holds

\* The fields of a stack that holds s.
LEMMA StackFields ==
  ASSUME Sized, kind # "queue", NEW r, NEW s, Holds(r, s)
  PROVE  /\ r.head = 0 /\ r.tail = Len(s) /\ s \in Seq(Elements) /\ Len(s) \in Nat /\ Len(s) <= cap /\ Len(s) <= BufCap
         /\ DOMAIN r.slots = 0..(BufCap - 1)
         /\ \A i \in 0..(BufCap - 1) : r.slots[i] = IF i < Len(s) THEN s[i + 1] ELSE Dead
<1>1. PICK h \in Nat : Fits(h, s) /\ r = Item(h, s)
  BY DEF Holds
<1>2. h = 0 /\ s \in Seq(Elements) /\ Len(s) \in Nat /\ Len(s) <= cap /\ Len(s) <= BufCap /\ BufCap \in Nat
  BY <1>1, FitsFact, Geometry
<1>3. r.slots = Ring(h, s) /\ r.head = h /\ r.tail = Len(s)
  BY <1>1, ItemFields
<1>4. \A i \in 0..(BufCap - 1) : Dist(h, i) = i
  BY <1>2 DEF Dist
<1>5. Ring(h, s) = [i \in 0..(BufCap - 1) |-> IF i < Len(s) THEN s[i + 1] ELSE Dead]
  BY <1>4 DEF Ring
<1> QED  BY <1>2, <1>3, <1>5

\* What a container that holds s shows.
LEMMA HoldsFact ==
  ASSUME Sized, NEW r, NEW s, Holds(r, s)
  PROVE  /\ Size(r) = Len(s) /\ Contents(r) = s /\ (r.head = r.tail <=> s = <<>>)
         /\ s \in Seq(Elements) /\ Len(s) \in Nat /\ Len(s) <= cap
<1>1. PICK h \in Nat : Fits(h, s) /\ r = Item(h, s)
  BY DEF Holds
<1> QED  BY <1>1, SizeFact, ContentsFact, EmptyFact, FitsFact

\* swap: x becomes what y was.
LEMMA SwappedFact ==
  ASSUME Sized, NEW x, NEW s, Holds(x, s), NEW y, NEW u, Holds(y, u)
  PROVE  Holds(Swapped(x, y), u)
<1>1. Size(y) = Len(u) /\ Contents(y) = u /\ u \in Seq(Elements) /\ Len(u) <= cap /\ Len(u) \in Nat
  BY HoldsFact
<1>2. CASE kind = "queue"
  <2>1. QueueClear(x) = Fresh
    BY <1>2, ClearFact DEF Clear
  <2>2. Swapped(x, y) = QueuePartly(Fresh, u, Len(u))
    BY <1>1, <1>2, <2>1 DEF Swapped, QueueSwapped
  <2>3. Filled(Fresh, u) = QueuePartly(Fresh, u, Len(u))
    BY <1>2 DEF Filled, Partly
  <2> QED  BY <1>1, <2>2, <2>3, FilledFact
<1>3. CASE kind # "queue"
  <2>1. /\ x.head = 0 /\ x.tail = Len(s) /\ Len(s) \in Nat /\ DOMAIN x.slots = 0..(BufCap - 1)
        /\ \A i \in 0..(BufCap - 1) : x.slots[i] = IF i < Len(s) THEN s[i + 1] ELSE Dead
    BY <1>3, StackFields
  <2>2. /\ y.tail = Len(u)
        /\ \A i \in 0..(BufCap - 1) : y.slots[i] = IF i < Len(u) THEN u[i + 1] ELSE Dead
    BY <1>3, StackFields
  <2>3. PICK a : a = [i \in 0..(BufCap - 1) |-> IF i < Len(u) THEN u[i + 1] ELSE Dead]
    OBVIOUS
  <2>4. ASSUME NEW i \in 0..(BufCap - 1)
        PROVE  (IF i < Len(u) THEN y.slots[i] ELSE IF i < Len(s) THEN Dead ELSE x.slots[i])
                 = IF i < Len(u) THEN u[i + 1] ELSE Dead
    BY <2>1, <2>2
  <2>5. StackSwapped(x, y) = Fields(a, 0, Len(u))
    BY <2>1, <2>2, <2>3, <2>4 DEF StackSwapped
  <2>6. Holds(Fields(a, 0, Len(u)), u)
    BY <1>1, <1>3, <2>3, StackItem
  <2> QED  BY <1>3, <2>5, <2>6 DEF Swapped
<1> QED  BY <1>2, <1>3

-----------------------------------------------------------------------------
(* Steps.                                                                  *)

\* What a container holds depends on the class and its Capacity only, which
\* never change.
LEMMA Carry ==
  ASSUME UNCHANGED type, Sized, \A o \in Usable' : Holds(obj'[o], model'[o])
  PROVE  Sized' /\ HoldInv'
<1>1. kind' = kind /\ cap' = cap
  BY DEF type
<1>2. BufCap' = BufCap
  BY <1>1 DEF BufCap
<1>3. Sized'
  BY <1>1 DEF Sized
<1>4. ASSUME NEW o \in Usable'  PROVE Holds(obj[o], model[o])'
  <2>1. Holds(obj'[o], model'[o])
    OBVIOUS
  <2> QED  BY <1>1, <1>2, <2>1 DEF Holds, Fits, Item, Ring, Dist, At
<1> QED  BY <1>3, <1>4 DEF HoldInv

\* The step makes r and s of o.
Sets(o, r, s) == /\ obj' = [obj EXCEPT ![o] = r] /\ model' = [model EXCEPT ![o] = s]
                 /\ UNCHANGED type /\ broken \subseteq broken' /\ broken' \subseteq Objects

\* The same for o and p.
SetsBoth(o, x, s, p, y, u) ==
  /\ obj' = [obj EXCEPT ![o] = x, ![p] = y] /\ model' = [model EXCEPT ![o] = s, ![p] = u]
  /\ UNCHANGED type /\ broken \subseteq broken' /\ broken' \subseteq Objects

\* Only what the step touches has to be looked at.
LEMMA OneStep ==
  ASSUME IInv, NEW o \in Objects, NEW r, NEW s, Sets(o, r, s), o \in broken' \/ r = None \/ Holds(r, s)
  PROVE  IInv'
<1>1. /\ obj' = [obj EXCEPT ![o] = r] /\ model' = [model EXCEPT ![o] = s] /\ UNCHANGED type
      /\ broken \subseteq broken' /\ broken' \subseteq Objects
  BY DEF Sets
<1>2. Sized /\ obj = [q \in Objects |-> obj[q]] /\ model = [q \in Objects |-> model[q]]
  BY DEF IInv, TypeOK
<1>3. obj' = [q \in Objects |-> IF q = o THEN r ELSE obj[q]]
  BY <1>1, <1>2
<1>4. model' = [q \in Objects |-> IF q = o THEN s ELSE model[q]]
  BY <1>1, <1>2
<1>5. ASSUME NEW q \in Usable'  PROVE Holds(obj'[q], model'[q])
  <2>1. q \in Objects /\ obj'[q] # None /\ q \notin broken'
    BY DEF Usable, Alive
  <2>2. CASE q = o
    BY <1>3, <1>4, <2>1, <2>2
  <2>3. CASE q # o
    <3>1. obj'[q] = obj[q] /\ model'[q] = model[q]
      BY <1>3, <1>4, <2>1, <2>3
    <3>2. q \in Usable
      BY <1>1, <2>1, <3>1 DEF Usable, Alive
    <3> QED  BY <3>1, <3>2 DEF IInv, HoldInv
  <2> QED  BY <2>2, <2>3
<1>6. Sized' /\ HoldInv'
  BY <1>1, <1>2, <1>5, Carry
<1>7. obj' = [q \in Objects |-> obj'[q]] /\ model' = [q \in Objects |-> model'[q]]
  BY <1>3, <1>4
<1> QED  BY <1>1, <1>6, <1>7 DEF IInv, TypeOK

LEMMA TwoStep ==
  ASSUME IInv, NEW o \in Objects, NEW x, NEW s, NEW p \in Objects, NEW y, NEW u, SetsBoth(o, x, s, p, y, u),
         o \in broken' \/ Holds(x, s), p \in broken' \/ Holds(y, u)
  PROVE  IInv'
<1>1. /\ obj' = [obj EXCEPT ![o] = x, ![p] = y] /\ model' = [model EXCEPT ![o] = s, ![p] = u] /\ UNCHANGED type
      /\ broken \subseteq broken' /\ broken' \subseteq Objects
  BY DEF SetsBoth
<1>2. Sized /\ obj = [q \in Objects |-> obj[q]] /\ model = [q \in Objects |-> model[q]]
  BY DEF IInv, TypeOK
<1>3. obj' = [q \in Objects |-> IF q = p THEN y ELSE IF q = o THEN x ELSE obj[q]]
  BY <1>1, <1>2
<1>4. model' = [q \in Objects |-> IF q = p THEN u ELSE IF q = o THEN s ELSE model[q]]
  BY <1>1, <1>2
<1>5. ASSUME NEW q \in Usable'  PROVE Holds(obj'[q], model'[q])
  <2>1. q \in Objects /\ obj'[q] # None /\ q \notin broken'
    BY DEF Usable, Alive
  <2>2. CASE q = p
    BY <1>3, <1>4, <2>1, <2>2
  <2>4. CASE q = o /\ q # p
    BY <1>3, <1>4, <2>1, <2>4
  <2>3. CASE q # o /\ q # p
    <3>1. obj'[q] = obj[q] /\ model'[q] = model[q]
      BY <1>3, <1>4, <2>1, <2>3
    <3>2. q \in Usable
      BY <1>1, <2>1, <3>1 DEF Usable, Alive
    <3> QED  BY <3>1, <3>2 DEF IInv, HoldInv
  <2> QED  BY <2>2, <2>3, <2>4
<1>6. Sized' /\ HoldInv'
  BY <1>1, <1>2, <1>5, Carry
<1>7. obj' = [q \in Objects |-> obj'[q]] /\ model' = [q \in Objects |-> model'[q]]
  BY <1>3, <1>4
<1> QED  BY <1>1, <1>6, <1>7 DEF IInv, TypeOK

LEMMA InitFact == Init => IInv
<1> SUFFICES ASSUME Init  PROVE IInv
  OBVIOUS
<1>1. Sized /\ broken \subseteq Objects
  BY DEF Init, Sized
<1>2. obj = [o \in Objects |-> None] /\ model = [o \in Objects |-> <<>>]
  BY DEF Init
<1>3. Usable = {}
  BY <1>2 DEF Usable, Alive
<1> QED  BY <1>1, <1>2, <1>3 DEF IInv, TypeOK, HoldInv

\* A usable container.
LEMMA UsableFact ==
  ASSUME IInv, NEW o \in Usable
  PROVE  o \in Objects /\ Sized /\ Holds(obj[o], model[o])
  BY DEF IInv, TypeOK, HoldInv, Usable, Alive

\* The empty container holds nothing.
LEMMA FreshHolds ==
  ASSUME Sized
  PROVE  Holds(Fresh, <<>>)
<1>1. PICK h \in Nat : h = 0
  OBVIOUS
<1> QED  BY <1>1, FreshFact DEF Holds

LEMMA BecomesStep ==
  ASSUME IInv, NEW o \in Objects, NEW r, NEW s, Becomes(o, r, s), r = None \/ Holds(r, s)
  PROVE  IInv'
<1>1. Sets(o, r, s)
  BY DEF Becomes, Sets, IInv, TypeOK
<1> QED  BY <1>1, OneStep

LEMMA MoveIntoStep ==
  ASSUME IInv, NEW o \in Objects, NEW rhs \in Usable, MoveInto(o, Fresh, rhs)
  PROVE  IInv'
<1>1. Sized /\ Holds(obj[rhs], model[rhs]) /\ rhs \in Objects
  BY UsableFact
<1>2. PICK s : s = model[rhs]
  OBVIOUS
<1>3. Contents(obj[rhs]) = s /\ s \in Seq(Elements) /\ Len(s) <= cap /\ Clear(obj[rhs]) = Fresh
  BY <1>1, <1>2, HoldsFact, ClearFact
<1>4. PICK x : x = Filled(Fresh, s)
  OBVIOUS
<1>5. Holds(x, s)
  BY <1>1, <1>3, <1>4, FilledFact
<1>6. PICK e, u : e = Fresh /\ u = <<>>
  OBVIOUS
<1>7. Holds(e, u)
  BY <1>1, <1>6, FreshHolds
<1>8. SetsBoth(o, x, s, rhs, e, u)
  BY <1>2, <1>3, <1>4, <1>6 DEF MoveInto, SetsBoth, IInv, TypeOK
<1> QED  BY <1>1, <1>5, <1>7, <1>8, TwoStep

\* A copy of another container, in a container that was cleared.
LEMMA CopyStep ==
  ASSUME IInv, NEW o \in Objects, NEW rhs \in Usable, Becomes(o, Filled(Fresh, Contents(obj[rhs])), model[rhs])
  PROVE  IInv'
<1>1. Sized /\ Holds(obj[rhs], model[rhs])
  BY UsableFact
<1>2. PICK s : s = model[rhs]
  OBVIOUS
<1>3. Contents(obj[rhs]) = s /\ s \in Seq(Elements) /\ Len(s) <= cap
  BY <1>1, <1>2, HoldsFact
<1>4. PICK x : x = Filled(Fresh, s)
  OBVIOUS
<1>5. Holds(x, s)
  BY <1>1, <1>3, <1>4, FilledFact
<1>6. Becomes(o, x, s)
  BY <1>2, <1>3, <1>4
<1> QED  BY <1>5, <1>6, BecomesStep

LEMMA LifecycleStep ==
  ASSUME IInv, NEW o \in Objects, Lifecycle(o)
  PROVE  IInv'
<1>0. Sized
  BY DEF IInv, TypeOK
<1>1. ASSUME NEW s \in Lists, ConstructList(o, s)  PROVE IInv'
  <2>1. s \in Seq(Elements) /\ Len(s) <= cap
    <3>1. PICK n \in 0..cap : s \in [1..n -> Values]
      BY <1>1 DEF Lists
    <3>2. n \in Nat /\ cap \in Nat
      BY <1>0, Geometry
    <3>3. s \in Seq(Elements)
      BY <3>1, <3>2 DEF Elements
    <3> QED  BY <1>1, <3>3 DEF ConstructList
  <2>2. PICK x : x = Filled(Fresh, s)
    OBVIOUS
  <2>3. Holds(x, s)
    BY <1>0, <2>1, <2>2, FilledFact
  <2>4. Becomes(o, x, s)
    BY <1>1, <2>2 DEF ConstructList
  <2> QED  BY <2>3, <2>4, BecomesStep
<1>2. ASSUME NEW rhs \in Objects, ConstructCopy(o, rhs)  PROVE IInv'
  BY <1>2, CopyStep DEF ConstructCopy
<1>3. ASSUME NEW rhs \in Objects, ConstructMove(o, rhs)  PROVE IInv'
  BY <1>3, MoveIntoStep DEF ConstructMove
<1>4. CASE Destruct(o)
  <2>1. PICK x, s : x = None /\ s = <<>>
    OBVIOUS
  <2>2. Becomes(o, x, s)
    BY <1>4, <2>1 DEF Destruct
  <2> QED  BY <2>1, <2>2, BecomesStep
<1> QED  BY <1>1, <1>2, <1>3, <1>4 DEF Lifecycle

LEMMA PushStep ==
  ASSUME IInv, NEW o \in Objects, NEW v \in Values, Push(o, v)
  PROVE  IInv'
<1>1. o \in Usable /\ v \in Elements
  BY DEF Push, Elements
<1>2. Sized /\ Holds(obj[o], model[o])
  BY <1>1, UsableFact
<1>3. Size(obj[o]) = Len(model[o]) /\ Len(model[o]) \in Nat /\ Len(model[o]) <= cap /\ cap \in Nat
  BY <1>2, HoldsFact, Geometry
<1>4. CASE Len(model[o]) = cap
  <2>1. Becomes(o, obj[o], model[o])
    BY <1>3, <1>4 DEF Push
  <2>2. PICK x, s : x = obj[o] /\ s = model[o]
    OBVIOUS
  <2> QED  BY <1>2, <2>1, <2>2, BecomesStep
<1>5. CASE Len(model[o]) # cap
  <2>1. PICK x, s : x = Pushed(obj[o], v) /\ s = Append(model[o], v)
    OBVIOUS
  <2>2. Becomes(o, x, s)
    BY <1>3, <1>5, <2>1 DEF Push
  <2>3. PICK h \in Nat : Fits(h, model[o]) /\ obj[o] = Item(h, model[o])
    BY <1>2 DEF Holds
  <2>4. PICK m : m = model[o] /\ Len(m) < cap
    BY <1>3, <1>5
  <2>5. /\ Fits(h, Append(m, v))
        /\ kind = "queue" => QueuePushed(Item(h, m), v) = Item(h, Append(m, v))
        /\ kind # "queue" => StackPushed(Item(h, m), v) = Item(h, Append(m, v))
    BY <1>1, <1>2, <2>3, <2>4, PushFact
  <2>6. x = Item(h, s) /\ Fits(h, s)
    BY <2>1, <2>3, <2>4, <2>5 DEF Pushed
  <2>7. Holds(x, s)
    BY <2>6 DEF Holds
  <2> QED  BY <2>2, <2>7, BecomesStep
<1> QED  BY <1>4, <1>5

LEMMA PopStep ==
  ASSUME IInv, NEW o \in Objects, Pop(o)
  PROVE  IInv'
<1>1. o \in Usable
  BY DEF Pop
<1>2. Sized /\ Holds(obj[o], model[o])
  BY <1>1, UsableFact
<1>3. (obj[o].head = obj[o].tail <=> model[o] = <<>>) /\ Len(model[o]) \in Nat /\ model[o] \in Seq(Elements)
  BY <1>2, HoldsFact
<1>4. CASE model[o] = <<>>
  <2>1. Becomes(o, obj[o], model[o])
    BY <1>3, <1>4 DEF Pop
  <2>2. PICK x, s : x = obj[o] /\ s = model[o]
    OBVIOUS
  <2> QED  BY <1>2, <2>1, <2>2, BecomesStep
<1>5. CASE model[o] # <<>> /\ kind = "queue"
  <2>1. PICK x, s : x = QueuePopped(obj[o]) /\ s = Tail(model[o])
    OBVIOUS
  <2>2. Becomes(o, x, s)
    BY <1>3, <1>5, <2>1 DEF Pop, Popped
  <2>3. PICK h \in Nat : Fits(h, model[o]) /\ obj[o] = Item(h, model[o])
    BY <1>2 DEF Holds
  <2>4. PICK m : m = model[o]
    OBVIOUS
  <2>5. Holds(QueuePopped(Item(h, m)), Tail(m))
    BY <1>2, <1>5, <2>3, <2>4, QueuePopFact
  <2>6. Holds(x, s)
    BY <2>1, <2>3, <2>4, <2>5
  <2> QED  BY <2>2, <2>6, BecomesStep
<1>6. CASE model[o] # <<>> /\ kind # "queue"
  <2>0. kind = "stack"
    BY <1>2, <1>6, Geometry
  <2>1. PICK x, s : x = StackPopped(obj[o]) /\ s = SubSeq(model[o], 1, Len(model[o]) - 1)
    OBVIOUS
  <2>2. Becomes(o, x, s)
    BY <1>3, <1>6, <2>0, <2>1 DEF Pop, Popped
  <2>3. PICK h \in Nat : Fits(h, model[o]) /\ obj[o] = Item(h, model[o])
    BY <1>2 DEF Holds
  <2>4. PICK n \in Nat : n = Len(model[o]) - 1
    BY <1>3, <1>6
  <2>5. PICK m : m = model[o] /\ Len(m) = n + 1
    BY <1>3, <2>4
  <2>6. Holds(StackPopped(Item(h, m)), SubSeq(m, 1, n))
    BY <1>2, <1>6, <2>3, <2>5, StackPopFact
  <2>7. Holds(x, s)
    BY <2>1, <2>3, <2>4, <2>5, <2>6
  <2> QED  BY <2>2, <2>7, BecomesStep
<1> QED  BY <1>4, <1>5, <1>6

LEMMA UseStep ==
  ASSUME IInv, NEW o \in Objects, Use(o)
  PROVE  IInv'
<1>1. ASSUME NEW v \in Values, Push(o, v)  PROVE IInv'
  BY <1>1, PushStep
<1>2. CASE Pop(o)
  BY <1>2, PopStep
<1>3. CASE ClearAll(o)
  <2>1. o \in Usable /\ Becomes(o, Clear(obj[o]), <<>>)
    BY <1>3 DEF ClearAll
  <2>2. Sized /\ Clear(obj[o]) = Fresh
    BY <2>1, UsableFact, ClearFact
  <2>3. PICK x, s : x = Fresh /\ s = <<>>
    OBVIOUS
  <2>4. Holds(x, s) /\ Becomes(o, x, s)
    BY <2>1, <2>2, <2>3, FreshHolds
  <2> QED  BY <2>4, BecomesStep
<1>4. ASSUME NEW rhs \in Objects, AssignCopy(o, rhs)  PROVE IInv'
  <2>1. o \in Usable /\ rhs \in Usable /\ Becomes(o, Filled(Clear(obj[o]), Contents(obj[rhs])), model[rhs])
    BY <1>4 DEF AssignCopy
  <2>2. Clear(obj[o]) = Fresh
    BY <2>1, UsableFact, ClearFact
  <2> QED  BY <2>1, <2>2, CopyStep
<1>5. ASSUME NEW rhs \in Objects, AssignMove(o, rhs)  PROVE IInv'
  <2>1. o \in Usable /\ rhs \in Usable /\ MoveInto(o, Clear(obj[o]), rhs)
    BY <1>5 DEF AssignMove
  <2>2. Clear(obj[o]) = Fresh
    BY <2>1, UsableFact, ClearFact
  <2> QED  BY <2>1, <2>2, MoveIntoStep
<1>6. ASSUME NEW rhs \in Objects, Swap(o, rhs)  PROVE IInv'
  <2>1. o \in Usable /\ rhs \in Usable
    BY <1>6 DEF Swap
  <2>2. Sized /\ Holds(obj[o], model[o]) /\ Holds(obj[rhs], model[rhs])
    BY <2>1, UsableFact
  <2>3. PICK x, s : x = Swapped(obj[o], obj[rhs]) /\ s = model[rhs]
    OBVIOUS
  <2>4. PICK y, u : y = Swapped(obj[rhs], obj[o]) /\ u = model[o]
    OBVIOUS
  <2>5. Holds(x, s) /\ Holds(y, u)
    BY <2>2, <2>3, <2>4, SwappedFact
  <2>6. SetsBoth(o, x, s, rhs, y, u)
    BY <1>6, <2>3, <2>4 DEF Swap, SetsBoth, IInv, TypeOK
  <2> QED  BY <2>5, <2>6, TwoStep
<1> QED  BY <1>1, <1>2, <1>3, <1>4, <1>5, <1>6 DEF Use

-----------------------------------------------------------------------------
(* Exceptions.                                                             *)

\* Valid storage, with elements that nobody specifies.
Valid(r) == \E u : Holds(r, u)

LEMMA ValidFact ==
  ASSUME Sized, NEW r, Valid(r)
  PROVE  Holds(r, Contents(r))
  BY HoldsFact DEF Valid

LEMMA LeavesStep ==
  ASSUME IInv, NEW o \in Objects, NEW x, NEW bad \in SUBSET Objects, Leaves(o, x, bad), o \in bad \/ Valid(x)
  PROVE  IInv'
<1>1. PICK s : s = Contents(x)
  OBVIOUS
<1>2. Sets(o, x, s) /\ (o \in bad => o \in broken')
  BY <1>1 DEF Leaves, Sets, IInv, TypeOK
<1>3. Valid(x) => Holds(x, s)
  BY <1>1, ValidFact DEF IInv, TypeOK
<1> QED  BY <1>2, <1>3, OneStep

LEMMA LeavesBothStep ==
  ASSUME IInv, NEW o \in Objects, NEW x, NEW p \in Objects, NEW y, NEW bad \in SUBSET Objects,
         LeavesBoth(o, x, p, y, bad), o \in bad \/ Valid(x), p \in bad \/ Valid(y)
  PROVE  IInv'
<1>1. PICK s, u : s = Contents(x) /\ u = Contents(y)
  OBVIOUS
<1>2. SetsBoth(o, x, s, p, y, u) /\ (o \in bad => o \in broken') /\ (p \in bad => p \in broken')
  BY <1>1 DEF LeavesBoth, SetsBoth, IInv, TypeOK
<1>3. (Valid(x) => Holds(x, s)) /\ (Valid(y) => Holds(y, u))
  BY <1>1, ValidFact DEF IInv, TypeOK
<1> QED  BY <1>2, <1>3, TwoStep

\* A usable container, and what it is after k of its elements were moved from.
LEMMA UsableValid ==
  ASSUME IInv, NEW o \in Usable
  PROVE  /\ Sized /\ o \in Objects /\ Valid(obj[o]) /\ Holds(obj[o], Contents(obj[o]))
         /\ Clear(obj[o]) = Fresh /\ Contents(obj[o]) \in Seq(Elements) /\ Len(Contents(obj[o])) <= cap
         /\ Size(obj[o]) = Len(Contents(obj[o])) /\ Len(Contents(obj[o])) \in Nat
  BY UsableFact, HoldsFact, ClearFact DEF Valid

LEMMA MovedValid ==
  ASSUME Sized, NEW r, Valid(r), NEW k \in Nat, k <= Size(r)
  PROVE  Valid(MovedFrom(r, k))
<1>1. PICK s : Holds(r, s)
  BY DEF Valid
<1>2. PICK h \in Nat : Fits(h, s) /\ r = Item(h, s)
  BY <1>1 DEF Holds
<1>3. k <= Len(s)
  BY <1>1, HoldsFact
<1>4. MovedFrom(Item(h, s), k) = Item(h, Stripped(s, k)) /\ Fits(h, Stripped(s, k))
  BY <1>2, <1>3, MovedFromFact
<1> QED  BY <1>2, <1>4 DEF Valid, Holds

LEMMA SourceValid ==
  ASSUME IInv, NEW rhs \in Usable, NEW moving \in BOOLEAN, NEW k \in Nat, k <= Size(obj[rhs])
  PROVE  Valid(Source(rhs, moving, k))
  BY UsableValid, MovedValid DEF Source

\* A copy or move into a cleared container that stopped after k elements.
LEMMA PartlyValid ==
  ASSUME IInv, NEW o \in Usable, NEW rhs \in Usable, NEW k \in Nat, k <= Size(obj[rhs]), kind = "queue" \/ k = 0
  PROVE  Valid(Partly(Clear(obj[o]), Contents(obj[rhs]), k))
<1>1. PICK s : s = Contents(obj[rhs])
  OBVIOUS
<1>2. Sized /\ s \in Seq(Elements) /\ Len(s) <= cap /\ Len(s) \in Nat /\ k <= Len(s)
  BY <1>1, UsableValid
<1>3. Clear(obj[o]) = Fresh
  BY UsableValid
<1>4. k \in 0..Len(s)
  BY <1>2
<1>5. Holds(Partly(Fresh, s, k), SubSeq(s, 1, k))
  BY <1>2, <1>4, PartlyFact
<1> QED  BY <1>1, <1>3, <1>5 DEF Valid

LEMMA FilledValid ==
  ASSUME IInv, NEW o \in Usable, NEW rhs \in Usable
  PROVE  Valid(Filled(Clear(obj[o]), Contents(obj[rhs])))
<1>1. PICK s : s = Contents(obj[rhs])
  OBVIOUS
<1>2. Sized /\ s \in Seq(Elements) /\ Len(s) <= cap
  BY <1>1, UsableValid
<1>3. Clear(obj[o]) = Fresh
  BY UsableValid
<1>4. Holds(Filled(Fresh, s), s)
  BY <1>2, FilledFact
<1> QED  BY <1>1, <1>3, <1>4 DEF Valid

LEMMA ConstructThrowsStep ==
  ASSUME IInv, NEW o \in Objects, NEW rhs \in Objects, NEW moving \in BOOLEAN, NEW k \in Nat,
         ConstructThrows(o, rhs, moving, k)
  PROVE  IInv'
<1>1. PICK bad \in SUBSET Objects : bad = IF k > 0 THEN {o} ELSE {}
  OBVIOUS
<1>2. PICK x : x = Source(rhs, moving, k)
  OBVIOUS
<1>3. rhs \in Usable /\ k < Size(obj[rhs]) /\ Leaves(rhs, x, bad)
  BY <1>1, <1>2 DEF ConstructThrows, MayThrow
<1>4. Size(obj[rhs]) \in Nat
  BY <1>3, UsableValid
<1>5. Valid(x)
  BY <1>2, <1>3, <1>4, SourceValid
<1> QED  BY <1>3, <1>5, LeavesStep

LEMMA AssignThrowsStep ==
  ASSUME IInv, NEW o \in Objects, NEW rhs \in Objects, NEW moving \in BOOLEAN, NEW k \in Nat,
         AssignThrows(o, rhs, moving, k)
  PROVE  IInv'
<1>1. PICK bad \in SUBSET Objects : bad = IF kind = "stack" /\ k > 0 THEN {o} ELSE {}
  OBVIOUS
<1>2. PICK x, y : x = Partly(Clear(obj[o]), Contents(obj[rhs]), k) /\ y = Source(rhs, moving, k)
  OBVIOUS
<1>3. o \in Usable /\ rhs \in Usable /\ k < Size(obj[rhs]) /\ LeavesBoth(o, x, rhs, y, bad)
  BY <1>1, <1>2 DEF AssignThrows
<1>4. Size(obj[rhs]) \in Nat /\ (kind # "queue" => kind = "stack")
  BY <1>3, UsableValid, Geometry
<1>5. Valid(y)
  BY <1>2, <1>3, <1>4, SourceValid
<1>6. CASE kind = "queue" \/ k = 0
  <2>1. Valid(x)
    BY <1>2, <1>3, <1>4, <1>6, PartlyValid
  <2> QED  BY <1>3, <1>5, <2>1, LeavesBothStep
<1>7. CASE ~(kind = "queue" \/ k = 0)
  <2>1. o \in bad
    BY <1>1, <1>4, <1>7
  <2> QED  BY <1>3, <1>5, <2>1, LeavesBothStep
<1> QED  BY <1>6, <1>7

LEMMA QueueSwapThrowsStep ==
  ASSUME IInv, NEW o \in Objects, NEW rhs \in Objects, NEW k \in Nat, QueueSwapThrows(o, rhs, k)
  PROVE  IInv'
<1>1. kind = "queue" /\ o \in Usable /\ rhs \in Usable
  BY DEF QueueSwapThrows
<1>2. Sized /\ Valid(obj[o]) /\ Valid(obj[rhs]) /\ Size(obj[o]) \in Nat /\ Size(obj[rhs]) \in Nat
  BY <1>1, UsableValid
<1>3. PICK bad \in SUBSET Objects : bad = {}
  OBVIOUS
<1>4. CASE k < Size(obj[rhs]) /\ Leaves(rhs, MovedFrom(obj[rhs], k), {})
  <2>1. PICK x : x = MovedFrom(obj[rhs], k)
    OBVIOUS
  <2>2. Valid(x)
    BY <1>2, <1>4, <2>1, MovedValid
  <2> QED  BY <1>3, <1>4, <2>1, <2>2, LeavesStep
<1>5. CASE /\ k < Size(obj[o])
           /\ LeavesBoth(o, MovedFrom(obj[o], k), rhs, Partly(Clear(obj[rhs]), Contents(obj[o]), k), {})
  <2>1. PICK x, y : x = MovedFrom(obj[o], k) /\ y = Partly(Clear(obj[rhs]), Contents(obj[o]), k)
    OBVIOUS
  <2>2. Valid(x)
    BY <1>2, <1>5, <2>1, MovedValid
  <2>3. Valid(y)
    BY <1>1, <1>2, <1>5, <2>1, PartlyValid
  <2> QED  BY <1>3, <1>5, <2>1, <2>2, <2>3, LeavesBothStep
<1>6. CASE /\ k < Size(obj[rhs])
           /\ LeavesBoth(o, Partly(Clear(obj[o]), Contents(obj[rhs]), k), rhs, Filled(Clear(obj[rhs]), Contents(obj[o])), {})
  <2>1. PICK x, y : x = Partly(Clear(obj[o]), Contents(obj[rhs]), k) /\ y = Filled(Clear(obj[rhs]), Contents(obj[o]))
    OBVIOUS
  <2>2. Valid(x)
    BY <1>1, <1>2, <1>6, <2>1, PartlyValid
  <2>3. Valid(y)
    BY <1>1, <2>1, FilledValid
  <2> QED  BY <1>3, <1>6, <2>1, <2>2, <2>3, LeavesBothStep
<1> QED  BY <1>4, <1>5, <1>6 DEF QueueSwapThrows

\* A stack whose first k elements are those of another, and the next is e.
LEMMA MixedValid ==
  ASSUME Sized, kind # "queue", NEW x, NEW s, Holds(x, s), NEW y, NEW u, Holds(y, u),
         NEW k \in Nat, k < Len(s), k < Len(u), NEW e \in Elements
  PROVE  Valid(Fields([i \in DOMAIN x.slots |-> IF i < k THEN y.slots[i] ELSE IF i = k THEN e ELSE x.slots[i]],
                      x.head, x.tail))
<1>1. /\ x.head = 0 /\ x.tail = Len(s) /\ s \in Seq(Elements) /\ Len(s) \in Nat /\ Len(s) <= cap
      /\ DOMAIN x.slots = 0..(BufCap - 1)
      /\ \A i \in 0..(BufCap - 1) : x.slots[i] = IF i < Len(s) THEN s[i + 1] ELSE Dead
  BY StackFields
<1>2. /\ u \in Seq(Elements) /\ Len(u) \in Nat
      /\ \A i \in 0..(BufCap - 1) : y.slots[i] = IF i < Len(u) THEN u[i + 1] ELSE Dead
  BY StackFields
<1> DEFINE w == [j \in 1..Len(s) |-> IF j <= k THEN u[j] ELSE IF j = k + 1 THEN e ELSE s[j]]
<1>3. ASSUME NEW j \in 1..Len(s)  PROVE (IF j <= k THEN u[j] ELSE IF j = k + 1 THEN e ELSE s[j]) \in Elements
  <2>1. j <= k => u[j] \in Elements
    BY <1>2
  <2>2. s[j] \in Elements
    BY <1>1
  <2> QED  BY <2>1, <2>2
<1>4. w \in Seq(Elements) /\ Len(w) = Len(s)
  BY <1>1, <1>3
<1>5. \A j \in 1..Len(s) : w[j] = IF j <= k THEN u[j] ELSE IF j = k + 1 THEN e ELSE s[j]
  OBVIOUS
<1> HIDE DEF w
<1>6. ASSUME NEW i \in 0..(BufCap - 1)
      PROVE  (IF i < k THEN y.slots[i] ELSE IF i = k THEN e ELSE x.slots[i]) = IF i < Len(w) THEN w[i + 1] ELSE Dead
  <2>1. CASE i < k
    <3>1. y.slots[i] = u[i + 1] /\ i < Len(s)
      BY <1>1, <1>2, <2>1
    <3>2. i + 1 \in 1..Len(s) /\ i + 1 <= k
      BY <1>1, <2>1
    <3>3. w[i + 1] = u[i + 1]
      BY <1>5, <3>2
    <3> QED  BY <1>4, <2>1, <3>1, <3>3
  <2>2. CASE i = k
    <3>1. i + 1 \in 1..Len(s) /\ ~(i + 1 <= k) /\ i + 1 = k + 1 /\ ~(i < k)
      BY <1>1, <2>2
    <3>2. w[i + 1] = e
      BY <1>5, <3>1
    <3> QED  BY <1>4, <2>2, <3>1, <3>2
  <2>3. CASE i > k
    <3>1. ~(i < k) /\ i # k
      BY <2>3
    <3>2. i < Len(s) => w[i + 1] = s[i + 1]
      <4> SUFFICES ASSUME i < Len(s)  PROVE w[i + 1] = s[i + 1]
        OBVIOUS
      <4>1. i + 1 \in 1..Len(s) /\ ~(i + 1 <= k) /\ i + 1 # k + 1
        BY <1>1, <2>3
      <4> QED  BY <1>5, <4>1
    <3> QED  BY <1>1, <1>4, <3>1, <3>2
  <2>4. i < k \/ i = k \/ i > k
    OBVIOUS
  <2> QED  BY <2>1, <2>2, <2>3, <2>4
<1>7. PICK a : a = [i \in 0..(BufCap - 1) |-> IF i < k THEN y.slots[i] ELSE IF i = k THEN e ELSE x.slots[i]]
  OBVIOUS
<1>8. a = [i \in 0..(BufCap - 1) |-> IF i < Len(w) THEN w[i + 1] ELSE Dead]
  BY <1>6, <1>7
<1>9. Len(w) <= cap
  BY <1>1, <1>4
<1>10. Holds(Fields(a, 0, Len(w)), w)
  BY <1>4, <1>8, <1>9, StackItem
<1> QED  BY <1>1, <1>4, <1>7, <1>10 DEF Valid

LEMMA StackPairThrowsStep ==
  ASSUME IInv, NEW o \in Objects, NEW rhs \in Objects, NEW k \in Nat, StackPairThrows(o, rhs, k)
  PROVE  IInv'
<1> DEFINE x == obj[o].slots
           y == obj[rhs].slots
           mixed(r, other, e) ==
             Fields([i \in DOMAIN r.slots |-> IF i < k THEN other[i] ELSE IF i = k THEN e ELSE r.slots[i]],
                    r.head, r.tail)
<1>1. /\ kind = "stack" /\ kind # "queue" /\ o \in Usable /\ rhs \in Usable
      /\ k < Size(obj[o]) /\ k < Size(obj[rhs])
  BY DEF StackPairThrows
<1>2. PICK e \in {x[k], y[k], Moved}, d \in {y[k], Moved} :
        LeavesBoth(o, mixed(obj[o], y, e), rhs, mixed(obj[rhs], x, d), {})
  BY DEF StackPairThrows
<1>3. PICK s : s = model[o] /\ Holds(obj[o], s)
  BY <1>1, UsableFact
<1>4. PICK u : u = model[rhs] /\ Holds(obj[rhs], u)
  BY <1>1, UsableFact
<1>5. Sized
  BY DEF IInv, TypeOK
<1>6. k < Len(s) /\ k < Len(u) /\ Len(s) \in Nat /\ Len(u) \in Nat
  BY <1>1, <1>3, <1>4, <1>5, HoldsFact
<1>7. x[k] \in Elements /\ y[k] \in Elements /\ Moved \in Elements
  <2>1. /\ s \in Seq(Elements) /\ Len(s) <= BufCap
        /\ \A i \in 0..(BufCap - 1) : x[i] = IF i < Len(s) THEN s[i + 1] ELSE Dead
    BY <1>1, <1>3, <1>5, StackFields
  <2>2. /\ u \in Seq(Elements)
        /\ \A i \in 0..(BufCap - 1) : y[i] = IF i < Len(u) THEN u[i + 1] ELSE Dead
    BY <1>1, <1>4, <1>5, StackFields
  <2>3. k \in 0..(BufCap - 1) /\ k + 1 \in 1..Len(s) /\ k + 1 \in 1..Len(u)
    BY <1>5, <1>6, <2>1, Geometry
  <2>4. x[k] = s[k + 1] /\ y[k] = u[k + 1]
    BY <1>6, <2>1, <2>2, <2>3
  <2> QED  BY <2>1, <2>2, <2>3, <2>4 DEF Elements
<1>8. e \in Elements /\ d \in Elements
  BY <1>7
<1>9. Valid(mixed(obj[o], y, e))
  BY <1>1, <1>3, <1>4, <1>5, <1>6, <1>8, MixedValid
<1>10. Valid(mixed(obj[rhs], x, d))
  BY <1>1, <1>3, <1>4, <1>5, <1>6, <1>8, MixedValid
<1>11. PICK a, b : a = mixed(obj[o], y, e) /\ b = mixed(obj[rhs], x, d)
  OBVIOUS
<1>12. PICK bad \in SUBSET Objects : bad = {}
  OBVIOUS
<1>13. Valid(a) /\ Valid(b) /\ LeavesBoth(o, a, rhs, b, bad)
  BY <1>2, <1>9, <1>10, <1>11, <1>12
<1> QED  BY <1>13, LeavesBothStep

\* A stack whose first n elements are those of another.
LEMMA PrefixValid ==
  ASSUME Sized, kind # "queue", NEW x, NEW s, Holds(x, s), NEW y, NEW u, Holds(y, u),
         NEW n \in Nat, n <= Len(s), n <= Len(u), NEW a,
         a = [i \in DOMAIN x.slots |-> IF i < n THEN y.slots[i] ELSE x.slots[i]]
  PROVE  Valid(Fields(a, x.head, x.tail))
<1>1. /\ x.head = 0 /\ x.tail = Len(s) /\ s \in Seq(Elements) /\ Len(s) \in Nat /\ Len(s) <= cap
      /\ DOMAIN x.slots = 0..(BufCap - 1)
      /\ \A i \in 0..(BufCap - 1) : x.slots[i] = IF i < Len(s) THEN s[i + 1] ELSE Dead
  BY StackFields
<1>2. /\ u \in Seq(Elements) /\ Len(u) \in Nat
      /\ \A i \in 0..(BufCap - 1) : y.slots[i] = IF i < Len(u) THEN u[i + 1] ELSE Dead
  BY StackFields
<1> DEFINE w == [j \in 1..Len(s) |-> IF j <= n THEN u[j] ELSE s[j]]
<1>3. ASSUME NEW j \in 1..Len(s)  PROVE (IF j <= n THEN u[j] ELSE s[j]) \in Elements
  <2>1. j <= n => u[j] \in Elements
    BY <1>2
  <2>2. s[j] \in Elements
    BY <1>1
  <2> QED  BY <2>1, <2>2
<1>4. w \in Seq(Elements) /\ Len(w) = Len(s)
  BY <1>1, <1>3
<1>5. \A j \in 1..Len(s) : w[j] = IF j <= n THEN u[j] ELSE s[j]
  OBVIOUS
<1> HIDE DEF w
<1>6. ASSUME NEW i \in 0..(BufCap - 1)
      PROVE  (IF i < n THEN y.slots[i] ELSE x.slots[i]) = IF i < Len(w) THEN w[i + 1] ELSE Dead
  <2>1. CASE i < n
    <3>1. y.slots[i] = u[i + 1] /\ i < Len(s)
      BY <1>1, <1>2, <2>1
    <3>2. i + 1 \in 1..Len(s) /\ i + 1 <= n
      BY <1>1, <2>1
    <3>3. w[i + 1] = u[i + 1]
      BY <1>5, <3>2
    <3> QED  BY <1>4, <2>1, <3>1, <3>3
  <2>2. CASE ~(i < n)
    <3>1. i < Len(s) => w[i + 1] = s[i + 1]
      <4> SUFFICES ASSUME i < Len(s)  PROVE w[i + 1] = s[i + 1]
        OBVIOUS
      <4>1. i + 1 \in 1..Len(s) /\ ~(i + 1 <= n)
        BY <1>1, <2>2
      <4> QED  BY <1>5, <4>1
    <3> QED  BY <1>1, <1>4, <2>2, <3>1
  <2> QED  BY <2>1, <2>2
<1>7. a = [i \in 0..(BufCap - 1) |-> IF i < Len(w) THEN w[i + 1] ELSE Dead]
  BY <1>1, <1>6
<1>8. Len(w) <= cap
  BY <1>1, <1>4
<1>9. Holds(Fields(a, 0, Len(w)), w)
  BY <1>4, <1>7, <1>8, StackItem
<1> QED  BY <1>1, <1>4, <1>9 DEF Valid

LEMMA StackTailThrowsStep ==
  ASSUME IInv, NEW short \in Objects, NEW long \in Objects, NEW k \in Nat, StackTailThrows(short, long, k)
  PROVE  IInv'
<1> DEFINE n == Size(obj[short])
           x == obj[short].slots
           y == obj[long].slots
           more == [i \in DOMAIN x |-> IF i < n + k THEN y[i] ELSE x[i]]
           less == [i \in DOMAIN y |-> IF i < n THEN x[i] ELSE IF i < n + k THEN Dead ELSE y[i]]
<1>1. PICK bad \in SUBSET Objects : bad = IF k > 0 THEN {short, long} ELSE {}
  OBVIOUS
<1>2. /\ kind # "queue" /\ short \in Usable /\ long \in Usable /\ n + k < Size(obj[long])
      /\ LeavesBoth(short, Fields(more, obj[short].head, obj[short].tail),
                    long, Fields(less, obj[long].head, obj[long].tail), bad)
  BY <1>1 DEF StackTailThrows
<1>3. PICK a, b : /\ a = Fields(more, obj[short].head, obj[short].tail)
                  /\ b = Fields(less, obj[long].head, obj[long].tail)
  OBVIOUS
<1>4. LeavesBoth(short, a, long, b, bad)
  BY <1>2, <1>3
<1>5. CASE k > 0
  <2>1. short \in bad /\ long \in bad
    BY <1>1, <1>5
  <2> QED  BY <1>4, <2>1, LeavesBothStep
<1>6. CASE k = 0
  <2>1. Sized
    BY DEF IInv, TypeOK
  <2>2. PICK s : s = model[short] /\ Holds(obj[short], s)
    BY <1>2, UsableFact
  <2>3. PICK u : u = model[long] /\ Holds(obj[long], u)
    BY <1>2, UsableFact
  <2>4. n = Len(s) /\ Len(s) \in Nat /\ Size(obj[long]) = Len(u) /\ Len(u) \in Nat
    BY <2>1, <2>2, <2>3, HoldsFact
  <2>5. PICK m \in Nat : m = n /\ m <= Len(s) /\ m <= Len(u) /\ n + k = m
    BY <1>2, <1>6, <2>4
  <2>6. more = [i \in DOMAIN x |-> IF i < m THEN y[i] ELSE x[i]]
    BY <2>5
  <2>7. less = [i \in DOMAIN y |-> IF i < m THEN x[i] ELSE y[i]]
    BY <2>5
  <2>8. Valid(a)
    BY <1>2, <1>3, <2>1, <2>2, <2>3, <2>5, <2>6, PrefixValid
  <2>9. Valid(b)
    BY <1>2, <1>3, <2>1, <2>2, <2>3, <2>5, <2>7, PrefixValid
  <2> QED  BY <1>4, <2>8, <2>9, LeavesBothStep
<1> QED  BY <1>5, <1>6

LEMMA ExceptionStep ==
  ASSUME IInv, NEW o \in Objects, Exception(o)
  PROVE  IInv'
<1>0. Sized /\ broken \subseteq Objects
  BY DEF IInv, TypeOK
<1>1. CASE ListTooLong(o)
  <2>1. obj' = obj /\ model' = model /\ UNCHANGED type /\ broken' = broken \cup {o}
    BY <1>1 DEF ListTooLong
  <2>2. ASSUME NEW q \in Usable'  PROVE Holds(obj'[q], model'[q])
    <3>1. q \in Usable
      BY <2>1 DEF Usable, Alive
    <3> QED  BY <2>1, <3>1, UsableFact
  <2>3. Sized' /\ HoldInv'
    BY <1>0, <2>1, <2>2, Carry
  <2> QED  BY <1>0, <2>1, <2>3 DEF IInv, TypeOK
<1>2. CASE StackPushThrows(o)
  <2>1. PICK x, bad : x = [obj[o] EXCEPT !.tail = @ + 1] /\ bad = {o} /\ bad \in SUBSET Objects
    OBVIOUS
  <2>2. Leaves(o, x, bad) /\ o \in bad
    BY <1>2, <2>1 DEF StackPushThrows
  <2> QED  BY <2>1, <2>2, LeavesStep
<1>3. CASE StackPopThrows(o)
  <2>1. PICK x, bad : x = [obj[o] EXCEPT !.tail = @ - 1] /\ bad = {o} /\ bad \in SUBSET Objects
    OBVIOUS
  <2>2. Leaves(o, x, bad) /\ o \in bad
    BY <1>3, <2>1 DEF StackPopThrows
  <2> QED  BY <2>1, <2>2, LeavesStep
<1>4. CASE QueueThrows(o)
  <2>0. {} \in SUBSET Objects
    OBVIOUS
  <2>1. PICK x, bad : x = obj[o] /\ bad = {} /\ bad \in SUBSET Objects
    BY <2>0, Zenon
  <2>2. Leaves(o, x, bad) /\ o \in Usable
    BY <1>4, <2>1 DEF QueueThrows, MayThrow
  <2>3. Valid(x)
    BY <2>1, <2>2, UsableValid
  <2> QED  BY <2>1, <2>2, <2>3, LeavesStep
<1>5. ASSUME NEW rhs \in Objects, NEW k \in Counts,
             \/ \E moving \in BOOLEAN : ConstructThrows(o, rhs, moving, k) \/ AssignThrows(o, rhs, moving, k)
             \/ QueueSwapThrows(o, rhs, k)
             \/ StackPairThrows(o, rhs, k)
             \/ StackTailThrows(o, rhs, k)
      PROVE  IInv'
  <2>1. k \in Nat
    BY <1>0, Geometry DEF Counts
  <2> QED  BY <1>5, <2>1, ConstructThrowsStep, AssignThrowsStep, QueueSwapThrowsStep, StackPairThrowsStep,
              StackTailThrowsStep
<1> QED  BY <1>1, <1>2, <1>3, <1>4, <1>5 DEF Exception

LEMMA NextFact == IInv /\ [Next]_vars => IInv'
<1> SUFFICES ASSUME IInv, [Next]_vars  PROVE IInv'
  OBVIOUS
<1>1. ASSUME NEW o \in Objects, Lifecycle(o)  PROVE IInv'
  BY <1>1, LifecycleStep
<1>2. ASSUME NEW o \in Objects, Use(o)  PROVE IInv'
  BY <1>2, UseStep
<1>3. ASSUME NEW o \in Objects, Exception(o)  PROVE IInv'
  BY <1>3, ExceptionStep
<1>4. CASE UNCHANGED vars
  <2>1. obj' = obj /\ model' = model /\ UNCHANGED type /\ broken' = broken
    BY <1>4 DEF vars
  <2>2. Sized /\ broken \subseteq Objects
    BY DEF IInv, TypeOK
  <2>3. ASSUME NEW q \in Usable'  PROVE Holds(obj'[q], model'[q])
    <3>1. q \in Usable
      BY <2>1 DEF Usable, Alive
    <3> QED  BY <2>1, <3>1, UsableFact
  <2>4. Sized' /\ HoldInv'
    BY <2>1, <2>2, <2>3, Carry
  <2> QED  BY <2>1, <2>4 DEF IInv, TypeOK
<1> QED  BY <1>1, <1>2, <1>3, <1>4 DEF Next

-----------------------------------------------------------------------------
(* The theorems.                                                           *)

\* Every container that no exception broke holds, from head_ on and wrapping at
\* buf_cap, exactly the elements that a std::queue or std::stack would, in
\* order, and no element lives in any other slot: for every Capacity, and
\* through every constructor, assignment, swap, push, pop and throw.
THEOREM IInvCorrect == Spec => []IInv
<1>1. Init => IInv
  BY InitFact
<1>2. IInv /\ [Next]_vars => IInv'
  BY NextFact
<1> QED  BY <1>1, <1>2, PTL DEF Spec

\* size(), empty(), the elements in order and operator== agree with std::queue
\* and std::stack in every reachable state.
THEOREM ActsAsContainerCorrect == Spec => []ActsAsContainer
<1>1. IInv => ActsAsContainer
  <2> SUFFICES ASSUME IInv  PROVE ActsAsContainer
    OBVIOUS
  <2>1. ASSUME NEW x \in Usable
        PROVE  /\ Size(obj[x]) = Len(model[x])
               /\ obj[x].head = obj[x].tail <=> model[x] = <<>>
               /\ Contents(obj[x]) = model[x]
    BY UsableFact, HoldsFact
  <2>2. ASSUME NEW x \in Usable, NEW y \in Usable
        PROVE  Equal(obj[x], obj[y]) <=> model[x] = model[y]
    <3>1. Sized /\ Holds(obj[x], model[x]) /\ Holds(obj[y], model[y])
      BY UsableFact
    <3> QED  BY <3>1, EqualFact
  <2> QED  BY <2>1, <2>2 DEF ActsAsContainer
<1> QED  BY <1>1, IInvCorrect, PTL

\* No element is constructed over a live one or destroyed twice, and the
\* elements alive in the storage are exactly the ones size() counts.
THEOREM LifetimesExactCorrect == Spec => []LifetimesExact
<1>1. IInv => LifetimesExact
  <2> SUFFICES ASSUME IInv, NEW o \in Usable, NEW i \in DOMAIN obj[o].slots
               PROVE  IF \E j \in 1..Size(obj[o]) : i = Slot(obj[o], j) THEN obj[o].slots[i] \in Elements
                                                                         ELSE obj[o].slots[i] = Dead
    BY DEF LifetimesExact
  <2>1. Sized /\ Holds(obj[o], model[o])
    BY UsableFact
  <2>2. PICK s : s = model[o]
    OBVIOUS
  <2>3. PICK r : r = obj[o]
    OBVIOUS
  <2>4. PICK h \in Nat : Fits(h, s) /\ r = Item(h, s)
    BY <2>1, <2>2, <2>3 DEF Holds
  <2>5. /\ h \in 0..(BufCap - 1) /\ s \in Seq(Elements) /\ Len(s) \in Nat /\ Len(s) <= BufCap
        /\ BufCap \in Nat /\ Size(r) = Len(s)
    BY <2>1, <2>4, FitsFact, Geometry, SizeFact
  <2>6. r.slots = Ring(h, s) /\ i \in 0..(BufCap - 1)
    <3>1. r.slots = Ring(h, s)
      BY <2>4, ItemFields
    <3> QED  BY <2>3, <3>1 DEF Ring
  <2>7. PICK d \in Nat : d = Dist(h, i)
    BY <2>1, <2>5, <2>6, DistNat
  <2>8. ASSUME NEW j \in 1..Len(s)  PROVE i = Slot(r, j) <=> j = d + 1
    <3>1. j \in 1..BufCap /\ j - 1 \in 0..(BufCap - 1)
      BY <2>5
    <3>2. Slot(r, j) = At(h, j - 1)
      BY <2>1, <2>4, <3>1, SlotFact
    <3>3. Dist(h, i) = j - 1 <=> i = At(h, j - 1)
      BY <2>1, <2>5, <2>6, <3>1, DistUnique
    <3>4. d = j - 1 <=> j = d + 1
      OBVIOUS
    <3> QED  BY <2>7, <3>2, <3>3, <3>4
  <2>9. d < Len(s) <=> d + 1 \in 1..Len(s)
    BY <2>5, <2>7
  <2>10. (\E j \in 1..Len(s) : i = Slot(r, j)) <=> d < Len(s)
    BY <2>8, <2>9
  <2>11. r.slots[i] = IF d < Len(s) THEN s[d + 1] ELSE Dead
    BY <2>6, <2>7 DEF Ring
  <2>12. d < Len(s) => s[d + 1] \in Elements
    BY <2>5, <2>9
  <2> QED  BY <2>3, <2>5, <2>10, <2>11, <2>12
<1> QED  BY <1>1, IInvCorrect, PTL
=============================================================================
