-------------------------------- MODULE Vector --------------------------------
(***************************************************************************)
(* hpc::core::vector: a growing array that places and destroys its         *)
(* elements by hand.  The loops that shift and relocate elements are kept  *)
(* as loops, so that they can be left half done by an element that throws. *)
(*                                                                         *)
(* A buffer is the function `slots' of the vector that owns it (data_ is   *)
(* null when it has no slot); giving memory back is not modelled here, see *)
(* DynamicQueue.  `model' is the reference: what a std::vector would hold. *)
(***************************************************************************)
EXTENDS Integers, Sequences, FiniteSets

CONSTANTS
  Objects,   \* the vectors
  None,      \* no vector
  Dead,      \* a slot in which no element lives
  Bad,       \* a slot constructed over a live element, or destroyed twice
  K,         \* elements are 0..(K-1), and 0 is T()
  MaxLen     \* bound: elements in one vector

Values == 0..(K - 1)

ASSUME ValueAssumption == K \in Nat \ {0} /\ Dead \notin Values
ASSUME BoundsAssumption == MaxLen \in Nat

VARIABLES
  trivial,   \* is_trivial, fixed by the element type
  obj,       \* slots and size_ of each vector, None before construction
  model,     \* history: what a std::vector would hold
  broken     \* history: vectors with dead, lost or wrong elements after a
             \* throw or after the use of an own element; not used any more

vars == <<trivial, obj, model, broken>>

Init == /\ trivial \in BOOLEAN
        /\ obj = [o \in Objects |-> None]
        /\ model = [o \in Objects |-> <<>>]
        /\ broken = {}

Alive == {o \in Objects : obj[o] # None}
Usable == Alive \ broken

-----------------------------------------------------------------------------
(* The private helpers, on a buffer s and on a vector r.                   *)

Cap(r) == Cardinality(DOMAIN r.slots)

\* alloc.
Alloc(n) == [i \in 0..(n - 1) |-> Dead]

NoBuffer == [slots |-> Alloc(0), size |-> 0]

\* Placement new.
Place(s, i, v) == [s EXCEPT ![i] = IF trivial \/ @ = Dead THEN v ELSE Bad]

\* ~T().  No code runs for a trivial type, but its element is dead as well.
Destroy(s, i) == [s EXCEPT ![i] = IF @ \in Values THEN Dead ELSE Bad]

\* One turn of a shifting loop.
MoveSlot(s, from, to) == Destroy(Place(s, to, s[from]), from)

\* destroy_n of the slots first..(last-1), one turn each.
DestroyRange(s, first, last) ==
  LET after[k \in 0..(last - first)] == IF k = 0 THEN s ELSE Destroy(after[k - 1], first + k - 1)
  IN after[last - first]

\* Copies of v constructed in the slots first..(last-1).
FillRange(s, first, last, v) ==
  LET after[k \in 0..(last - first)] == IF k = 0 THEN s ELSE Place(after[k - 1], first + k - 1, v)
  IN after[last - first]

\* n turns of shift_right's loop, from last down and by one slot.
ShiftRightSteps(s, last, n) ==
  LET after[k \in 0..n] == IF k = 0 THEN s ELSE MoveSlot(after[k - 1], last - k, last - k + 1)
  IN after[n]

\* Slip: memcpy, from the front, instead of memmove.
BugShiftRight(s, first, last) ==
  LET after[k \in 0..(last - first)] ==
        IF k = 0 THEN s ELSE [after[k - 1] EXCEPT ![first + k] = after[k - 1][first + k - 1]]
  IN after[last - first]

\* shift_right by one slot.  memmove leaves the bytes in the first slot.
ShiftRight(s, first, last) ==
  IF trivial THEN [i \in DOMAIN s |-> IF i \in (first + 1)..last THEN s[i - 1] ELSE s[i]]
             ELSE ShiftRightSteps(s, last, last - first)

\* n turns of shift_left's loop, from first up and by d slots.
ShiftLeftSteps(s, first, d, n) ==
  LET after[k \in 0..n] == IF k = 0 THEN s ELSE MoveSlot(after[k - 1], first + k - 1, first + k - 1 - d)
  IN after[n]

\* shift_left; for a trivial type memmove has the same outcome.
ShiftLeft(s, first, last, d) == ShiftLeftSteps(s, first, d, last - first)

\* reallocate: relocate into a fresh buffer, free the old one.
Reallocate(r, n) ==
  [r EXCEPT !.slots = [i \in 0..(n - 1) |-> IF i < r.size THEN r.slots[i] ELSE Dead]]

GrowTo(r, n) == IF n <= Cap(r) THEN r ELSE Reallocate(r, n)

\* No reallocation in ensure_space.
HasSpace(r, extra) == r.size + extra <= Cap(r)

\* The capacity after doubling until there is room, which takes fewer turns
\* than there are elements.
Doubled(r, extra) ==
  LET need == r.size + extra
      after[k \in 0..need] ==
        IF k = 0 THEN (IF Cap(r) = 0 THEN 4 ELSE Cap(r) * 2)
        ELSE IF after[k - 1] < need THEN after[k - 1] * 2 ELSE after[k - 1]
  IN after[need]

EnsureSpace(r, extra) == IF HasSpace(r, extra) THEN r ELSE GrowTo(r, Doubled(r, extra))

\* clear.
Clear(r) == [slots |-> DestroyRange(r.slots, 0, r.size), size |-> 0]

PushBack(r, v) ==
  LET g == EnsureSpace(r, 1)
  IN [slots |-> Place(g.slots, g.size, v), size |-> g.size + 1]

\* Construction and assignment from a pair of iterators: one push_back each.
PushAll(r, s) ==
  LET after[k \in 0..Len(s)] == IF k = 0 THEN r ELSE PushBack(after[k - 1], s[k])
  IN after[Len(s)]

\* Construction and assignment from a list, once there is room.
PlaceAll(r, s) ==
  LET after[k \in 0..Len(s)] == IF k = 0 THEN r.slots ELSE Place(after[k - 1], k - 1, s[k])
  IN [slots |-> after[Len(s)], size |-> Len(s)]

Contents(r) == [i \in 1..r.size |-> r.slots[i - 1]]

\* operator==; bytes and values are the same thing in this model.
Equal(r1, r2) == /\ r1.size = r2.size
                 /\ \A i \in 0..(r1.size - 1) : r1.slots[i] = r2.slots[i]

-----------------------------------------------------------------------------
(* Construction, assignment, swap.                                         *)

\* o is now r, and a std::vector in its place would hold s.
Becomes(o, r, s) == /\ obj' = [obj EXCEPT ![o] = r]
                    /\ model' = [model EXCEPT ![o] = s]
                    /\ UNCHANGED <<trivial, broken>>

Copies(n, v) == [i \in 1..n |-> v]

\* vector(), vector(count), vector(count, value).
ConstructCount(o, n, v) ==
  /\ o \notin Alive
  /\ Becomes(o, [slots |-> FillRange(GrowTo(NoBuffer, n).slots, 0, n, v), size |-> n], Copies(n, v))

\* vector(first, last).
ConstructRange(o, s) == o \notin Alive /\ Becomes(o, PushAll(NoBuffer, s), s)

\* vector(initializer_list).
ConstructList(o, s) == o \notin Alive /\ Becomes(o, PlaceAll(GrowTo(NoBuffer, Len(s)), s), s)

\* What vector(const vector&) makes of rhs.
CopyOf(rhs) == PlaceAll(GrowTo(NoBuffer, obj[rhs].size), Contents(obj[rhs]))

ConstructCopy(o, rhs) == /\ o \notin Alive /\ rhs \in Usable
                         /\ Becomes(o, CopyOf(rhs), model[rhs])

\* vector(vector&&) and operator=(vector&&); the elements o had are dead.
TakeOver(o, rhs) == /\ obj' = [obj EXCEPT ![o] = obj[rhs], ![rhs] = NoBuffer]
                    /\ model' = [model EXCEPT ![o] = model[rhs], ![rhs] = <<>>]
                    /\ UNCHANGED <<trivial, broken>>

ConstructMove(o, rhs) == o \notin Alive /\ rhs \in Usable /\ TakeOver(o, rhs)

AssignMove(o, rhs) == {o, rhs} \subseteq Usable /\ o # rhs /\ TakeOver(o, rhs)

\* operator=(const vector&): the temporary dies with the old elements.
AssignCopy(o, rhs) == /\ {o, rhs} \subseteq Usable /\ o # rhs
                      /\ Becomes(o, CopyOf(rhs), model[rhs])

\* operator=(initializer_list).
AssignListByCopy(o, s) == o \in Usable /\ Becomes(o, PlaceAll(GrowTo(NoBuffer, Len(s)), s), s)

Swap(o, rhs) == /\ {o, rhs} \subseteq Usable /\ o # rhs
                /\ obj' = [obj EXCEPT ![o] = obj[rhs], ![rhs] = obj[o]]
                /\ model' = [model EXCEPT ![o] = model[rhs], ![rhs] = model[o]]
                /\ UNCHANGED <<trivial, broken>>

Destruct(o) == o \in Usable /\ Becomes(o, None, <<>>)

-----------------------------------------------------------------------------
(* The other members.                                                      *)

Reserve(o, n) == o \in Usable /\ Becomes(o, GrowTo(obj[o], n), model[o])

ShrinkToFit(o) == o \in Usable /\ Becomes(o, Reallocate(obj[o], obj[o].size), model[o])

ClearAll(o) == o \in Usable /\ Becomes(o, Clear(obj[o]), <<>>)

\* assign(count, value).
AssignCount(o, n, v) ==
  /\ o \in Usable
  /\ LET r == GrowTo(Clear(obj[o]), n)
     IN Becomes(o, [slots |-> FillRange(r.slots, 0, n, v), size |-> n], Copies(n, v))

\* assign(first, last).
AssignRange(o, s) == o \in Usable /\ Becomes(o, PushAll(Clear(obj[o]), s), s)

\* assign(initializer_list).
AssignList(o, s) == /\ o \in Usable
                    /\ Becomes(o, PlaceAll(GrowTo(Clear(obj[o]), Len(s)), s), s)

\* push_back and emplace_back of an element from outside.
Push(o, v) == /\ o \in Usable /\ Len(model[o]) < MaxLen
              /\ Becomes(o, PushBack(obj[o], v), Append(model[o], v))

PopBack(o) == /\ o \in Usable /\ model[o] # <<>>
              /\ LET last == obj[o].size - 1
                 IN Becomes(o, [slots |-> Destroy(obj[o].slots, last), size |-> last],
                            SubSeq(model[o], 1, Len(model[o]) - 1))

\* The buffer of insert and emplace just before the new element is made.
Opened(r, off) == LET g == EnsureSpace(r, 1) IN ShiftRight(g.slots, off, g.size)

\* What a std::vector holds after the insertion.
Inserted(s, off, v) == SubSeq(s, 1, off) \o <<v>> \o SubSeq(s, off + 1, Len(s))

\* insert and emplace of an element from outside.
Insert(o, off, v) ==
  /\ o \in Usable /\ Len(model[o]) < MaxLen /\ off <= Len(model[o])
  /\ LET hole == Opened(obj[o], off)
     IN Becomes(o, [slots |-> Place(hole, off, v), size |-> obj[o].size + 1],
                Inserted(model[o], off, v))

\* What is left of r without the elements first..(last-1).
Without(r, first, last) ==
  [slots |-> ShiftLeft(DestroyRange(r.slots, first, last), last, r.size, last - first),
   size |-> r.size - (last - first)]

\* Slip: no early return for an empty range.
BugErased(r, first, last) == Without(r, first, last)

\* An empty range is left alone: shifting by nothing would construct every
\* element over itself.
Erased(r, first, last) == IF first = last THEN r ELSE Without(r, first, last)

\* erase(pos) and erase(first, last).
Erase(o, first, last) ==
  /\ o \in Usable /\ first <= last /\ last <= Len(model[o])
  /\ Becomes(o, Erased(obj[o], first, last),
             SubSeq(model[o], 1, first) \o SubSeq(model[o], last + 1, Len(model[o])))

\* resize(count) and resize(count, value).
Resize(o, n, v) ==
  /\ o \in Usable
  /\ LET r == obj[o]
         g == EnsureSpace(r, n - r.size)
     IN IF n < r.size
          THEN Becomes(o, [slots |-> DestroyRange(r.slots, n, r.size), size |-> n], SubSeq(model[o], 1, n))
          ELSE Becomes(o, [slots |-> FillRange(g.slots, r.size, n, v), size |-> n],
                       model[o] \o Copies(n - r.size, v))

-----------------------------------------------------------------------------
(* Arguments that refer to an element of the vector itself.  After a       *)
(* reallocation the reference dangles, and reading it yields anything.     *)

Breaks(o, r, s, bad) == /\ obj' = [obj EXCEPT ![o] = r]
                        /\ model' = [model EXCEPT ![o] = s]
                        /\ broken' = IF bad THEN broken \cup {o} ELSE broken
                        /\ UNCHANGED trivial

\* push_back(v[j]): read after ensure_space.
PushOwn(o, j) ==
  /\ o \in Usable /\ Len(model[o]) < MaxLen /\ j < Len(model[o])
  /\ LET stays == HasSpace(obj[o], 1)
     IN \E v \in IF stays THEN {obj[o].slots[j]} ELSE Values :
          Breaks(o, PushBack(obj[o], v), Append(model[o], model[o][j + 1]), ~stays)

\* insert(begin() + off, v[j]): read after shift_right, which has moved the
\* elements from off on to their right neighbours' slots.
InsertOwn(o, off, j) ==
  /\ o \in Usable /\ Len(model[o]) < MaxLen /\ off <= Len(model[o]) /\ j < Len(model[o])
  /\ LET stays == HasSpace(obj[o], 1)
         hole == Opened(obj[o], off)
         right == stays /\ (j < off \/ (trivial /\ j = off))
     IN \E v \in IF stays /\ hole[j] # Dead THEN {hole[j]} ELSE Values :
          Breaks(o, [slots |-> Place(hole, off, v), size |-> obj[o].size + 1],
                 Inserted(model[o], off, model[o][j + 1]), ~right)

\* resize(count, v[j]) that adds elements: read after ensure_space.
ResizeOwn(o, n, j) ==
  /\ o \in Usable /\ n > Len(model[o]) /\ j < Len(model[o])
  /\ LET r == obj[o]
         more == n - r.size
         g == EnsureSpace(r, more)
         stays == HasSpace(r, more)
     IN \E v \in IF stays THEN {r.slots[j]} ELSE Values :
          Breaks(o, [slots |-> FillRange(g.slots, r.size, n, v), size |-> n],
                 model[o] \o Copies(more, model[o][j + 1]), ~stays)

-----------------------------------------------------------------------------
(* Elements that throw.  The exception leaves the vector as it is then,    *)
(* while a std::vector would be unchanged or at least intact.              *)

MayThrow(o) == ~trivial /\ o \in Usable

\* push_back, emplace_back: size_ is incremented before the construction.
PushThrows(o) == /\ MayThrow(o) /\ Len(model[o]) < MaxLen
                 /\ Breaks(o, [EnsureSpace(obj[o], 1) EXCEPT !.size = @ + 1], model[o], TRUE)

\* insert, emplace: k elements were shifted, or all of them and the new one
\* threw.
InsertThrows(o, off, k) ==
  /\ MayThrow(o) /\ Len(model[o]) < MaxLen /\ off <= Len(model[o]) /\ k <= Len(model[o]) - off
  /\ LET g == EnsureSpace(obj[o], 1)
     IN Breaks(o, [g EXCEPT !.slots = ShiftRightSteps(g.slots, g.size, k)], model[o], k > 0)

\* erase: the erased elements are dead, k others have moved.
EraseThrows(o, first, last, k) ==
  /\ MayThrow(o) /\ first < last /\ last <= Len(model[o]) /\ k < Len(model[o]) - last
  /\ LET r == obj[o]
     IN Breaks(o, [r EXCEPT !.slots = ShiftLeftSteps(DestroyRange(r.slots, first, last), last, last - first, k)],
               model[o], TRUE)

\* resize: k elements were added, size_ does not count them.
ResizeThrows(o, n, k) ==
  /\ MayThrow(o) /\ Len(model[o]) + k < n
  /\ LET g == EnsureSpace(obj[o], n - obj[o].size)
     IN Breaks(o, [g EXCEPT !.slots = FillRange(g.slots, g.size, g.size + k, 0)], model[o], k > 0)

\* assign(count, value): the old elements are dead, k new ones not counted.
AssignThrows(o, n, k) ==
  /\ MayThrow(o) /\ k < n
  /\ LET g == GrowTo(Clear(obj[o]), n)
     IN Breaks(o, [g EXCEPT !.slots = FillRange(g.slots, 0, k, 0)], <<>>, k > 0)

\* reallocate: k elements have left the old buffer, the new one is lost.
RelocateThrows(o, k) ==
  /\ MayThrow(o) /\ k < Len(model[o])
  /\ Breaks(o, [obj[o] EXCEPT !.slots = DestroyRange(@, 0, k)], model[o], k > 0)

-----------------------------------------------------------------------------
Lengths == 0..MaxLen
Lists == {[i \in 1..n |-> (i + 1) % K] : n \in 0..(MaxLen - 1)}

Construction(o) ==
  \/ \E n \in Lengths, v \in Values : ConstructCount(o, n, v)
  \/ \E s \in Lists : ConstructRange(o, s) \/ ConstructList(o, s)
  \/ \E rhs \in Objects : ConstructCopy(o, rhs) \/ ConstructMove(o, rhs)
  \/ Destruct(o)

Assignment(o) ==
  \/ \E rhs \in Objects : AssignCopy(o, rhs) \/ AssignMove(o, rhs) \/ Swap(o, rhs)
  \/ \E s \in Lists : AssignListByCopy(o, s) \/ AssignRange(o, s) \/ AssignList(o, s)
  \/ \E n \in Lengths, v \in Values : AssignCount(o, n, v)

Use(o) ==
  \/ \E n \in Lengths : Reserve(o, n)
  \/ ShrinkToFit(o)
  \/ ClearAll(o)
  \/ PopBack(o)
  \/ \E v \in Values : \/ Push(o, v)
                       \/ \E n \in Lengths : Insert(o, n, v) \/ Resize(o, n, v)
  \/ \E m, n \in Lengths : Erase(o, m, n) \/ InsertOwn(o, m, n) \/ ResizeOwn(o, m, n)
  \/ \E j \in Lengths : PushOwn(o, j)

Throw(o) ==
  \/ PushThrows(o)
  \/ \E k \in Lengths :
       \/ RelocateThrows(o, k)
       \/ \E n \in Lengths : \/ InsertThrows(o, n, k)
                             \/ ResizeThrows(o, n, k)
                             \/ AssignThrows(o, n, k)
                             \/ \E m \in Lengths : EraseThrows(o, m, n, k)

Next == \E o \in Objects : Construction(o) \/ Assignment(o) \/ Use(o) \/ Throw(o)

Spec == Init /\ [][Next]_vars

-----------------------------------------------------------------------------
(* Correctness.                                                            *)

\* Whatever the history of growth, insertions, erasures, resizes, copies,
\* moves and harmless exceptions, a vector that is not broken holds what a
\* std::vector would, in order, and operator== compares contents, however the
\* two came about.
ActsAsVector ==
  \A o \in Usable : /\ Contents(obj[o]) = model[o]
                     /\ \A x \in Usable : Equal(obj[o], obj[x]) <=> model[o] = model[x]

\* "Placement new for precise object lifetime control": no loop constructs
\* over a live element or destroys one twice, and the slots below size_ are
\* the ones in which elements live.
LifetimesExact ==
  \A o \in Usable : \A i \in DOMAIN obj[o].slots :
    obj[o].slots[i] \in Values \cup {Dead} /\ (obj[o].slots[i] # Dead <=> i < obj[o].size)
=============================================================================
