----------------------------- MODULE DynamicQueue -----------------------------
(***************************************************************************)
(* hpc::core::queue (dynamic_queue.hpp): a FIFO over a circular buffer of  *)
(* power-of-two size that is reallocated when it is full.  Several queue   *)
(* objects share one heap, so that copies, moves and swaps can lose, share *)
(* or free a buffer twice.  The code is sequential: every member function  *)
(* is one action, with the allocation it may do first.                     *)
(*                                                                         *)
(* `model' is the reference: the contents a std::queue would have.         *)
(***************************************************************************)
EXTENDS PowerOfTwo, Sequences, FiniteSets

CONSTANTS
  Objects,      \* the queue objects
  None,         \* no object, no buffer, no allocation
  Raw,          \* storage in which no element lives
  K,            \* elements are 0..(K-1)
  MaxLen,       \* bound: elements in one queue
  MaxBuffers,   \* bound: buffers that exist at once
  MaxLeaks      \* bound: buffers that are leaked

Values == 0..(K - 1)
Cells == Values \cup {Raw}
Buffers == 1..MaxBuffers

\* The data members.
Fields == [buf : Buffers \cup {None}, cap : Nat, mask : Nat, head : Nat, tail : Nat]

ASSUME ValueAssumption == K \in Nat \ {0} /\ Raw \notin Values
ASSUME BoundsAssumption == {MaxLen, MaxBuffers, MaxLeaks} \subseteq Nat
ASSUME NoneAssumption == /\ None \notin Buffers \cup Fields
                         /\ \A n \in 0..MaxSize : None \notin [0..(n - 1) -> Cells]

\* Every buffer that queues within the bounds come to need has a size.
ASSUME GrowthAssumption == /\ 8 <= MaxSize /\ 2 * MaxLen <= MaxSize
                           /\ \A n \in 1..(MaxLen + 1) : \E p \in 1..MaxSize : IsRoundUp(p, n)

VARIABLES
  trivial,   \* is_trivial, fixed by the element type
  obj,       \* the fields of each object, None before construction
  mem,       \* the storage of each buffer, None when it is not allocated
  model,     \* history: what a std::queue would hold
  broken,    \* history: queues left with dead or wrong elements by a throw in
             \* grow_to or by a push of their own element; not used any more
  leaked     \* history: buffers that a throw left without an owner

vars == <<trivial, obj, mem, model, broken, leaked>>
history == <<broken, leaked>>

\* The data members of a default-constructed queue.
NoBuffer == [buf |-> None, cap |-> 0, mask |-> 0, head |-> 0, tail |-> 0]

Init == /\ trivial \in BOOLEAN
        /\ obj = [o \in Objects |-> None]
        /\ mem = [b \in Buffers |-> None]
        /\ model = [o \in Objects |-> None]
        /\ broken = {}
        /\ leaked = {}

Alive == {o \in Objects : obj[o] # None}
Usable == Alive \ broken

-----------------------------------------------------------------------------
(* The private helpers, on a pair of the heap m and the fields r of one    *)
(* queue.                                                                  *)

State(o) == [m |-> mem, r |-> obj[o]]

\* i & mask, for a mask one below a power of two.
And(i, mask) == i % (mask + 1)

Size(r) == And(r.tail - r.head + r.cap, r.mask)
Capacity(r) == IF r.cap > 0 THEN r.cap - 1 ELSE 0
Advance(r, i) == And(i + 1, r.mask)

RoundUpPo2(v) == IF v = 0 THEN 1 ELSE CHOOSE p \in 1..MaxSize : IsRoundUp(p, v)

\* alloc_buf: any buffer that is not in use.
FreshBuffer(m) == CHOOSE b \in Buffers : m[b] = None
CanAllocate == \E b \in Buffers : mem[b] = None

\* free_buf.
FreeBuf(st) == IF st.r.buf = None THEN st.m ELSE [st.m EXCEPT ![st.r.buf] = None]

\* Slip: the first run of a wrapped queue ends at tail_.
BugRelocated(st, n) ==
  LET r == st.r
      old == st.m[r.buf]
      firstRun == r.cap - r.head
  IN [i \in 0..(n - 1) |->
        CASE r.buf = None \/ i >= Size(r) -> Raw
          [] r.head < r.tail -> old[r.head + i]
          [] i < firstRun -> old[r.head + i]
          [] OTHER -> old[i]]

\* The new buffer of grow_to: memcpy of one or two runs of a trivial type,
\* a loop of moves from head_ to tail_ otherwise.
Relocated(st, n) ==
  LET r == st.r
      old == st.m[r.buf]
      firstRun == r.cap - r.head
      moved(i) == old[And(r.head + i, r.mask)]
      copied(i) == IF r.head < r.tail \/ i < firstRun THEN old[r.head + i]
                                                      ELSE old[i - firstRun]
  IN [i \in 0..(n - 1) |->
        IF r.buf = None \/ i >= Size(r) THEN Raw
        ELSE IF trivial THEN copied(i) ELSE moved(i)]

\* grow_to: allocate, relocate, free the old buffer, reset the indices.
GrowTo(st, n) ==
  LET b == FreshBuffer(st.m)
  IN [m |-> [FreeBuf(st) EXCEPT ![b] = Relocated(st, n)],
      r |-> [buf |-> b, cap |-> n, mask |-> n - 1, head |-> 0, tail |-> Size(st.r)]]

\* No growth in ensure_space: the sentinel slot is still free after a push.
SpaceLeft(r) == Size(r) + 1 < r.cap

EnsureSpace(st) == IF SpaceLeft(st.r) THEN st
                   ELSE GrowTo(st, IF st.r.cap = 0 THEN 8 ELSE st.r.cap * 2)

\* reserve.
Reserve(st, n) == IF n > Capacity(st.r) THEN GrowTo(st, RoundUpPo2(n + 1)) ELSE st

\* construct(slot(tail_), v); tail_ = advance(tail_).
PushBack(st, v) == [m |-> [st.m EXCEPT ![st.r.buf][st.r.tail] = v],
                    r |-> [st.r EXCEPT !.tail = Advance(st.r, st.r.tail)]]

\* destroy(slot(head_)); head_ = advance(head_).  No code runs for a trivial
\* type, but its element is dead all the same.
PopFront(st) == [m |-> [st.m EXCEPT ![st.r.buf][st.r.head] = Raw],
                 r |-> [st.r EXCEPT !.head = Advance(st.r, st.r.head)]]

\* The slots from head_ to tail_.
Live(r) == {And(r.head + i, r.mask) : i \in 0..(Size(r) - 1)}

\* Slip: the elements are forgotten, not destroyed.
BugClear(st) == [m |-> st.m, r |-> [st.r EXCEPT !.head = 0, !.tail = 0]]

\* clear: every element from head_ to tail_ dies.
Clear(st) ==
  [m |-> IF st.r.buf = None THEN st.m
         ELSE [st.m EXCEPT ![st.r.buf] =
                 [i \in DOMAIN @ |-> IF i \in Live(st.r) THEN Raw ELSE @[i]]],
   r |-> [st.r EXCEPT !.head = 0, !.tail = 0]]

\* The destructor: the heap it leaves.
Destroyed(st) == FreeBuf(Clear(st))

\* A new queue in heap m that holds the elements of s, in order.
Filled(m, s) ==
  LET st == Reserve([m |-> m, r |-> NoBuffer], Len(s))
  IN IF s = <<>> THEN st
     ELSE [m |-> [st.m EXCEPT ![st.r.buf] =
                    [i \in DOMAIN @ |-> IF i < Len(s) THEN s[i + 1] ELSE Raw]],
           r |-> [st.r EXCEPT !.tail = And(Len(s), st.r.mask)]]

\* The elements in the order of a loop from head_ to tail_.
Contents(st) == [i \in 1..Size(st.r) |-> st.m[st.r.buf][And(st.r.head + i - 1, st.r.mask)]]

Front(st) == st.m[st.r.buf][st.r.head]
Back(st) == st.m[st.r.buf][And(st.r.tail - 1 + st.r.cap, st.r.mask)]

\* operator==.
Equal(s1, s2) == /\ Size(s1.r) = Size(s2.r)
                 /\ \A i \in 0..(Size(s1.r) - 1) :
                      s1.m[s1.r.buf][And(s1.r.head + i, s1.r.mask)]
                        = s2.m[s2.r.buf][And(s2.r.head + i, s2.r.mask)]

-----------------------------------------------------------------------------
(* Construction, copies and moves.                                         *)

\* Object o has the state st, and a std::queue in its place would hold s.
Becomes(o, st, s) == /\ mem' = st.m
                     /\ obj' = [obj EXCEPT ![o] = st.r]
                     /\ model' = [model EXCEPT ![o] = s]
                     /\ UNCHANGED <<trivial, history>>

\* queue(initial_capacity), and queue() for n = 0.
ConstructCapacity(o, n) == /\ o \notin Alive /\ CanAllocate
                           /\ Becomes(o, Reserve([m |-> mem, r |-> NoBuffer], n), <<>>)

\* queue(initializer_list).
ConstructList(o, s) == /\ o \notin Alive /\ CanAllocate
                       /\ Becomes(o, Filled(mem, s), s)

\* queue(const queue&).
ConstructCopy(o, rhs) == /\ o \notin Alive /\ rhs \in Usable /\ CanAllocate
                         /\ Becomes(o, Filled(mem, Contents(State(rhs))), model[rhs])

\* The heap becomes m, in which nobody knows buffer b any more.  What it
\* holds cannot matter again, and is forgotten.
Leak(m, b) == /\ Cardinality(leaked) < MaxLeaks
              /\ leaked' = leaked \cup {b}
              /\ mem' = [m EXCEPT ![b] = [i \in {0} |-> Raw]]

\* An element's copy throws in a constructor that copies the elements of s,
\* after the n elements before it: no destructor runs for the half-made queue.
FillThrows(s, n) ==
  /\ ~trivial /\ CanAllocate /\ n < Len(s)
  /\ LET all == Filled(mem, s)
     IN Leak([all.m EXCEPT ![all.r.buf] = [i \in DOMAIN @ |-> IF i < n THEN @[i] ELSE Raw]],
             all.r.buf)
  /\ UNCHANGED <<trivial, obj, model, broken>>

\* It throws in queue(initializer_list) or queue(const queue&), of a new object
\* or of an assignment's temporary.
ListThrows(o, s, n) == o \notin broken /\ FillThrows(s, n)
CopyThrows(rhs, n) == rhs \in Usable /\ FillThrows(Contents(State(rhs)), n)

\* queue(queue&&).
ConstructMove(o, rhs) == /\ o \notin Alive /\ rhs \in Usable
                         /\ obj' = [obj EXCEPT ![o] = obj[rhs], ![rhs] = NoBuffer]
                         /\ model' = [model EXCEPT ![o] = model[rhs], ![rhs] = <<>>]
                         /\ UNCHANGED <<trivial, mem, history>>

\* ~queue.
Destruct(o) == /\ o \in Usable
               /\ mem' = Destroyed(State(o))
               /\ obj' = [obj EXCEPT ![o] = None]
               /\ model' = [model EXCEPT ![o] = None]
               /\ UNCHANGED <<trivial, history>>

\* The assignments that copy: a temporary, a swap, and the temporary dies
\* with the old contents.
AssignFrom(o, s, ref) ==
  LET tmp == Filled(mem, s)
  IN Becomes(o, [m |-> Destroyed([m |-> tmp.m, r |-> obj[o]]), r |-> tmp.r], ref)

\* operator=(const queue&).
AssignCopy(o, rhs) == /\ {o, rhs} \subseteq Usable /\ o # rhs /\ CanAllocate
                      /\ AssignFrom(o, Contents(State(rhs)), model[rhs])

\* operator=(initializer_list).
AssignList(o, s) == /\ o \in Usable /\ CanAllocate
                    /\ AssignFrom(o, s, s)

\* Slip: the source keeps its buffer.
BugAssignMove(o, rhs) ==
  /\ {o, rhs} \subseteq Usable /\ o # rhs
  /\ mem' = Destroyed(State(o))
  /\ obj' = [obj EXCEPT ![o] = obj[rhs], ![rhs] = [obj[rhs] EXCEPT !.head = 0, !.tail = 0]]
  /\ model' = [model EXCEPT ![o] = model[rhs], ![rhs] = <<>>]
  /\ UNCHANGED <<trivial, history>>

\* operator=(queue&&).
AssignMove(o, rhs) == /\ {o, rhs} \subseteq Usable /\ o # rhs
                      /\ mem' = Destroyed(State(o))
                      /\ obj' = [obj EXCEPT ![o] = obj[rhs], ![rhs] = NoBuffer]
                      /\ model' = [model EXCEPT ![o] = model[rhs], ![rhs] = <<>>]
                      /\ UNCHANGED <<trivial, history>>

\* swap: all the fields change places.
Swap(o, rhs) == /\ {o, rhs} \subseteq Usable /\ o # rhs
                /\ obj' = [obj EXCEPT ![o] = obj[rhs], ![rhs] = obj[o]]
                /\ model' = [model EXCEPT ![o] = model[rhs], ![rhs] = model[o]]
                /\ UNCHANGED <<trivial, mem, history>>

-----------------------------------------------------------------------------
(* The other members.                                                      *)

\* reserve.
ReserveFor(o, n) == /\ o \in Usable /\ CanAllocate
                    /\ Becomes(o, Reserve(State(o), n), model[o])

\* shrink_to_fit.
ShrinkToFit(o) ==
  /\ o \in Usable /\ CanAllocate
  /\ LET st == State(o)
         newCap == RoundUpPo2(Size(st.r) + 1)
     IN Becomes(o, CASE Size(st.r) = 0 -> [m |-> FreeBuf(st), r |-> NoBuffer]
                     [] Size(st.r) > 0 /\ newCap < st.r.cap -> GrowTo(st, newCap)
                     [] OTHER -> st,
                model[o])

\* push(const T&), push(T&&), emplace, of an element from outside.
Push(o, v) == /\ o \in Usable /\ CanAllocate /\ Len(model[o]) < MaxLen
              /\ Becomes(o, PushBack(EnsureSpace(State(o)), v), Append(model[o], v))

\* The new element's constructor throws, after ensure_space.
PushThrows(o) == /\ o \in Usable /\ CanAllocate /\ Len(model[o]) < MaxLen
                 /\ Becomes(o, EnsureSpace(State(o)), model[o])

\* The sizes that push, reserve and shrink_to_fit may pass to grow_to.
GrowthTargets(r) ==
  {n \in {r.cap * 2} : ~SpaceLeft(r)}
    \cup {RoundUpPo2(n + 1) : n \in (Capacity(r) + 1)..MaxLen}
    \cup {n \in {RoundUpPo2(Size(r) + 1)} : n < r.cap}

\* A move in grow_to throws after n elements: they have left the old buffer,
\* and nobody knows the new one.
RelocateThrows(o, n) ==
  /\ ~trivial
  /\ o \in Usable /\ CanAllocate /\ n < Size(obj[o])
  /\ \E newCap \in GrowthTargets(obj[o]) :
       LET r == obj[o]
           new == FreshBuffer(mem)
           gone == {And(r.head + i, r.mask) : i \in 0..(n - 1)}
       IN Leak([mem EXCEPT
                  ![r.buf] = [i \in DOMAIN @ |-> IF i \in gone THEN Raw ELSE @[i]],
                  ![new] = [i \in 0..(newCap - 1) |-> IF i < n THEN Relocated(State(o), newCap)[i] ELSE Raw]],
               new)
  /\ broken' = IF n > 0 THEN broken \cup {o} ELSE broken
  /\ UNCHANGED <<trivial, obj, model>>

\* push(front()) without growth.
PushOwnFront(o) ==
  /\ o \in Usable /\ Len(model[o]) \in 1..(MaxLen - 1)
  /\ SpaceLeft(obj[o])
  /\ Becomes(o, PushBack(State(o), Front(State(o))), Append(model[o], Head(model[o])))

\* push(front()) on a full queue: the reference is read after ensure_space
\* has destroyed and freed what it refers to.  The read yields anything.
PushOwnFrontGrowing(o) ==
  /\ o \in Usable /\ CanAllocate /\ Len(model[o]) \in 1..(MaxLen - 1)
  /\ ~SpaceLeft(obj[o])
  /\ \E v \in Values : LET st == PushBack(EnsureSpace(State(o)), v)
                       IN mem' = st.m /\ obj' = [obj EXCEPT ![o] = st.r]
  /\ model' = [model EXCEPT ![o] = Append(@, Head(@))]
  /\ broken' = broken \cup {o}
  /\ UNCHANGED <<trivial, leaked>>

\* pop(); a call on an empty queue is the caller's error.
Pop(o) == /\ o \in Usable /\ model[o] # <<>>
          /\ Becomes(o, PopFront(State(o)), Tail(model[o]))

ClearAll(o) == /\ o \in Usable
               /\ Becomes(o, Clear(State(o)), <<>>)

-----------------------------------------------------------------------------
\* New elements follow on the last one, so that a queue's contents are told
\* apart by their first element and their number.
NewValues(s) == {IF s \in {None, <<>>} THEN 0 ELSE (s[Len(s)] + 1) % K}
Lists == {[i \in 1..n |-> i % K] : n \in 0..(MaxLen - 1)}

Construction(o) ==
  \/ \E n \in {0, MaxLen} : ConstructCapacity(o, n)
  \/ \E s \in Lists : ConstructList(o, s) \/ AssignList(o, s) \/ \E n \in 0..MaxLen : ListThrows(o, s, n)
  \/ \E rhs \in Objects : \/ ConstructCopy(o, rhs)
                          \/ ConstructMove(o, rhs)
                          \/ AssignCopy(o, rhs)
                          \/ AssignMove(o, rhs)
                          \/ Swap(o, rhs)
  \/ Destruct(o)

Use(o) ==
  \/ \E n \in 0..MaxLen : ReserveFor(o, n) \/ RelocateThrows(o, n) \/ CopyThrows(o, n)
  \/ ShrinkToFit(o)
  \/ \E v \in NewValues(model[o]) : Push(o, v)
  \/ PushThrows(o)
  \/ model[o] \notin {None, <<>>} /\ Head(model[o]) \in NewValues(model[o]) /\ PushOwnFront(o)
  \/ PushOwnFrontGrowing(o)
  \/ Pop(o)
  \/ ClearAll(o)

Next == \E o \in Objects : Construction(o) \/ Use(o)

Spec == Init /\ [][Next]_vars

-----------------------------------------------------------------------------
(* Correctness.                                                            *)

\* Whatever the history of growth, shrinking, wrapping, copies, moves and
\* exceptions, a queue that is not broken shows what a std::queue would: size,
\* front, back and the elements in order; and operator== compares contents,
\* however differently two queues are laid out.
ActsAsQueue ==
  \A o \in Usable :
    LET st == State(o)
        s == model[o]
    IN /\ \A x \in Usable : Equal(st, State(x)) <=> s = model[x]
       /\ Size(st.r) = Len(s)
       /\ Contents(st) = s
       /\ s # <<>> => Front(st) = s[1] /\ Back(st) = s[Len(s)]

\* "Precise object lifetime control": the elements alive in a buffer are the
\* ones from head_ to tail_, so that each is destroyed exactly once.
LifetimesExact ==
  \A o \in Usable : obj[o].buf # None /\ mem[obj[o].buf] # None =>
    \A i \in DOMAIN mem[obj[o].buf] : mem[obj[o].buf][i] # Raw <=> i \in Live(obj[o])

\* No queue, not even a broken one, holds a buffer that is freed or that
\* another queue will free; and every buffer that is allocated has an owner
\* that will free it, except for the ones that a throwing copy or relocation
\* left behind.
BuffersOwned ==
  /\ \A x, y \in Alive : obj[x].buf = obj[y].buf => x = y \/ obj[x].buf = None
  /\ {i \in Buffers : mem[i] # None} = leaked \cup ({obj[o].buf : o \in Alive} \ {None})
=============================================================================
