--------------------------- MODULE FixedContainers ---------------------------
(***************************************************************************)
(* hpc::core::fixed_queue (queue.hpp) and fixed_stack (stack.hpp): the     *)
(* containers that keep at most Capacity elements inside the object.       *)
(* Nothing can change hands by pointer, so that copies, moves and swaps    *)
(* go element by element, and an element that throws stops them midway.    *)
(* The code is sequential: every member function is one action.            *)
(*                                                                         *)
(* `model' is the reference: what a std::queue or std::stack would hold,   *)
(* oldest element first.                                                   *)
(***************************************************************************)
EXTENDS PowerOfTwo, Sequences

CONSTANTS
  Objects,      \* the containers
  None,         \* no container
  Dead,         \* a slot in which no element lives
  Bad,          \* a slot constructed over a live element, or destroyed twice
  Moved,        \* the value of an element that was moved from
  Values,       \* the other values of T
  Capacities    \* the template argument Capacity

ASSUME CapacityAssumption ==
  \A c \in Capacities : c \in Nat \ {0} /\ \E p \in 1..MaxSize : IsRoundUp(p, c + 1)
ASSUME MarksAssumption == {Dead, Bad, Moved} \cap Values = {}

VARIABLES
  kind,      \* which of the two classes
  cap,       \* its Capacity
  trivial,   \* is_trivial
  obj,       \* the storage and the indices of each object
  model,     \* history: what the std container would hold
  broken     \* history: storage with lost, dead or miscounted elements after
             \* a throw; not used any more

type == <<kind, cap, trivial>>
vars == <<type, obj, model, broken>>

Elements == Values \cup {Moved}

Init == /\ kind \in {"queue", "stack"}
        /\ cap \in Capacities
        /\ trivial \in BOOLEAN
        /\ obj = [o \in Objects |-> None]
        /\ model = [o \in Objects |-> <<>>]
        /\ broken = {}

Alive == {o \in Objects : obj[o] # None}
Usable == Alive \ broken
Vacant == Objects \ (Alive \cup broken)

-----------------------------------------------------------------------------
(* The private helpers on the storage s, and the two classes' code on the  *)
(* fields r of one object.  A stack has its elements in the slots          *)
(* 0..(tail-1): its size_ is tail, and head stays 0.                       *)

\* construct.
Construct(s, i, v) == [s EXCEPT ![i] = IF trivial \/ @ = Dead THEN v ELSE Bad]

\* destroy.  No code runs for a trivial type, but its element is dead as well.
Destroy(s, i) == [s EXCEPT ![i] = IF @ \in Elements THEN Dead ELSE Bad]

\* buf_cap of a queue; a stack has no slot to spare.
BufCap == IF kind = "queue" THEN RoundUpToPowerOfTwo(cap + 1) ELSE cap

\* An object: its storage and its indices.
Fields(slots, head, tail) == [slots |-> slots, head |-> head, tail |-> tail]

Fresh == Fields([i \in 0..(BufCap - 1) |-> Dead], 0, 0)

\* Slip: the index wraps at Capacity.
BugAdvance(i) == (i + 1) % cap

\* advance().
Advance(i) == (i + 1) % BufCap

\* size(); that of a stack is size_ itself.
Size(r) == IF kind = "queue" THEN (r.tail - r.head + BufCap) % BufCap ELSE r.tail

\* The slot of the i-th oldest element.
Slot(r, i) == IF kind = "queue" THEN (r.head + i - 1) % BufCap ELSE i - 1

Contents(r) == [i \in 1..Size(r) |-> r.slots[Slot(r, i)]]

QueuePushed(r, v) == Fields(Construct(r.slots, r.tail, v), r.head, Advance(r.tail))
StackPushed(r, v) == Fields(Construct(r.slots, r.tail, v), r.head, r.tail + 1)
Pushed(r, v) == IF kind = "queue" THEN QueuePushed(r, v) ELSE StackPushed(r, v)

QueuePopped(r) == Fields(Destroy(r.slots, r.head), Advance(r.head), r.tail)
StackPopped(r) == Fields(Destroy(r.slots, r.tail - 1), r.head, r.tail - 1)
Popped(r) == IF kind = "queue" THEN QueuePopped(r) ELSE StackPopped(r)

\* Slip: the elements of a queue that wraps are not destroyed.
BugQueueClear(r) ==
  LET n == IF r.head <= r.tail THEN r.tail - r.head ELSE 0
      after[k \in 0..n] == IF k = 0 THEN r.slots ELSE Destroy(after[k - 1], Slot(r, k))
  IN Fields(after[n], 0, 0)

\* clear, from head_ to tail_; after[k] is the storage without its k oldest.
QueueClear(r) ==
  LET after[k \in 0..Size(r)] == IF k = 0 THEN r.slots ELSE Destroy(after[k - 1], Slot(r, k))
  IN Fields(after[Size(r)], 0, 0)

\* clear, from the top down.
StackClear(r) ==
  LET after[k \in 0..r.tail] == IF k = 0 THEN r.slots ELSE Destroy(after[k - 1], r.tail - k)
  IN Fields(after[r.tail], 0, 0)

Clear(r) == IF kind = "queue" THEN QueueClear(r) ELSE StackClear(r)

\* The loop of a constructor or an assignment has made k elements of s in
\* the empty r.  A queue counts them one by one, a stack all at the end.
QueuePartly(r, s, k) ==
  LET made[j \in 0..k] == IF j = 0 THEN r ELSE QueuePushed(made[j - 1], s[j])
  IN made[k]
StackPartly(r, s, k) ==
  LET made[j \in 0..k] == IF j = 0 THEN r ELSE StackPushed(made[j - 1], s[j])
  IN Fields(made[k].slots, made[k].head, IF k = Len(s) THEN k ELSE 0)
Partly(r, s, k) == IF kind = "queue" THEN QueuePartly(r, s, k) ELSE StackPartly(r, s, k)

Filled(r, s) == Partly(r, s, Len(s))

\* The k oldest elements have been moved from.
MovedFrom(r, k) ==
  Fields([i \in DOMAIN r.slots |-> IF \E j \in 1..k : i = Slot(r, j) THEN Moved ELSE r.slots[i]],
         r.head, r.tail)

\* operator==, with an index into each of two queues.
QueueEqual(x, y) == /\ Size(x) = Size(y)
                    /\ \A i \in 1..Size(x) : x.slots[Slot(x, i)] = y.slots[Slot(y, i)]

\* operator== of stacks.
StackEqual(x, y) == x.tail = y.tail /\ \A i \in 0..(x.tail - 1) : x.slots[i] = y.slots[i]

Equal(x, y) == IF kind = "queue" THEN QueueEqual(x, y) ELSE StackEqual(x, y)

-----------------------------------------------------------------------------
(* Members that finish.                                                    *)

\* o is now r, and the std container in its place would hold s.
Becomes(o, r, s) == /\ obj' = [obj EXCEPT ![o] = r]
                    /\ model' = [model EXCEPT ![o] = s]
                    /\ UNCHANGED <<type, broken>>

\* The default constructor and the initializer_list constructor.
ConstructList(o, s) == o \in Vacant /\ Len(s) <= cap /\ Becomes(o, Filled(Fresh, s), s)

\* The copy constructor.
ConstructCopy(o, rhs) == /\ o \in Vacant /\ rhs \in Usable
                         /\ Becomes(o, Filled(Fresh, Contents(obj[rhs])), model[rhs])

\* The elements of rhs move to the empty r, which o becomes, and rhs is cleared.
MoveInto(o, r, rhs) ==
  /\ obj' = [obj EXCEPT ![o] = Filled(r, Contents(obj[rhs])), ![rhs] = Clear(obj[rhs])]
  /\ model' = [model EXCEPT ![o] = model[rhs], ![rhs] = <<>>]
  /\ UNCHANGED <<type, broken>>

\* The move constructor.
ConstructMove(o, rhs) == o \in Vacant /\ rhs \in Usable /\ MoveInto(o, Fresh, rhs)

\* The destructor.
Destruct(o) == o \in Usable /\ Becomes(o, None, <<>>)

\* operator=(const &).
AssignCopy(o, rhs) == /\ {o, rhs} \subseteq Usable /\ o # rhs
                      /\ Becomes(o, Filled(Clear(obj[o]), Contents(obj[rhs])), model[rhs])

\* operator=(&&).
AssignMove(o, rhs) == /\ {o, rhs} \subseteq Usable /\ o # rhs
                      /\ MoveInto(o, Clear(obj[o]), rhs)

\* What swap makes of x, given y.  Queues move their elements through a
\* temporary, from slot 0 on.
QueueSwapped(x, y) == QueuePartly(QueueClear(x), Contents(y), Size(y))

\* Stacks exchange the elements that both have, move the others one by one,
\* and exchange the sizes.
StackSwapped(x, y) ==
  Fields([i \in DOMAIN x.slots |-> IF i < y.tail THEN y.slots[i]
                                   ELSE IF i < x.tail THEN Dead ELSE x.slots[i]],
         x.head, y.tail)

Swapped(x, y) == IF kind = "queue" THEN QueueSwapped(x, y) ELSE StackSwapped(x, y)

\* swap, with itself too.
Swap(o, rhs) ==
  /\ {o, rhs} \subseteq Usable
  /\ obj' = [obj EXCEPT ![o] = Swapped(obj[o], obj[rhs]), ![rhs] = Swapped(obj[rhs], obj[o])]
  /\ model' = [model EXCEPT ![o] = model[rhs], ![rhs] = model[o]]
  /\ UNCHANGED <<type, broken>>

\* try_push, push, try_emplace, emplace: false or overflow_error when full.
Push(o, v) ==
  /\ o \in Usable
  /\ Becomes(o, IF Size(obj[o]) = cap THEN obj[o] ELSE Pushed(obj[o], v),
             IF Len(model[o]) = cap THEN model[o] ELSE Append(model[o], v))

\* try_pop, pop: false or underflow_error when empty.
Pop(o) ==
  /\ o \in Usable
  /\ Becomes(o, IF obj[o].head = obj[o].tail THEN obj[o] ELSE Popped(obj[o]),
             CASE model[o] = <<>> -> <<>>
               [] model[o] # <<>> /\ kind = "queue" -> Tail(model[o])
               [] model[o] # <<>> /\ kind = "stack" -> SubSeq(model[o], 1, Len(model[o]) - 1))

ClearAll(o) == o \in Usable /\ Becomes(o, Clear(obj[o]), <<>>)

-----------------------------------------------------------------------------
(* Elements that throw.                                                    *)

MayThrow(o) == ~trivial /\ o \in Usable

\* An exception leaves o as x, those in bad broken.  The contents of an object
\* that is not broken are valid, and which these are is not specified.
Leaves(o, x, bad) ==
  /\ obj' = [obj EXCEPT ![o] = x]
  /\ model' = [model EXCEPT ![o] = Contents(x)]
  /\ broken' = broken \cup bad
  /\ UNCHANGED type

\* The same for two objects, o and p.
LeavesBoth(o, x, p, y, bad) ==
  /\ obj' = [obj EXCEPT ![o] = x, ![p] = y]
  /\ model' = [model EXCEPT ![o] = Contents(x), ![p] = Contents(y)]
  /\ broken' = broken \cup bad
  /\ UNCHANGED type

\* The initializer_list constructor throws overflow_error.  No destructor
\* runs: the elements made so far are never destroyed.
ListTooLong(o) == /\ o \in Vacant
                  /\ broken' = broken \cup {o}
                  /\ UNCHANGED <<type, obj, model>>

\* The source of a copy, or of a move, that stopped after k elements.
Source(rhs, moving, k) == IF moving THEN MovedFrom(obj[rhs], k) ELSE obj[rhs]

\* A copy or move constructor throws after k elements: the same.
ConstructThrows(o, rhs, moving, k) ==
  /\ o \in Vacant /\ MayThrow(rhs) /\ k < Size(obj[rhs])
  /\ Leaves(rhs, Source(rhs, moving, k), IF k > 0 THEN {o} ELSE {})

\* A copy or move assignment throws after k elements.  A stack has set its
\* size to 0 and does not count them.
AssignThrows(o, rhs, moving, k) ==
  /\ {o, rhs} \subseteq Usable /\ o # rhs /\ MayThrow(rhs) /\ k < Size(obj[rhs])
  /\ LeavesBoth(o, Partly(Clear(obj[o]), Contents(obj[rhs]), k), rhs, Source(rhs, moving, k),
                IF kind = "stack" /\ k > 0 THEN {o} ELSE {})

\* The swap of two queues throws in the k-th element of its move from rhs to
\* the temporary, from o to rhs, or from the temporary to o.
QueueSwapThrows(o, rhs, k) ==
  /\ kind = "queue" /\ {o, rhs} \subseteq Usable /\ o # rhs /\ MayThrow(o)
  /\ LET x == obj[o]
         y == obj[rhs]
     IN \/ /\ k < Size(y)
           /\ Leaves(rhs, MovedFrom(y, k), {})
        \/ /\ k < Size(x)
           /\ LeavesBoth(o, MovedFrom(x, k), rhs, Partly(Clear(y), Contents(x), k), {})
        \/ /\ k < Size(y)
           /\ LeavesBoth(o, Partly(Clear(x), Contents(y), k), rhs, Filled(Clear(y), Contents(x)), {})

\* The swap of two stacks throws in a pair of elements, after k pairs.
StackPairThrows(o, rhs, k) ==
  /\ kind = "stack" /\ {o, rhs} \subseteq Usable /\ o # rhs /\ MayThrow(o)
  /\ k < Size(obj[o]) /\ k < Size(obj[rhs])
  /\ LET x == obj[o].slots
         y == obj[rhs].slots
         mixed(r, other, e) ==
           Fields([i \in DOMAIN r.slots |-> IF i < k THEN other[i] ELSE IF i = k THEN e ELSE r.slots[i]],
                  r.head, r.tail)
     IN \E e \in {x[k], y[k], Moved}, d \in {y[k], Moved} :
          LeavesBoth(o, mixed(obj[o], y, e), rhs, mixed(obj[rhs], x, d), {})

\* The swap of a stack with a longer one throws after k of the elements that
\* only the longer one has: they have changed places, the sizes have not.
StackTailThrows(short, long, k) ==
  /\ kind = "stack" /\ {short, long} \subseteq Usable /\ MayThrow(short)
  /\ Size(obj[short]) + k < Size(obj[long])
  /\ LET n == Size(obj[short])
         x == obj[short].slots
         y == obj[long].slots
         more == [i \in DOMAIN x |-> IF i < n + k THEN y[i] ELSE x[i]]
         less == [i \in DOMAIN y |-> IF i < n THEN x[i] ELSE IF i < n + k THEN Dead ELSE y[i]]
     IN LeavesBoth(short, Fields(more, obj[short].head, obj[short].tail),
                   long, Fields(less, obj[long].head, obj[long].tail),
                   IF k > 0 THEN {short, long} ELSE {})

\* The new element's constructor throws: a stack counts it already.
StackPushThrows(o) == /\ kind = "stack" /\ MayThrow(o) /\ obj[o].tail < cap
                      /\ Leaves(o, [obj[o] EXCEPT !.tail = @ + 1], {o})

\* The move assignment of try_pop(out) throws: a stack has uncounted the
\* element, which stays alive.
StackPopThrows(o) == /\ kind = "stack" /\ MayThrow(o) /\ obj[o].tail > 0
                     /\ Leaves(o, [obj[o] EXCEPT !.tail = @ - 1], {o})

\* A queue changes its index last, in both cases.
QueueThrows(o) == /\ kind = "queue" /\ MayThrow(o)
                  /\ Leaves(o, obj[o], {})

-----------------------------------------------------------------------------
Lists == UNION {[1..n -> Values] : n \in 0..cap}
Counts == 0..(cap - 1)

Lifecycle(o) ==
  \/ \E s \in Lists : ConstructList(o, s)
  \/ \E rhs \in Objects : ConstructCopy(o, rhs) \/ ConstructMove(o, rhs)
  \/ Destruct(o)

Use(o) ==
  \/ \E v \in Values : Push(o, v)
  \/ Pop(o)
  \/ ClearAll(o)
  \/ \E rhs \in Objects : AssignCopy(o, rhs) \/ AssignMove(o, rhs) \/ Swap(o, rhs)

Exception(o) ==
  \/ ListTooLong(o)
  \/ StackPushThrows(o)
  \/ StackPopThrows(o)
  \/ QueueThrows(o)
  \/ \E rhs \in Objects, k \in Counts :
       \/ \E moving \in BOOLEAN : \/ ConstructThrows(o, rhs, moving, k)
                                  \/ AssignThrows(o, rhs, moving, k)
       \/ QueueSwapThrows(o, rhs, k)
       \/ StackPairThrows(o, rhs, k)
       \/ StackTailThrows(o, rhs, k)

Next == \E o \in Objects : Lifecycle(o) \/ Use(o) \/ Exception(o)

Spec == Init /\ [][Next]_vars

-----------------------------------------------------------------------------
(* Correctness.                                                            *)

\* Whatever the history of wrapping, copies, moves, swaps and exceptions, a
\* container that is not broken shows what a std::queue or std::stack would:
\* size, emptiness, the elements in order, and equality between the two.
ActsAsContainer ==
  \A x \in Usable : /\ Size(obj[x]) = Len(model[x])
                    /\ obj[x].head = obj[x].tail <=> model[x] = <<>>
                    /\ Contents(obj[x]) = model[x]
                    /\ \A y \in Usable : Equal(obj[x], obj[y]) <=> model[x] = model[y]

\* "Placement new for precise object lifetime control": no loop constructs
\* over a live element or destroys one twice, and the elements alive in the
\* storage are the ones counted, also after the throws that break nothing.
LifetimesExact ==
  \A o \in Usable : \A i \in DOMAIN obj[o].slots :
    IF \E j \in 1..Size(obj[o]) : i = Slot(obj[o], j) THEN obj[o].slots[i] \in Elements
                                                      ELSE obj[o].slots[i] = Dead
=============================================================================
