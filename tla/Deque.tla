-------------------------------- MODULE Deque --------------------------------
(***************************************************************************)
(* hpc::core::deque (deque.hpp): a double-ended queue in chunks of         *)
(* chunk_elems elements, found through a map of chunk pointers that is     *)
(* re-centred or reallocated when an end of it is reached.  Several deques *)
(* share one heap of chunks.  The code is sequential: every member         *)
(* function is one action.                                                 *)
(*                                                                         *)
(* An entry of the map outside start_.node_ .. finish_.node_ is written    *)
(* before it is read; whatever the code leaves there is None here.         *)
(* `model' is the reference: the contents a std::deque would have.         *)
(***************************************************************************)
EXTENDS Integers, Sequences, FiniteSets

CONSTANTS
  Objects,      \* the deque objects
  None,         \* no object, no iterator, no chunk
  Raw,          \* storage in which no element lives
  ChunkElems,   \* chunk_elems
  MinMap,       \* the least map_size_ of init_map, 8 in the code
  K,            \* elements are 0..(K-1)
  MaxLen,       \* bound: elements in one deque
  MaxTotal,     \* bound: elements in two deques
  MaxMaps,      \* bound: entries of the maps of two deques
  MaxChunks,    \* bound: chunks that exist at once
  MaxFaults     \* bound: throws that leak, and deques that are broken

ASSUME SizeAssumption == {ChunkElems, MinMap, K} \subseteq Nat \ {0}
ASSUME BoundsAssumption == {MaxLen, MaxTotal, MaxMaps, MaxChunks, MaxFaults} \subseteq Nat

Chunks == 1..MaxChunks
Offsets == 0..(ChunkElems - 1)
Values == 0..(K - 1)
Cells == Values \cup {Raw}

\* The data members.  An iterator is a node of the map and the offset of cur_
\* in its chunk, which is the one that the map has at node.
Maps(n) == [0..(n - 1) -> Chunks \cup {None}]
Iterators == [node : Nat, off : Offsets]
Fields == [map : UNION {Maps(n) : n \in 0..MaxMaps}, start : Iterators \cup {None}, finish : Iterators \cup {None}]

ASSUME NoneAssumption == None \notin Chunks \cup [Offsets -> Cells] \cup Fields
ASSUME RawAssumption == Raw \notin Values

VARIABLES
  obj,      \* the data members of each deque, None before construction
  mem,      \* the storage of each chunk, None when it is not allocated
  model,    \* history: what a std::deque would hold
  broken,   \* history: deques that a throw, or a push after a move, has ruined
  leaks     \* history: how often a throw left chunks without an owner

vars == <<obj, mem, model, broken, leaks>>

It(node, off) == [node |-> node, off |-> off]
Members(map, start, finish) == [map |-> map, start |-> start, finish |-> finish]

\* A moved-from deque: no map, null iterators.
NoMap == Members(<<>>, None, None)

Init == /\ obj = [o \in Objects |-> None]
        /\ mem = [c \in Chunks |-> None]
        /\ model = [o \in Objects |-> None]
        /\ broken = {}
        /\ leaks = 0

Alive == {o \in Objects : obj[o] # None}
Usable == Alive \ broken

-----------------------------------------------------------------------------
(* Iterators.                                                              *)

\* operator++.
Incremented(it) == IF it.off + 1 = ChunkElems THEN It(it.node + 1, 0) ELSE It(it.node, it.off + 1)

\* operator--.
Decremented(it) == IF it.off = 0 THEN It(it.node - 1, ChunkElems - 1) ELSE It(it.node, it.off - 1)

\* operator+=, operator+, and with a negative n operator-=, operator-.
Plus(it, n) ==
  LET off == n + it.off
      nodeOff == IF off > 0 THEN off \div ChunkElems
                            ELSE -((-off - 1) \div ChunkElems) - 1
  IN IF off \in Offsets THEN It(it.node, off)
                         ELSE It(it.node + nodeOff, off - nodeOff * ChunkElems)

\* operator- of two iterators.
Minus(a, b) == ChunkElems * (a.node - b.node - 1) + a.off + (ChunkElems - b.off)

\* operator<.
Less(a, b) == IF a.node = b.node THEN a.off < b.off ELSE a.node < b.node

MapSize(d) == Cardinality(DOMAIN d.map)
Size(d) == IF MapSize(d) = 0 THEN 0 ELSE Minus(d.finish, d.start)
Empty(d) == d.start = d.finish

\* The positions that a loop of ++ visits from start_ to finish_.
Positions(d) ==
  LET at[i \in 0..Size(d)] == IF i = 0 THEN d.start ELSE Incremented(at[i - 1])
  IN [i \in 1..Size(d) |-> at[i - 1]]

-----------------------------------------------------------------------------
(* The private helpers, on a pair of the heap m and the members d of one   *)
(* deque.                                                                  *)

St(m, d) == [m |-> m, d |-> d]
State(o) == St(mem, obj[o])

WithMap(d, map) == Members(map, d.start, d.finish)
WithStart(d, it) == Members(d.map, it, d.finish)
WithFinish(d, it) == Members(d.map, d.start, it)

\* An element's address: it stays valid as long as the element lives.
Address(d, it) == <<d.map[it.node], it.off>>
Element(st, it) == st.m[st.d.map[it.node]][it.off]

\* construct and destroy.
Put(st, it, v) == [st.m EXCEPT ![st.d.map[it.node]] = [@ EXCEPT ![it.off] = v]]
Destroy(st, it) == Put(st, it, Raw)

EmptyChunk == [i \in Offsets |-> Raw]

\* alloc_chunk, n times: chunks that are not in use.
Free(m) == {c \in Chunks : m[c] = None}
Fresh(m, n) == CHOOSE f \in [1..n -> Free(m)] : \A i, j \in 1..n : f[i] = f[j] => i = j
CanAllocate(n) == Cardinality(Free(mem)) >= n

\* free_chunk of the chunks in S.  It ends no lifetime: a chunk in which an
\* element still lives is not counted as given back.
FreeChunks(m, S) == [c \in Chunks |-> IF c \in S /\ m[c] = EmptyChunk THEN None ELSE m[c]]

\* init_map.
NumNodes(n) == n \div ChunkElems + 1
InitMap(m, n) ==
  LET num == NumNodes(n)
      mapSize == IF MinMap > num + 2 THEN MinMap ELSE num + 2
      nstart == (mapSize - num) \div 2
      new == Fresh(m, num)
      map == [i \in 0..(mapSize - 1) |-> IF i \in nstart..(nstart + num - 1) THEN new[i - nstart + 1] ELSE None]
  IN St([c \in Chunks |-> IF \E k \in 1..num : new[k] = c THEN EmptyChunk ELSE m[c]],
        Members(map, It(nstart, 0), It(nstart + num - 1, n % ChunkElems)))

\* init_map and the elements of s: default_fill, value_fill, copy_from and the
\* loop over an initializer_list construct them at the same places.
Filled(m, s) ==
  LET new == InitMap(m, Len(s))
      at == Positions(new.d)
      made[i \in 0..Len(s)] == IF i = 0 THEN new.m ELSE Put(St(made[i - 1], new.d), at[i], s[i])
  IN St(made[Len(s)], new.d)

\* The chunk pointers that the deque will free.
Nodes(d) == IF MapSize(d) = 0 THEN {} ELSE d.start.node..d.finish.node
Owned(d) == {d.map[i] : i \in Nodes(d)}

\* std::copy to lower addresses, and std::copy_backward.
Copied(map, from, n, to) ==
  LET f[i \in 0..n] == IF i = 0 THEN map ELSE [f[i - 1] EXCEPT ![to + i - 1] = f[i - 1][from + i - 1]]
  IN f[n]
CopiedBackward(map, from, n, to) ==
  LET f[i \in 0..n] == IF i = 0 THEN map ELSE [f[i - 1] EXCEPT ![to + n - i] = f[i - 1][from + n - i]]
  IN f[n]

\* reallocate_map with nodes_to_add = 1.
ReallocateMap(d, addAtFront) ==
  LET mapSize == MapSize(d)
      oldNum == d.finish.node - d.start.node + 1
      newNum == oldNum + 1
      shift == mapSize > 2 * newNum
      newMapSize == IF shift THEN mapSize ELSE mapSize + mapSize + 2
      newStart == (newMapSize - newNum) \div 2 + (IF addAtFront THEN 1 ELSE 0)
      newNodes == newStart..(newStart + oldNum - 1)
      map == CASE shift /\ newStart < d.start.node -> Copied(d.map, d.start.node, oldNum, newStart)
               [] shift /\ newStart >= d.start.node -> CopiedBackward(d.map, d.start.node, oldNum, newStart)
               [] ~shift -> [i \in newNodes |-> d.map[d.start.node + i - newStart]]
  IN Members([i \in 0..(newMapSize - 1) |-> IF i \in newNodes THEN map[i] ELSE None],
             It(newStart, d.start.off), It(newStart + oldNum - 1, d.finish.off))

\* reserve_map_at_back and reserve_map_at_front.
ReserveBack(d) == IF 2 > MapSize(d) - d.finish.node THEN ReallocateMap(d, FALSE) ELSE d
ReserveFront(d) == IF 1 > d.start.node THEN ReallocateMap(d, TRUE) ELSE d

\* A new chunk at node i of the map.
WithChunk(m, d, i) == LET c == Fresh(m, 1)[1]
                      IN St([m EXCEPT ![c] = EmptyChunk], WithMap(d, [d.map EXCEPT ![i] = c]))

\* push_back_aux and push_front_aux up to the element's construction.
BackRoom(st) == LET d == ReserveBack(st.d) IN WithChunk(st.m, d, d.finish.node + 1)
FrontRoom(st) == LET d == ReserveFront(st.d)
                     x == WithChunk(st.m, d, d.start.node - 1)
                 IN St(x.m, WithStart(x.d, Decremented(x.d.start)))

AtChunkEnd(d) == d.finish.off = ChunkElems - 1
AtChunkStart(d) == d.start.off = 0

\* push_back, with push_back_aux.
PushedBack(st, v) ==
  LET x == IF AtChunkEnd(st.d) THEN BackRoom(st) ELSE st
  IN St(Put(x, x.d.finish, v), WithFinish(x.d, Incremented(x.d.finish)))

\* push_front, with push_front_aux.
PushedFront(st, v) ==
  LET x == IF AtChunkStart(st.d) THEN FrontRoom(st)
                                 ELSE St(st.m, WithStart(st.d, Decremented(st.d.start)))
  IN St(Put(x, x.d.start, v), x.d)

\* The map without the chunk at node i, which is freed.
WithoutChunk(m, d, i) == St(FreeChunks(m, {d.map[i]}), WithMap(d, [d.map EXCEPT ![i] = None]))

\* pop_back: pop_back_aux frees the chunk finish_ leaves, then destroys.
PoppedBack(st) ==
  LET x == IF st.d.finish.off # 0 THEN st ELSE WithoutChunk(st.m, st.d, st.d.finish.node)
      last == Decremented(st.d.finish)
  IN St(Destroy(x, last), WithFinish(x.d, last))

\* pop_front: pop_front_aux destroys, then frees the chunk start_ leaves.
PoppedFront(st) ==
  LET m == Destroy(st, st.d.start)
      x == IF st.d.start.off = ChunkElems - 1 THEN WithoutChunk(m, st.d, st.d.start.node) ELSE St(m, st.d)
  IN St(x.m, WithStart(x.d, Incremented(x.d.start)))

\* The elements that clear and teardown destroy in the chunk at node i.
Ends(d, i) == {j \in Offsets : /\ i = d.start.node => j >= d.start.off
                               /\ i = d.finish.node => j < d.finish.off}
DestroyAll(st) ==
  [c \in Chunks |->
     IF c \in Owned(st.d)
     THEN LET i == CHOOSE i \in Nodes(st.d) : st.d.map[i] = c
          IN [j \in Offsets |-> IF j \in Ends(st.d, i) THEN Raw ELSE st.m[c][j]]
     ELSE st.m[c]]

\* The map with the chunk at node i only.
OnlyChunk(d, i) == [j \in DOMAIN d.map |-> IF j = i THEN d.map[j] ELSE None]

\* Slip: start_ keeps its place in the chunk.
BugCleared(st) ==
  LET kept == st.d.start.node
  IN IF MapSize(st.d) = 0 THEN st
     ELSE St(FreeChunks(DestroyAll(st), Owned(st.d) \ {st.d.map[kept]}),
             Members(OnlyChunk(st.d, kept), st.d.start, It(kept, 0)))

\* clear: the first chunk is kept, and finish_ and start_ go to its beginning.
Cleared(st) ==
  LET kept == st.d.start.node
  IN IF MapSize(st.d) = 0 THEN st
     ELSE St(FreeChunks(DestroyAll(st), Owned(st.d) \ {st.d.map[kept]}),
             Members(OnlyChunk(st.d, kept), It(kept, 0), It(kept, 0)))

\* Slip: the chunk at finish_ is forgotten.
BugTeardown(st) ==
  FreeChunks(DestroyAll(st), {st.d.map[i] : i \in Nodes(st.d) \ {st.d.finish.node}})

\* teardown: the heap it leaves.
Teardown(st) == FreeChunks(DestroyAll(st), Owned(st.d))

\* n times push_back, or pop_back.
PushedAll(st, s) ==
  LET f[i \in 0..Len(s)] == IF i = 0 THEN st ELSE PushedBack(f[i - 1], s[i])
  IN f[Len(s)]
PoppedTimes(st, n) ==
  LET f[i \in 0..n] == IF i = 0 THEN st ELSE PoppedBack(f[i - 1])
  IN f[n]

Contents(st) == LET at == Positions(st.d) IN [i \in DOMAIN at |-> Element(st, at[i])]

\* operator==.
Equal(s1, s2) == /\ Size(s1.d) = Size(s2.d)
                 /\ LET c1 == Contents(s1) c2 == Contents(s2)
                    IN \A i \in DOMAIN c1 : c1[i] = c2[i]

-----------------------------------------------------------------------------
(* Construction, copies and moves.                                         *)

Length(o) == IF model[o] = None THEN 0 ELSE Len(model[o])
Fits(o, n) == n <= MaxLen /\ \A x \in Objects \ {o} : n + Length(x) <= MaxTotal
MapFits(o, d) == MapSize(d) <= MaxMaps /\ \A x \in Alive \ {o} : MapSize(d) + MapSize(obj[x]) <= MaxMaps

\* Deque o has the state st, and a std::deque in its place would hold s.
Becomes(o, st, s) == /\ MapFits(o, st.d)
                     /\ mem' = st.m
                     /\ obj' = [obj EXCEPT ![o] = st.d]
                     /\ model' = [model EXCEPT ![o] = s]
                     /\ UNCHANGED <<broken, leaks>>

\* A throw leaves chunks without an owner.  Nobody can name them again, so
\* they are taken out of the heap, and counted.
Leak == leaks + Cardinality(broken) < MaxFaults /\ leaks' = leaks + 1

\* Deque o is not used any more.
Break(o) == leaks + Cardinality(broken) < MaxFaults /\ broken' = broken \cup {o}

\* deque(), deque(count), deque(count, value), deque(initializer_list).
ConstructFilled(o, s) == /\ o \notin Alive /\ CanAllocate(NumNodes(Len(s))) /\ Fits(o, Len(s))
                         /\ Becomes(o, Filled(mem, s), s)

\* deque(first, last).
ConstructRange(o, s) == /\ o \notin Alive /\ CanAllocate(NumNodes(Len(s))) /\ Fits(o, Len(s))
                        /\ Becomes(o, PushedAll(InitMap(mem, 0), s), s)

\* deque(const deque&).
ConstructCopy(o, rhs) ==
  /\ o \notin Alive /\ rhs \in Usable /\ CanAllocate(NumNodes(Len(model[rhs]))) /\ Fits(o, Len(model[rhs]))
  /\ Becomes(o, Filled(mem, Contents(State(rhs))), model[rhs])

\* An element's constructor throws in a constructor of the deque, of a new
\* object or of an assignment's temporary with n elements: no destructor runs
\* for the half-made deque, and all its chunks are leaked.
ConstructThrows(n) == /\ CanAllocate(NumNodes(n))
                      /\ Leak
                      /\ UNCHANGED <<obj, mem, model, broken>>

\* The members of rhs go to o, and rhs is left without a map.
TakeOver(o, rhs) == /\ obj' = [obj EXCEPT ![o] = obj[rhs], ![rhs] = NoMap]
                    /\ model' = [model EXCEPT ![o] = model[rhs], ![rhs] = <<>>]
                    /\ UNCHANGED <<broken, leaks>>

\* deque(deque&&).
ConstructMove(o, rhs) == /\ o \notin Alive /\ rhs \in Usable
                         /\ TakeOver(o, rhs)
                         /\ UNCHANGED mem

\* operator=(deque&&).
AssignMove(o, rhs) == /\ {o, rhs} \subseteq Usable /\ o # rhs
                      /\ mem' = Teardown(State(o))
                      /\ TakeOver(o, rhs)

\* ~deque.
Destruct(o) == /\ o \in Usable
               /\ mem' = Teardown(State(o))
               /\ obj' = [obj EXCEPT ![o] = None]
               /\ model' = [model EXCEPT ![o] = None]
               /\ UNCHANGED <<broken, leaks>>

\* The assignments that copy: a temporary, a swap, and the temporary dies
\* with the old contents.
AssignFrom(o, s, ref) ==
  LET tmp == Filled(mem, s)
  IN /\ CanAllocate(NumNodes(Len(s))) /\ Fits(o, Len(s))
     /\ Becomes(o, St(Teardown(St(tmp.m, obj[o])), tmp.d), ref)

\* operator=(const deque&).
AssignCopy(o, rhs) == /\ {o, rhs} \subseteq Usable /\ o # rhs
                      /\ AssignFrom(o, Contents(State(rhs)), model[rhs])

\* operator=(initializer_list).
AssignList(o, s) == o \in Usable /\ AssignFrom(o, s, s)

\* swap.
Swap(o, rhs) == /\ {o, rhs} \subseteq Usable /\ o # rhs
                /\ obj' = [obj EXCEPT ![o] = obj[rhs], ![rhs] = obj[o]]
                /\ model' = [model EXCEPT ![o] = model[rhs], ![rhs] = model[o]]
                /\ UNCHANGED <<mem, broken, leaks>>

-----------------------------------------------------------------------------
(* The modifiers.                                                          *)

HasMap(o) == o \in Usable /\ MapSize(obj[o]) # 0

\* Slip: at the end of the map the deque is rebuilt, elements and all.
BugPushBack(o, v) ==
  /\ HasMap(o) /\ CanAllocate(1) /\ Fits(o, Len(model[o]) + 1)
  /\ LET st == State(o)
         room == IF obj[o].finish.node + 1 = MapSize(obj[o]) THEN Filled(Teardown(st), Contents(st)) ELSE st
     IN Becomes(o, PushedBack(room, v), Append(model[o], v))

\* push_back(const T&), push_back(T&&), emplace_back.  The argument may be an
\* element of the deque: nothing moves before it is read.
PushBack(o, v) == /\ HasMap(o) /\ CanAllocate(1) /\ Fits(o, Len(model[o]) + 1)
                  /\ Becomes(o, PushedBack(State(o), v), Append(model[o], v))

\* push_front(const T&), push_front(T&&), emplace_front.
PushFront(o, v) == /\ HasMap(o) /\ CanAllocate(1) /\ Fits(o, Len(model[o]) + 1)
                   /\ Becomes(o, PushedFront(State(o), v), <<v>> \o model[o])

PopBack(o) == /\ o \in Usable /\ model[o] # <<>>
              /\ Becomes(o, PoppedBack(State(o)), SubSeq(model[o], 1, Len(model[o]) - 1))

PopFront(o) == /\ o \in Usable /\ model[o] # <<>>
               /\ Becomes(o, PoppedFront(State(o)), Tail(model[o]))

\* clear().
Clear(o) == /\ o \in Usable
            /\ Becomes(o, Cleared(State(o)), <<>>)

\* resize(count) and resize(count, value).
Resize(o, n, v) ==
  /\ o \in Usable
  /\ LET size == Size(obj[o])
         more == [i \in 1..(n - size) |-> v]
     IN IF n < size
        THEN Becomes(o, PoppedTimes(State(o), size - n), SubSeq(model[o], 1, n))
        ELSE /\ CanAllocate(NumNodes(Len(more))) /\ Fits(o, n)
             /\ more # <<>> => HasMap(o)
             /\ Becomes(o, PushedAll(State(o), more), model[o] \o more)

\* alloc_chunk fails in push_back_aux or push_front_aux: the map has changed,
\* the deque has not.
PushBackNoMemory(o) == /\ HasMap(o) /\ AtChunkEnd(obj[o])
                       /\ Becomes(o, St(mem, ReserveBack(obj[o])), model[o])
PushFrontNoMemory(o) == /\ HasMap(o) /\ AtChunkStart(obj[o])
                        /\ Becomes(o, St(mem, ReserveFront(obj[o])), model[o])

\* The element's constructor throws in push_back_aux: the new chunk lies
\* beyond finish_, where nobody frees it.
PushBackThrows(o) ==
  /\ HasMap(o) /\ AtChunkEnd(obj[o]) /\ CanAllocate(1)
  /\ LET x == BackRoom(State(o))
         at == x.d.finish.node + 1
     IN /\ MapFits(o, x.d)
        /\ mem' = [x.m EXCEPT ![x.d.map[at]] = None]
        /\ obj' = [obj EXCEPT ![o] = WithMap(x.d, [x.d.map EXCEPT ![at] = None])]
  /\ Leak
  /\ UNCHANGED <<model, broken>>

\* The same in push_front_aux: start_ already includes the element that was
\* never made.
PushFrontThrows(o) ==
  /\ HasMap(o) /\ AtChunkStart(obj[o]) /\ CanAllocate(1)
  /\ LET x == FrontRoom(State(o))
     IN MapFits(o, x.d) /\ mem' = x.m /\ obj' = [obj EXCEPT ![o] = x.d]
  /\ Break(o)
  /\ UNCHANGED <<model, leaks>>

\* A push on a moved-from deque: push_back constructs at a null pointer, and
\* push_front reads the null map in reallocate_map.
PushAfterMove(o) == /\ o \in Usable /\ ~HasMap(o)
                    /\ Break(o)
                    /\ UNCHANGED <<obj, mem, model, leaks>>

-----------------------------------------------------------------------------
\* New elements follow on their neighbour, so that a deque's contents are told
\* apart by their first element and their number.  Which element an empty
\* deque gets first does not matter: it goes by the place it gets.
NewElement(o) == IF HasMap(o) THEN (obj[o].start.node * ChunkElems + obj[o].start.off) % K ELSE 0
NewBack(o) == IF Length(o) = 0 THEN NewElement(o) ELSE (model[o][Len(model[o])] + 1) % K
NewFront(o) == IF Length(o) = 0 THEN (NewElement(o) + K - 1) % K ELSE (Head(model[o]) + K - 1) % K
Lists == {[i \in 1..n |-> (i + 1) % K] : n \in 0..MaxLen}

Construction(o) ==
  \/ \E s \in Lists : ConstructFilled(o, s) \/ ConstructRange(o, s) \/ AssignList(o, s)
  \/ \E rhs \in Objects : \/ ConstructCopy(o, rhs)
                          \/ ConstructMove(o, rhs)
                          \/ AssignCopy(o, rhs)
                          \/ AssignMove(o, rhs)
                          \/ Swap(o, rhs)
  \/ Destruct(o)

\* The members that work at the back, and at the front.
BackOp(o) == \/ PushBack(o, NewBack(o))
             \/ PushBackNoMemory(o)
             \/ PushBackThrows(o)
             \/ PopBack(o)
             \/ \E n \in 0..(Length(o) + 1) : Resize(o, n, NewBack(o))
FrontOp(o) == \/ PushFront(o, NewFront(o))
              \/ PushFrontNoMemory(o)
              \/ PushFrontThrows(o)
              \/ PopFront(o)

Next == \/ \E o \in Objects : Construction(o) \/ BackOp(o) \/ FrontOp(o) \/ Clear(o) \/ PushAfterMove(o)
        \/ \E n \in 1..MaxLen : ConstructThrows(n)

Spec == Init /\ [][Next]_vars

-----------------------------------------------------------------------------
(* Correctness.                                                            *)

\* Whatever the history of pushes and pops at both ends, growth and
\* re-centring of the map, copies, moves and exceptions, a deque that is not
\* broken shows what a std::deque would: its size, its elements in order
\* through operator[] and through iterators that step or jump from either
\* end, and equality with other deques.
ActsAsDeque ==
  \A o \in Usable :
    LET st == State(o)
        d == obj[o]
        s == model[o]
    IN /\ Size(d) = Len(s)
       /\ Empty(d) <=> s = <<>>
       /\ Contents(st) = s
       /\ \A i \in 1..Len(s) : /\ Element(st, Plus(d.start, i - 1)) = s[i]
                               /\ Element(st, Plus(d.finish, i - 1 - Len(s))) = s[i]
                               /\ Less(Plus(d.start, i - 1), d.finish)
       /\ s # <<>> => Element(st, Decremented(d.finish)) = s[Len(s)]
       /\ \A x \in Usable : Equal(st, State(x)) <=> s = model[x]

\* One sequence is a prefix, or a suffix, of the other.
Begins(s, t) == Len(s) <= Len(t) /\ \A i \in 1..Len(s) : t[i] = s[i]
Finishes(s, t) == Len(s) <= Len(t) /\ \A i \in 1..Len(s) : t[Len(t) - Len(s) + i] = s[i]

\* "Elements never relocate once constructed": a step that leaves a deque any
\* of its chunks (everything but assignment, swap and move) leaves every
\* element that stays in it at its address, whatever becomes of the map.
Placement(st) ==
  LET at == Positions(st.d) IN [i \in DOMAIN at |-> <<Address(st.d, at[i]), Element(st, at[i])>>]
ElementsStay ==
  [][\A o \in Alive \cap Alive' :
       LET before == Placement(State(o))
           after == Placement(State(o)')
       IN \/ Owned(obj[o]) \cap Owned(obj'[o]) = {}
          \/ Begins(before, after) \/ Begins(after, before)
          \/ Finishes(before, after) \/ Finishes(after, before)]_vars

\* Every chunk belongs to one deque, which will free it, or was left behind by
\* a throw; and the elements alive in a deque's chunks are those from start_
\* to finish_, so that each is destroyed exactly once.
ChunksExact ==
  /\ {c \in Chunks : mem[c] # None} = UNION {Owned(obj[o]) : o \in Alive}
  /\ \A o \in Alive : /\ \A x \in Alive \ {o} : Owned(obj[o]) \cap Owned(obj[x]) = {}
                      /\ Cardinality(Owned(obj[o])) = Cardinality(Nodes(obj[o]))
  /\ \A o \in Usable, c \in Chunks, j \in Offsets :
       c \in Owned(obj[o]) => (mem[c][j] # Raw <=> \E i \in Nodes(obj[o]) : obj[o].map[i] = c /\ j \in Ends(obj[o], i))
=============================================================================
