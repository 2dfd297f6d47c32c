------------------------------ MODULE FixedPool ------------------------------
(***************************************************************************)
(* hpc::core::fixed_pool and pool_allocator: equal blocks on a free list   *)
(* that is threaded through the first word of the free blocks.  A client   *)
(* overwrites that word as soon as it has the block, so that one block on  *)
(* the list too many, or one read of a word too late, breaks the pool.     *)
(* The pool is not synchronised: every call is one action.                 *)
(***************************************************************************)
EXTENDS Integers

CONSTANTS
  Count,    \* element_count_
  Null      \* nullptr

ASSUME CountAssumption == Count \in Nat
ASSUME NullAssumption == Null \notin Int

Blocks == 0..(Count - 1)
Words == Blocks \cup {Null}

VARIABLES
  freeList,   \* free_list_
  word,       \* the first word of each block: node::next, or the client's data
  held,       \* history: the blocks that clients have
  ret,        \* history: what the latest allocate returned
  place       \* history: height of each block in the list, 0 for held ones

poolVars == <<freeList, word, held, ret, place>>

\* The constructor chains the blocks, the last one first.
PoolInit == /\ freeList = IF Count = 0 THEN Null ELSE Count - 1
            /\ word = [b \in Blocks |-> IF b = 0 THEN Null ELSE b - 1]
            /\ held = {}
            /\ ret = Null
            /\ place = [b \in Blocks |-> b + 1]

\* Slip: the list is popped after the block is handed over, by then with
\* the client's word.
BugAllocate == /\ freeList # Null
               /\ freeList' \in Words
               /\ held' = held \cup {freeList}
               /\ ret' = freeList
               /\ place' = [place EXCEPT ![freeList] = 0]
               /\ UNCHANGED word

\* allocate with a free block.
PoolAllocate == /\ freeList # Null
                /\ freeList' = word[freeList]
                /\ held' = held \cup {freeList}
                /\ ret' = freeList
                /\ place' = [place EXCEPT ![freeList] = 0]
                /\ UNCHANGED word

\* allocate returns nullptr, and pool_allocator throws bad_alloc.  It throws too
\* when asked for another number of objects than one; it has done nothing then,
\* not even asked the pool, and that is no step here.
PoolAllocateFails == /\ freeList = Null
                     /\ ret' = Null
                     /\ UNCHANGED <<freeList, word, held, place>>

\* Slip: the block is not linked to the rest of the list.
BugDeallocate(b) == /\ b \in held
                    /\ freeList' = b
                    /\ held' = held \ {b}
                    /\ place' = [place EXCEPT ![b] = IF freeList = Null THEN 1 ELSE place[freeList] + 1]
                    /\ UNCHANGED <<word, ret>>

\* deallocate of a block that the client has.
Deallocate(b) == /\ b \in held
                 /\ word' = [word EXCEPT ![b] = freeList]
                 /\ freeList' = b
                 /\ held' = held \ {b}
                 /\ place' = [place EXCEPT ![b] = IF freeList = Null THEN 1 ELSE place[freeList] + 1]
                 /\ UNCHANGED ret

\* A client uses its block; its data may look like any pointer.
ClientWrites(b, w) == /\ b \in held
                      /\ word' = [word EXCEPT ![b] = w]
                      /\ UNCHANGED <<freeList, held, ret, place>>

PoolNext == \/ PoolAllocate
            \/ PoolAllocateFails
            \/ \E b \in Blocks : Deallocate(b)
            \/ \E b \in Blocks, w \in Words : ClientWrites(b, w)

PoolSpec == PoolInit /\ [][PoolNext]_poolVars

-----------------------------------------------------------------------------
(* Correctness.                                                            *)

PoolTypeOK == /\ freeList \in Words
              /\ word \in [Blocks -> Words]
              /\ held \subseteq Blocks
              /\ ret \in Words
              /\ place \in [Blocks -> Nat]

\* The list runs through the free blocks and no others, from the head down
\* to the block whose next is nullptr, and visits each of them once: no
\* block is lost, shared or on the list while a client writes to it.
FreeListExact ==
  /\ \A b \in Blocks : b \in held <=> place[b] = 0
  /\ \A b, c \in Blocks \ held : place[b] = place[c] => b = c
  /\ freeList = Null => held = Blocks
  /\ freeList # Null => /\ freeList \notin held
                        /\ \A b \in Blocks : place[b] <= place[freeList]
  /\ \A b \in Blocks \ held :
       IF place[b] = 1 THEN word[b] = Null
       ELSE /\ word[b] \in Blocks \ held
            /\ place[word[b]] = place[b] - 1

\* PoolTypeOK and FreeListExact are inductive together.
PoolInv == PoolTypeOK /\ FreeListExact

\* allocate hands every block to one client at a time and fails only when
\* all are out, whatever the clients write and in whatever order they return.
Allocator == INSTANCE BlockAllocator
ImplementsAllocator == Allocator!Spec
=============================================================================
