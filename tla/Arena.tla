-------------------------------- MODULE Arena --------------------------------
(***************************************************************************)
(* hpc::core::arena (arena_allocator.cpp): a bump pointer over one region, *)
(* its own or the caller's, with moves of the arena object.  Addresses are *)
(* integers of WordBits bits and 0 is nullptr; pointer arithmetic wraps.   *)
(* An arena is not synchronised: every call is one action.                 *)
(***************************************************************************)
EXTENDS Integers, FiniteSets

CONSTANTS
  Arenas,        \* the arena objects
  None,          \* no object
  WordBits,      \* bits of an address
  HeapBases,     \* where operator new may place a region
  Buffers,       \* the caller's buffers, as addresses
  RegionSize,    \* capacity_bytes
  Requests,      \* the bytes a client may ask for
  Alignments     \* the alignments a client may ask for

Space == 2^WordBits

\* The fields of an arena object.
Fields == [begin : Nat, end : Nat, ptr : Nat, cap : Nat, owns : BOOLEAN]

ASSUME WordAssumption == WordBits \in Nat /\ Space \in Nat \ {0} /\ RegionSize \in Nat
ASSUME NoneAssumption == None \notin Fields
ASSUME AddressAssumption == HeapBases \subseteq Nat \ {0} /\ Buffers \cup Requests \subseteq Nat
ASSUME AlignmentAssumption ==
  \A al \in Alignments : al \in Nat \ {0} /\ \E i \in 0..(WordBits - 1) : al = 2^i

\* Requests are far from the end of the address space, as a program's are.
ASSUME RequestAssumption ==
  \A base \in HeapBases \cup Buffers, n \in Requests, al \in Alignments :
    base + RegionSize + n + al < Space

VARIABLES
  arena,    \* the fields of each object
  heap,     \* history: bases of the regions that operator new gave out
  blocks    \* history: the blocks of each arena since its last reset

vars == <<arena, heap, blocks>>

NoRegion == [begin |-> 0, end |-> 0, ptr |-> 0, cap |-> 0, owns |-> FALSE]

Init == /\ arena = [a \in Arenas |-> None]
        /\ heap = {}
        /\ blocks = [a \in Arenas |-> {}]

Alive == {a \in Arenas : arena[a] # None}

\* Slip: the address is rounded down.
BugAlignPtr(p, al) == p - (p % al)

\* align_ptr: (addr + (alignment - 1)) & ~(alignment - 1).
AlignPtr(p, al) == LET q == (p + (al - 1)) % Space IN q - (q % al)

\* The heap after `if (owns_memory_ && begin_) operator delete(begin_)'.
Released(r) == IF r.owns /\ r.begin # 0 THEN heap \ {r.begin} ELSE heap

\* An arena over size bytes at base; base is 0 when operator new failed, and
\* end_ is then nullptr too unless the caller passed the null buffer.
Over(base, size, owns) == [begin |-> base,
                           end |-> IF base = 0 /\ owns THEN 0 ELSE base + size,
                           ptr |-> base, cap |-> size, owns |-> owns]

-----------------------------------------------------------------------------
\* arena(capacity_bytes); new (nothrow) may fail.
ConstructOwning(a) == /\ a \notin Alive
                      /\ \E base \in {0} \cup (HeapBases \ heap) :
                           /\ arena' = [arena EXCEPT ![a] = Over(base, RegionSize, TRUE)]
                           /\ heap' = heap \cup ({base} \ {0})
                      /\ UNCHANGED blocks

\* arena(buffer, capacity_bytes), with a buffer that no other arena uses.
ConstructOver(a, buffer, size) ==
  /\ a \notin Alive
  /\ \A o \in Alive : arena[o].begin # buffer \/ buffer = 0
  /\ arena' = [arena EXCEPT ![a] = Over(buffer, size, FALSE)]
  /\ UNCHANGED <<heap, blocks>>

\* arena(arena&&).
ConstructMove(a, other) == /\ a \notin Alive /\ other \in Alive
                           /\ arena' = [arena EXCEPT ![a] = arena[other], ![other] = NoRegion]
                           /\ blocks' = [blocks EXCEPT ![a] = blocks[other], ![other] = {}]
                           /\ UNCHANGED heap

\* Slip: the region that the target had is not deleted.
BugAssignMove(a, other) == /\ {a, other} \subseteq Alive /\ a # other
                           /\ arena' = [arena EXCEPT ![a] = arena[other], ![other] = NoRegion]
                           /\ blocks' = [blocks EXCEPT ![a] = blocks[other], ![other] = {}]
                           /\ UNCHANGED heap

\* operator=(arena&&).
AssignMove(a, other) == /\ {a, other} \subseteq Alive /\ a # other
                        /\ heap' = Released(arena[a])
                        /\ arena' = [arena EXCEPT ![a] = arena[other], ![other] = NoRegion]
                        /\ blocks' = [blocks EXCEPT ![a] = blocks[other], ![other] = {}]

\* ~arena.
Destruct(a) == /\ a \in Alive
               /\ heap' = Released(arena[a])
               /\ arena' = [arena EXCEPT ![a] = None]
               /\ blocks' = [blocks EXCEPT ![a] = {}]

\* Slip: a request that ends at end_ is refused.
BugFits(r, n, al) == r.begin # 0 /\ (AlignPtr(r.ptr, al) + n) % Space < r.end

\* The two tests of allocate.
Fits(r, n, al) == r.begin # 0 /\ (AlignPtr(r.ptr, al) + n) % Space <= r.end

\* allocate hands out a block; arena_allocator::deallocate does nothing.
Allocate(a, n, al) ==
  /\ a \in Alive /\ Fits(arena[a], n, al)
  /\ LET lo == AlignPtr(arena[a].ptr, al)
     IN /\ arena' = [arena EXCEPT ![a].ptr = (lo + n) % Space]
        /\ blocks' = [blocks EXCEPT ![a] = @ \cup {[lo |-> lo, hi |-> lo + n, alignment |-> al]}]
  /\ UNCHANGED heap

\* allocate returns nullptr, and arena_allocator throws bad_alloc.
AllocateFails(a, n, al) ==
  /\ a \in Alive /\ ~Fits(arena[a], n, al)
  /\ UNCHANGED vars

\* reset: the clients' blocks are void.
Reset(a) == /\ a \in Alive
            /\ arena' = [arena EXCEPT ![a].ptr = arena[a].begin]
            /\ blocks' = [blocks EXCEPT ![a] = {}]
            /\ UNCHANGED heap

Next == \E a \in Arenas :
  \/ ConstructOwning(a)
  \/ \E buffer \in Buffers : ConstructOver(a, buffer, RegionSize)
  \/ \E other \in Arenas : ConstructMove(a, other) \/ AssignMove(a, other)
  \/ Destruct(a)
  \/ \E n \in Requests, al \in Alignments : Allocate(a, n, al) \/ AllocateFails(a, n, al)
  \/ Reset(a)

Spec == Init /\ [][Next]_vars

-----------------------------------------------------------------------------
(* Correctness.                                                            *)

\* Blocks handed out since the last reset keep their alignment, lie inside
\* the region and do not overlap, also after the arena object was moved and
\* when the caller's buffer is not aligned itself.
BlocksSound ==
  \A a \in Alive : \A x \in blocks[a] :
    /\ x.lo % x.alignment = 0
    /\ arena[a].begin <= x.lo /\ x.hi <= arena[a].ptr /\ arena[a].ptr <= arena[a].end
    /\ \A y \in blocks[a] : x = y \/ x.hi <= y.lo \/ y.hi <= x.lo

\* Every region that operator new gave out has one arena that will delete
\* it, and no arena has a region that was deleted.
RegionsOwned ==
  LET owners == {a \in Alive : arena[a].owns /\ arena[a].begin # 0}
  IN /\ heap = {arena[a].begin : a \in owners}
     /\ \A a, b \in owners : arena[a].begin = arena[b].begin => a = b

\* allocate refuses only what does not fit: no aligned block of that size is
\* left between the blocks in use and the end of the region.
RefusalJustified ==
  \A a \in Alive, n \in Requests, al \in Alignments :
    arena[a].begin # 0 /\ ~Fits(arena[a], n, al) =>
      \A lo \in arena[a].ptr..(arena[a].end - n) : lo % al # 0
=============================================================================
