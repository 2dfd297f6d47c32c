# A TLA+ verification of cpp-hpc-primitives

The library is a set of C++ building blocks for low-latency programs: two
lock-free rings, a spinlock, a ring in shared memory with an example publisher
and subscriber, five containers, and arena and pool allocators with variants
for NUMA nodes and huge pages. This directory holds TLA+ models of these parts, TLC configurations that check them on small
instances, and TLAPS proofs of the properties that matter most.

    tlc -workers 2 -config Mpmc.cfg MpmcRingMC     # a run
    tlapm MpmcRingProofs.tla                       # a proof

`PROJECT.json` lists the runs, the source lines behind every definition, the
hazards, the findings and the theorems.

## 1. Inventory

| part (source) | state | operations | what is hard |
|---|---|---|---|
| `mpmc_ring_buffer` (`core/mpmc_ring_buffer.hpp`) | `head_`, `tail_`, per-cell `sequence` and storage | `try_push`, `try_emplace`, `try_pop`, the batches | any number of threads; relaxed loads; weak CAS; plain accesses to cells; element types that throw |
| `spsc_ring_buffer` (`core/ring_buffer.hpp`) | `head_`, `tail_` (masked), storage | `try_push`, `try_pop`, batches, acquire/commit and acquire/release of slots | two threads; stale index loads; arithmetic of the full test; calls in two halves |
| `ttas_spinlock` (`core/ttas_spinlock.hpp`) | `flag_` | `lock`, `try_lock`, `unlock` | memory orders; progress under contention; growing backoff |
| `shm_spsc_ring_buffer`, `shm_region` (`ipc/shm_ring_buffer.*`) | a named segment: `capacity`, `head`, `tail`, slots, all plain integers | create, attach, unlink, `try_push`, `try_pop` | processes that start, attach, crash and restart in any order; plain accesses that nothing orders |
| `shm_publisher` (`examples/`) | its next message | push, on a full ring pop one and push again | it pops concurrently with the subscriber |
| `shm_subscriber.py` (`examples/`) | its mapping, a copy of the header, messages printed | open, map, map again, poll and print | it copies the header and the slot while the publisher moves them; it may attach too early |
| `queue` (`core/dynamic_queue.hpp`) | buffer, `cap_`, `mask_`, `head_`, `tail_` | push, pop, reserve, shrink, copy, move, swap, compare | wrapped relocation; buffer ownership; throwing elements; arguments that refer to own elements |
| `vector` (`core/vector.hpp`) | buffer, `size_`, `cap_` | push, insert, erase, resize, assign, copy, move, swap, compare | shifting loops; lifetimes; the same exceptions and own elements |
| `fixed_queue`, `fixed_stack` (`core/queue.hpp`, `core/stack.hpp`) | storage inside the object; `head_` and `tail_`, or `size_` | push, pop, copy, move, swap, compare | copies, moves and swaps element by element, stopped midway by a throw; a buffer with more slots than `Capacity` |
| `deque` (`core/deque.hpp`) | map of chunks, two iterators | as `std::deque` | map re-centred and grown at both ends; elements that must not move; iterator jumps across chunks; moved-from deques without a map |
| `fixed_pool`, `pool_allocator` | storage, free list inside the free blocks | `allocate`, `deallocate` | links live in memory that clients overwrite |
| `arena`, `arena_allocator` | region, `current_`, ownership | `allocate`, `reset`, moves | alignment of the address; the last bytes; who deletes the region |
| `numa_arena`, `numa_pool` | an arena, the node it is bound to; a pool beside it | construction, the arena's and the pool's calls | every failure of the platform is hidden |
| `huge_pages` (`src/huge_pages.cpp`) | none; the kernel's page table | `huge_page_alloc`, `huge_page_free` | two fallbacks; two roundings that wrap; the size to unmap |
| `cpu_topology`, `clock`, `cache_line`, `noncopyable` | none | platform queries, constants | (not modelled) |

Interactions. Producers and consumers meet only in the atomics and cells of
their ring. The publisher and subscriber processes meet in the segment that a
name refers to, and in the name itself, which an owner unlinks. The containers
are sequential; two objects of one type meet in copies, moves and swaps, and in
the heap. An arena may be laid over a region of huge pages, whose owner frees
it after the arena. `numa_pool` holds a `numa_arena` and a `fixed_pool` side by side; the
pool does not take its blocks from the arena.

What makes each part correct:

* a ring is a bounded FIFO; a cell is touched by one thread at a time, an
  element is constructed in raw storage and destroyed once; a `false` means
  what it says; an element that was accepted comes out;
* a lock excludes, publishes the holder's writes, and does not hang;
* a container shows what its std counterpart would, and every element and
  buffer has exactly one owner;
* an allocator hands out disjoint, aligned blocks and gets all of them back.

## 2. Modules

| module | models | how state and actions correspond to the code |
|---|---|---|
| `BoundedFifo` | what a ring promises | accept at the back, hand the front over, return it |
| `PowerOfTwo`, `Arithmetic` | ring sizes; facts about `x % Capacity`, about loops and about induction | lemmas only, proved |
| `MpmcRing` (`MpmcRingMC`, `MpmcRingProofs`) | `mpmc_ring_buffer` | one action per atomic access; `pc` and `pos` are a thread's place and its local ticket; `args`, `want` what is left of a batch; `log`, `pushLost`, `popLost` are history |
| `SpscRing` (`…MC`, `SynchronizationProofs`) | `spsc_ring_buffer` and its client | `ppc`, `cpc` are the two threads' places; `pSeen`, `cSeen` how much of the other side's progress each has observed |
| `TtasSpinlock` (`…MC`, `SynchronizationProofs`) | `ttas_spinlock` around a plain counter | `mem` is the counter's writes in order, `view[t]` the last one that happens before t's next step; release stores publish a view, acquire CASes take it over |
| `ShmRing` (`…MC`, `MemoryProofs`) | `shm_region`, `shm_spsc_ring_buffer`, the publisher's loop, the Python subscriber | one action per plain access; `name` is what the file system knows, `seg[p]` what process p has mapped, `peek[p]` a Python subscriber's locals; `use` fixes which processes take part and how |
| `DynamicQueue` (`…MC`, `…Proofs`) | `queue` | one action per member; `mem` is the heap, shared by the objects; `model` is what a `std::queue` would hold |
| `Vector` (`…MC`, `…Proofs`) | `vector` | one action per member, with its shifting loops; `model` is what a `std::vector` would hold |
| `Deque` (`…MC`, `…Proofs`) | `deque` | one action per member; `obj[o]` has the map and the iterators `start` and `finish`, a node of the map and an offset each; `mem` is the heap of chunks; `model` is what a `std::deque` would hold |
| `FixedContainers` (`…MC`, `…Proofs`) | `fixed_queue`, `fixed_stack` | `kind` says which class; the definitions `Queue...` and `Stack...` are the code that differs; a stack's `size_` is `tail` |
| `BlockAllocator` | what a pool promises | grant a block nobody holds, take it back |
| `FixedPool` (`…MC`, `MemoryProofs`) | `fixed_pool`, `pool_allocator` | `word` is the first word of each block, which the holder overwrites |
| `NumaPool` | `numa_arena`'s constructor, `numa_pool` | extends `FixedPool`, whose calls it forwards; `node` is `node_`, `bound` what the kernel did |
| `Arena` (`…MC`, `MemoryProofs`) | `arena`, `arena_allocator` | regions at concrete addresses; `blocks` is what was handed out |
| `HugePages` | `huge_page_alloc`, `huge_page_free`, and arenas over their regions | extends `Arena`; `mapped` is the kernel's page table, `regions` what callers hold |

Definitions named `Bug...` are the slips that the checks must notice: for each
property of a passing run, `PROJECT.json` names one such definition that breaks
the property when it takes the place of the faithful one.

**Memory.** A relaxed or acquire load in `MpmcRing`, `SpscRing` and
`TtasSpinlock` may return any value that the atomic had so far (`StaleThreads`, `StaleLoads`, `StaleTests`),
in `SpscRing` none older than what the thread saw before. That is weaker than
any C++ execution, since it ignores happens-before for the loads of indices,
so what holds here holds there. A compare-exchange sees the latest value.
Plain accesses are guarded by the properties `SlotExclusive`, `SlotHandover`
and `HolderSeesAll`: as long as these hold, there is no race and the order of
plain accesses is immaterial. `ShmRing` has no atomics at all: `use.ordered`
says whether its plain accesses are seen in program order, or an index may be
stored before the slot is written or read, which both compiler and processor
may do. In order, an orderly use is a FIFO; out of order, `WrongByLapOnly`
says how wrong a message can be: it is the right one or the one that was in its
slot one lap before, never a later one and never one of another slot.

**Exceptions.** Element constructors and moves may throw at every place where
the code runs one. In the rings the model follows the exception. In the
containers some throws leave the object with destroyed elements inside its
bounds, or a buffer or chunk that nobody owns: the model takes the step, notes
the object in `broken` or the memory in `leaked` or `leaks`, and does not use the object any
more. The properties say what holds for all the others, and so also which
throws are harmless.

## 3. Runs

| run | instance | what it shows |
|---|---|---|
| `mpmc` | 2 producers, 2 consumers, 2 cells, one thread of each kind in batches of 2 and with stale loads, the other single and current, spurious CAS failures, throwing elements, up to 3 tickets, fairness (99 k states) | `IInv` of the proofs; `SlotExclusive`: cells are never shared; `SlotLifetime`: construction in raw storage, pops from the own ticket; `ThrowBlocksRing`: a ticket lost to an exception is never passed; `ImplementsFifo`: the ring refines `BoundedFifo`; `PushRejectionJustified`, `PopRejectionJustified`: the exact meaning of `false`; `EveryElementPopped` |
| `spsc` | 4 slots, 2 values, batches of up to 2, up to 6 pushes, stale loads, both kinds of client, fairness | for a paced client `SlotHandover`, `SlotLifetime`, `ImplementsFifo`, `EveryElementPopped`; for every client `PushRejection`: a paced push is accepted, and the full test fires only while the consumer is at slot 0 |
| `spsc_overfill` | as above, up to 8 pushes | **violation** of `NeverOverfilled`, section 6 |
| `ttas` | 3 threads, 4 counter writes, stale tests, fairness | `LockInv` of the proofs, `MutualExclusion`, `HolderSeesAll`, `NoLostUpdate`, `LockProgress` |
| `shm` | 1 publisher, 1 C++ or Python subscriber, 3 slots, 4 messages per publisher run, 3 process starts, 2 prints, fairness; five ways of use: orderly, orderly with reordered accesses, the example's publisher with the Python subscriber, and each kind of subscriber with starts, exits and kills in any order | `IndicesInRange` whatever happens; in orderly use `ImplementsFifo`, `EveryMessageReceived`; with reordering `WrongByLapOnly`; for the Python subscriber `PrintedIsFresh`, `ReaderPrints` |
| `shm_drop` | the example's publisher, 8 messages | **violation** of `InOrder`, section 6 |
| `dynqueue` | 2 queues, up to 4 elements, 3 buffers, 1 leak, trivial and other elements | `ActsAsQueue`, equality included; `LifetimesExact`; `BuffersOwned`: no buffer is dangling, shared or leaked |
| `vector` | 2 vectors, up to 4 elements of 2 values, trivial and other elements | `ActsAsVector`, equality included; `LifetimesExact` |
| `deque` | 2 deques, chunks of 2 elements, maps of 3 entries or more, up to 3 elements, 1 fault; symmetry (168 k states) | `ActsAsDeque`, through stepping and jumping iterators; `ChunksExact`: each chunk has one owner, elements live from `start_` to `finish_`; `ElementsStay`: no element changes its address |
| `fixed_containers` | 2 queues or 2 stacks, capacity 2 and 3, 2 values, trivial and other elements; symmetry | `ActsAsContainer`, `LifetimesExact` |
| `fixed_pool` | 4 blocks, every outcome of the NUMA binding | `PoolInv`, and `ImplementsAllocator`: the pool refines `BlockAllocator` |
| `arena` | 2 arenas over heap regions, a caller's buffer of 8 bytes at an odd address, and up to 2 regions in 4 pages; symmetry (465 k states) | `BlocksSound`, `RegionsOwned`, `RefusalJustified`; `RegionsMapped`: a region has what was asked for, every page is mapped for one region and unmapped with it |

**Bounds.** Two cells are the smallest ring the constructor makes, and the one
in which a lap is shortest: the third ticket reuses the first cell, and a
thread can sleep through that lap with an old ticket. Two threads of each
kind give every pair a conflict; what these bounds leave open for the safety
properties the proofs close. Four slots and six pushes let the masked indices
of the SPSC ring wrap with an element in flight. Three slots and four messages
make the shared ring full, wrap it and reuse a slot, so that a message can be
one lap wrong; three starts allow the crash and restart of either process. Four
elements are enough for wrapped buffers of every size up to 8 and for a growth
in each position; three buffers are two queues and the one being allocated. In
the deque, three elements in chunks of two span up to three chunks, start at
every offset, and wander to both ends of the map. `MinMap` is 3 where the code
has 8, so that maps are re-centred and grown within a few pushes; with maps
this small the nodes moved by one re-centring do not overlap the places they
leave. A fixed queue of capacity 2 has four slots, one of capacity 3 has its
four slots full but one: the two ways in which `Capacity` and the buffer can
differ. Four blocks show every order of a free list. In the arena, 8 bytes
allow several blocks with alignments 1 and 4 and an exact fit at the end. Of
the sizes asked of `huge_page_alloc`, 1 and 7 round differently to pages of 4
and of 8 bytes, and 61 wraps to 0 in a word of 6 bits, as 0 does.

`CHECK_DEADLOCK FALSE` is set where the instance may stop: all counter writes
used up (`ttas`), all starts used up (`shm`), the containers when all objects
are broken or the small heap is leaked full (`dynqueue`, `vector`, `deque`,
`fixed_containers`).

**Fairness.** `MpmcRing`: a thread inside a call keeps running, consumers keep
polling as the tests' loops do, and a weak CAS on an index that does not change
does not fail for ever (strong fairness of the claim: the standard allows
spurious failures and no implementation produces them without end). Producers
need not call. `SpscRing`: the consumer keeps running and calling `try_pop`, a
store of `tail_` becomes visible to it some time, and a move assignment does
not throw for ever. `TtasSpinlock`: threads inside `lock()` and inside the
critical section keep running, and the `unlock` store becomes visible to the
test. Starvation of a single thread is possible and not excluded.
`ShmRing`: a subscriber, in C++ or Python, that has the ring keeps polling it.

## 4. Proofs

TLAPS proves for every value of the constants (any number of threads,
processes or objects, any capacity, any batch length, with stale loads and
exceptions):

| module | theorems |
|---|---|
| `MpmcRingProofs` | `TypeCorrect`, `IInvCorrect`, `SlotExclusiveCorrect`, `SlotLifetimeCorrect`, `NeverOverfilledCorrect`, `ThrowBlocksRingCorrect`; `PushRejectionCorrect`, `PopRejectionCorrect`: what `false` means, as action properties; `FifoCorrect`: the ring implements `BoundedFifo` |
| `SynchronizationProofs` | of the SPSC ring: `IInvCorrect`, `SlotHandoverCorrect`, `SlotLifetimeCorrect`, `PushRejectionCorrect`, `FifoCorrect`; of the spinlock: `LockInvCorrect`, `MutualExclusionCorrect`, `HolderSeesAllCorrect`, `NoLostUpdateCorrect` |
| `DynamicQueueProofs` | `IInvCorrect`, `ActsAsQueueCorrect`, `LifetimesExactCorrect`, `BuffersOwnedCorrect` |
| `VectorProofs` | `IInvCorrect`, `ActsAsVectorCorrect`, `LifetimesExactCorrect` |
| `FixedContainersProofs` | `IInvCorrect`, `ActsAsContainerCorrect`, `LifetimesExactCorrect` |
| `DequeProofs` | `IInvCorrect`, `ActsAsDequeCorrect`, `ChunksExactCorrect`; `ElementsStayCorrect`, an action property |
| `MemoryProofs` | of the shared ring: `IndicesInRangeCorrect` for any processes, `WrongByLapCorrect` and `FifoCorrect` for one publisher and one C++ subscriber, `PrintedIsFreshCorrect` for one publisher and any number of Python subscribers; of the pool: `PoolInvCorrect`; `AllocatorCorrect`: it implements `BlockAllocator`; `NumaAllocatorCorrect`: so does a `numa_pool`, whatever its arena's constructor met; of `HugeSpec`, arenas and huge pages together: `IInvCorrect`, `BlocksSoundCorrect`, `RegionsOwnedCorrect`, `RefusalCorrect`, `RegionsMappedCorrect` |
| `Arithmetic` | lemmas on `x % Capacity` and laps, used by all rings; what a loop computes, used by the containers |

**Assumptions.** They are the named `ASSUME`s of the modules, and TLC evaluates
them in the runs. Sets of threads are disjoint; `Raw` and `None`, which stand
for no element and no object, are none; bounds are natural numbers. A requested
capacity has a power of two that reaches it, and a word has room for twice the
SPSC ring's storage. A shared ring has at least one slot. Arena requests and
regions stay clear of the end of the address space (section 7), alignments and
page sizes are powers of two, huge pages are multiples of pages, and `mmap`
places regions where neither the heap nor a caller's buffer is. `Dead`, the mark of a destroyed element that was read, is no value of a vector,
and the marks of dead and damaged slots are no values of a fixed container, whose
capacity is at least 1 and has a power of two above it.
A deque's chunk size, the least size of its map and the number of values are at
least 1, and `None` is no chunk and no state of a deque.
The number of blocks of a pool is a natural number, and `Null` is no block. The queues'
`GrowthAssumption` says that sizes which `push` and `reserve` compute for up to
`MaxLen` elements do not overflow. `WrongByLapCorrect` and `FifoCorrect` of the
shared ring assume `OnePair`, one publisher and one subscriber, since the ring
is documented for two processes; `PrintedIsFreshCorrect` assumes
`OnePublisher`, and lets that publisher drop messages.

**MPMC.** That cells are exclusive is not inductive: it says nothing about the
sequence counters that make it so. `IInv` adds what they mean. `CellsInv`: each
cell is either free for the ticket its sequence names or full with the element
of the ticket before, and `head_`, `tail_` are within one lap of that ticket.
`PushOwnersInv`, `PopOwnersInv`: a thread that won a ticket finds exactly that
sequence in its cell, and owners have distinct tickets. `CasInv`: what a thread
saw before its compare-exchange can only have grown, so a CAS that succeeds on
`tail_ = pos` meets the very sequence it has seen; this is where the stale
loads are absorbed. `LostInv`: cells whose element threw are frozen. The
arithmetic (two tickets of the same cell within one lap are equal) is in
`Arithmetic`, and is the only place where `%` is reasoned about. The two
rejections need `TicketsInv` as well: the ticket of a thread that looks at a
cell is not ahead of the index; with current loads the cell then says that the
ring is full or empty, or whose call on it is not finished. The refinement maps
the window of the log from `head_` to `tail_` to the abstract queue; each step
that moves an index is one abstract step, and all others stutter.

**SPSC.** The masked indices forget the laps, so `IInv` counts in the logs:
`IndexInv` says that `head_` and `tail_` are the masked counts of pops and
pushes, and that each side's view of the other is behind it. `PaceInv` is the
client's part: what is pushed or under way is within `capacity()` of the pops
the producer has *seen*. From both follows `DataInv`, the contents of all slots:
those from `pops` to `pushes` hold the log, all others are raw. For the client
that relies on the full test only the first part holds, which is enough for
`PushRejection` and shows where the finding `spsc_overfill` comes from.

**Spinlock.** `LockInv` relates a free flag to the view published by the last
`unlock` (`~flag => released = Len(mem)`), which is what makes the next
holder's view complete.

**Shared ring.** `BaseInv` ties each label to what a process has mapped and
read, and bounds all indices by the capacity; it survives every crash, reset
and drop, since each store is of a value that was reduced modulo the capacity.
For one pair, `PlainInv` says that the last reset precedes the first push, that
`tail` and `head` are the counts of messages pushed and received, modulo the
capacity, and which lap each slot has been written in. With accesses in order
the publisher has written as much as it has published; out of order, one slot
less or more, and the slot that the full test keeps free is the margin that
keeps it off the slot the subscriber reads. For the Python subscriber,
`WatchInv` says that the ring is filled from slot 0, so that a slot between any
`head` and `tail` seen holds a message, and that what replaces a message is
newer than it: a slot chosen with an old `head` has become newer, never older.

**Queue.** That a queue shows the right contents says nothing about the slots
outside of them. `Holds` says what every slot of a buffer contains, counted
from `head_`: the elements, at least one free slot, and `Raw` in all others;
`OwnInv` that a buffer is allocated exactly when an object owns it or a throw
has leaked it, and that no two objects own the same. Growth is one lemma
(`RelocatedFact`: the two runs of a wrapped ring land in order from slot 0), and
so is each of push, pop, clear and copy; the actions compose them, with
`OwnStep`, `ExchangeStep` and `LeakStep` for what happens to the owners. Copies
and contents are functions on the slots here, not folds, and need no induction.

**Vector.** `Holds` says that a vector's buffer is the canonical one of its
elements: they stand in the first `size_` slots, and every slot behind them is
raw. No action keeps this in one step, since the members are loops that leave
the buffer in pieces while they run. Each loop is a recursive function of the
number of turns it has made, and is compared with a closed form of the buffer
after k turns (`Filled`, `Moved`, `ShiftedRight`, `ShiftedLeft`): both start
alike and take the same step, and `LoopUnique` says that they then agree after
every turn. What `ensure_space` doubles to is found in the same way
(`DoubledFact`), and construction from a range, a loop of `push_back`, by
`LoopExists`. The actions compose these facts; insertion is a gap opened by
`ShiftRight` and filled, erasure a gap closed by `ShiftLeft`.

**Fixed containers.** `Holds` says that an object is the one canonical object
(`Item`) of its elements s and some `head_`: slot i contains element `Dist + 1`,
where `Dist` is how far i is from `head_`, if there are so many, and is `Dead`
if not; `tail_` is `head_` and `Len(s)` slots on. A stack is the same with
`head_` 0. `At` and `Dist` undo each other, and `size()`, the slot of the j-th
element and `advance` are expressed by them, so that `%` is met in three lemmas
only. The loops of `clear`, copy and move are compared with closed forms after k
turns, as for the vector; a copy that stops after k elements is then a queue of
the first k (`PartlyFact`), which is why a throw leaves a queue valid, and a
stack, which counts at the end, only for k = 0. Each throwing action either puts
its objects in `broken` or is shown to leave some canonical object (`Valid`).

**Deque.** A deque's elements are seen as standing at consecutive numbered
*places*: place p is offset `p % ChunkElems` of the chunk at node
`p \div ChunkElems` of the map. `start_` and `finish_` are the places A and
A + n, `++`, `--` and jumps of any length add to a place, and so quotients and
negative offsets are met in a few lemmas at the beginning. `Holds` says that
there is such an A: the map has different chunks at the nodes from A to A + n
and nothing elsewhere, and each slot of these chunks holds the element of its
place, or none. This is more than the properties say, and has to be: the slots
that are *not* between `start_` and `finish_` are the next to be used.
The rest of `IInv` is about the heap: `Shares` says that the chunks in use are
shared out among the objects, broken ones included, whose shape `Shaped` keeps.
Each helper of the code has a lemma that says what it makes of the places, and
which chunks it takes and gives back (`Change`); a re-centred or grown map
moves A by whole chunks (`Remapped`), so that each place keeps its spot, a
chunk and an offset. `OneStep` then frames the other deques, whose chunks are
others; `SoundOne` and `SoundSwap` do the same for the actions on two objects.
The loops (construction from n elements, repeated `push_back` and `pop_back`)
are compared with closed forms. `ElementsStay` follows from the spots that each
lemma keeps.

**Loops and induction.** The prover cannot instantiate the library's induction
rules, whose parameter is an operator. `SetInduction` states the rule for a *set*
of numbers (a set that contains 0, and n + 1 with each n, contains every natural
number), proved from the least element of its complement, and so can be used;
`LoopUnique`, `LoopExists` and, for loops whose every stage has a property,
`LoopStages` follow from it. They serve where a loop is a recursive function.

**Pool.** The free list is a chain of links in memory that clients overwrite.
`PoolInv` gives the list a witness, `place`, the height of each free block in it,
and says that links along it are exact, that it has no repetition and that it
is disjoint from what clients hold. The refinement maps the granted blocks.

**Arena and huge pages.** `Sound` says of an arena that its blocks are aligned,
disjoint and below the bump pointer, which is inside the region, and that the
region is clear of the end of the address space, so that rounding a pointer up
does not wrap. The rounding lemmas say of `AlignPtr` that the result is the
least multiple not below its argument; "least" gives `RefusalJustified`.
`MapInv` says that the mapped pages are those of the regions, each page of one
region, and covers the two page sizes and the rounding that wraps to 0; `OverInv`
that an arena over mapped memory covers one region that is still held.

TLC checked the inductive invariants before they were proved: `IInv` of the MPMC
ring, `LockInv` and `PoolInv` in the runs above, the others, but for typing
facts that it cannot evaluate, on the instances of their runs.

**Only model-checked.** Liveness (`EveryElementPopped`, `LockProgress`,
`EveryMessageReceived`, `ReaderPrints`) rests on fairness and `ENABLED`, which
the prover does not handle. Every safety property of the passing runs is proved.

## 5. Hazards

`PROJECT.json` lists them with their lines. In short: two threads in one cell;
a stale ticket one lap old; a publication that overtakes its element; a throw
between claim and publication; masked indices compared without a mask; an
attacher that resets a ring in use; a publisher that pops; a crash between open
and unlink; a relocation of a wrapped queue; a reference to an element that
moves; a map of chunks re-centred under its iterators; a header copied while it
changes; a list threaded through memory that others own; the last bytes of a
region; a size whose rounding wraps.

Three have no property: what `approximate_size` of the MPMC ring may return, of
which nothing is promised; the byte-wise equality of vectors, which needs
elements whose `==` is not equality of bytes; and a subscriber that attaches
before the publisher's constructor is done, whose faults the model takes as
steps and no text rules out.

Other hazards are covered in part, and their notes in `PROJECT.json` say what is
left. A call that destroys a container's consistency, through an element that
throws or an argument that moved away, puts the container into `broken`: the
properties then say which throws and arguments are harmless, and that nothing
else is disturbed. After a reset or a restart of the shared ring
`IndicesInRange` says that every index stays inside the slots; which messages
the reset loses is not the ring's promise.

## 6. Findings

* `spsc_overfill`. `distance()` masks with `~0`, that is, not at all. With
  `tail_` wrapped below `head_` the difference is near 2^64 and never equals
  `capacity()`, so `try_push` accepts into a full ring: elements are
  overwritten, and a full ring turns into one that looks empty. The test works
  only while the consumer is at slot 0 (`PushRejection`), which is why a
  fill of a fresh ring passes. A client that paces itself is served correctly.
* `shm_drop`. The publisher drops the oldest message by calling `try_pop`. In
  the run's counterexample it loads `head` = 0, the subscriber pops the first
  two messages, and the publisher's late store of `head` = 1 takes the
  subscriber back: the second message is received twice. The ring is documented
  as single-producer single-consumer, and the publisher is a second consumer.

Met while modelling, and part of the models without a run of their own:

* every process that attaches to a shared ring, not only the creator, stores
  `head = tail = 0`: messages that wait are lost, and a running publisher is
  thrown back;
* `vector::insert(pos, v[i])` reads `v[i]` after it was relocated or shifted
  (`InsertOwn`): for trivially copyable elements the wrong element is inserted,
  for others a destroyed one is copied. `std::vector` allows the call, and the
  header promises a "drop-in replacement";
* `queue::push(front())`, `vector::push_back(v[i])` and `vector::resize(n, v[i])`
  read freed storage when the container grows (`PushOwnFrontGrowing`, `PushOwn`,
  `ResizeOwn`);
* `vector::push_back` increments `size_` before it constructs: a throwing
  constructor leaves a vector whose destructor destroys an element that never
  lived (`PushThrows`); the same for elements that throw in the middle of
  `insert`, `erase`, `resize`, `assign` and relocation, in `queue::grow_to`, and
  the queue's copy and `initializer_list` constructors leak their buffers
  (`CopyThrows`, `ListThrows`);
* `fixed_stack` has the same habit: `size_` moves before the element is
  constructed or moved out, and is set last in assignments and `swap`, so that a
  throw leaves elements that are counted and dead, or alive and not counted
  (`StackPushThrows`, `StackPopThrows`, `AssignThrows`, `StackTailThrows`).
  `fixed_queue` moves its indices last and keeps valid contents through every
  throw outside a constructor. A constructor that throws, the one that finds
  its `initializer_list` too long included, destroys nothing;
* `deque` moves `start_` before it constructs in `push_front_aux`, so that a
  throw counts an element that never lived (`PushFrontThrows`); `push_back_aux`
  and every constructor leak their chunks (`PushBackThrows`,
  `ConstructThrows`). A moved-from deque has no map, and a push on it writes
  through a null pointer (`PushAfterMove`), where a `std::deque` may be used
  again;
* the Python subscriber never stores `head`: it prints the oldest message again
  until the publisher drops it, and what it prints is never older than the ring
  was when it looked (`PrintedIsFresh`). Attached too early it ends with an
  exception, divides by a capacity of 0 (`DivisionByZero`), or has mapped no
  slots and finds each of them short for ever (`Fetch`); and it stays with a
  segment whose name was unlinked;
* `numa_arena` sets `node_` without looking at the result of `mbind`, and
  `numa_pool` takes its blocks from a `fixed_pool` of its own and not from the
  bound memory (`NumaArena`, `NumaPool`);
* "the queue is full" and "queue is empty" in the comments of the MPMC ring are
  weaker than they sound: `try_push` may fail on a ring that `empty()` reports
  empty, while a consumer is between its claim and its release, and `try_pop`
  may fail although a later push is complete. `PushRejectionJustified` and
  `PopRejectionJustified` say exactly when;
* `docs/shm_ipc_design.md` speaks of a power-of-two capacity and a mask; the
  code takes any capacity and uses `%`.

## 7. Not modelled

* Destructors of rings that are not empty; their contract is a drained ring.
* Wrap-around of tickets at 2^64, and overflow of the signed difference of a
  sequence and a ticket: no execution gets there.
* In the shared ring: reordering of accesses across calls; torn copies of a
  message; failing `ftruncate` and `mmap` calls; header fields that Python's
  copy would read in another order. Garbage read after racing resets is read as
  the slot's last value. An attacher that comes before `ftruncate` faults
  (`BusError`), and nothing says it may not come then.
* `approximate_size` of the MPMC ring, an observer that decides nothing.
* The exception of an owner whose segment is unlinked between its two calls of
  `shm_open`: the process ends without having changed anything (`Kill`).
* `pool_allocator::allocate(n)` with `n` other than 1, which throws and does
  nothing else.
* A shared ring of capacity 1 (always full) or 0 (`% 0`).
* Double frees into the pool, blocks of other pools, and the alignment of
  blocks whose size is no multiple of the node's: the caller's contract.
* Arena requests near the size of the address space, where
  `current_ + padding + bytes` is undefined.
* Byte-wise equality of trivially copyable elements whose `==` is not equality
  of bytes; orderings (`<`) of containers; the range checks of `at()`; the
  iterators of the vector, which are pointers.
* The Windows branch of `huge_pages.cpp`, which has the same shape; topology and
  clock, which are queries of the platform; constants and a base class.

## 8. Plan

Done: the concurrent core with its proofs, the shared ring with both kinds of
subscriber, the queues, stack, vector and deque, pool and arena with their NUMA
and huge-page variants. The proofs cover every safety property, invariant,
action property or refinement, that a passing run checks.

Left: the liveness properties stay with TLC and its small instances. What
section 7 lists could be added where a use of the library comes to depend on it.
