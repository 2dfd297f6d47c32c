------------------------------ MODULE HugePages ------------------------------
(***************************************************************************)
(* hpc::support::huge_page_alloc and huge_page_free (huge_pages.cpp, the   *)
(* Linux version), and arenas that sub-allocate from the regions, as the   *)
(* header asks callers to.  The kernel's page table is the set of mapped   *)
(* pages; mmap may place a mapping anywhere that is free and aligned, or   *)
(* fail.  Sizes are rounded at the width of size_t, and may wrap.          *)
(***************************************************************************)
EXTENDS Arena

CONSTANTS
  PageSize,     \* sysconf(_SC_PAGESIZE)
  HugeSizes,    \* what /proc/meminfo may say; 0 when it says nothing
  MapArea,      \* the pages that mmap may use
  Sizes,        \* the sizes that are asked for
  MaxRegions    \* bound: regions at a time

ASSUME PageAssumption ==
  /\ PageSize \in Nat \ {0} /\ \E i \in 0..(WordBits - 1) : PageSize = 2^i
  /\ \A hp \in HugeSizes \ {0} : /\ hp \in Nat /\ hp % PageSize = 0
                               /\ \E i \in 0..(WordBits - 1) : hp = 2^i
  /\ \A page \in MapArea : page \in Nat \ {0} /\ page % PageSize = 0
ASSUME SizeAssumption == Sizes \subseteq 0..(Space - 1)

\* The heap and the callers' buffers are not where mmap places regions, and
\* those are as far from the end of the address space.
ASSUME MapAreaAssumption ==
  /\ MapArea \cap (HeapBases \cup Buffers) = {}
  /\ \A page \in MapArea, n \in Requests, al \in Alignments : page + PageSize + n + al < Space

VARIABLES
  mapped,     \* the kernel's mapped pages
  regions     \* the huge_page_regions not yet freed, and history: the size asked for

hugeVars == <<arena, heap, blocks, mapped, regions>>

HugeInit == Init /\ mapped = {} /\ regions = {}

\* (size + unit - 1) & ~(unit - 1)
Rounded(size, unit) == LET n == (size + unit - 1) % Space IN n - (n % unit)

PagesOf(ptr, size) == {page \in MapArea : ptr - PageSize < page /\ page < ptr + size}

\* Where mmap can put size bytes; it refuses 0 bytes.
Places(size, unit) ==
  {ptr \in MapArea : /\ size > 0
                     /\ ptr % unit = 0
                     /\ \A i \in 0..(size \div PageSize - 1) : ptr + i * PageSize \in MapArea \ mapped}

\* mmap succeeds with pages of the given size.
Maps(ask, unit) ==
  \E ptr \in Places(Rounded(ask, unit), unit) :
    /\ mapped' = mapped \cup PagesOf(ptr, Rounded(ask, unit))
    /\ regions' = regions \cup {[ptr |-> ptr, size |-> Rounded(ask, unit), align |-> unit, asked |-> ask]}

\* linux_huge_page_size_bytes finds one of these; when it finds none it
\* returns 0, and huge pages are not tried.
LinuxHugePageSizes == HugeSizes \ {0}

\* huge_page_alloc: huge pages if their size is known and mmap has some, ...
AllocHuge(ask) ==
  /\ Cardinality(regions) < MaxRegions
  /\ \E hp \in LinuxHugePageSizes : Maps(ask, hp)
  /\ UNCHANGED <<arena, heap, blocks>>

\* ... else regular pages, ...
AllocRegular(ask) ==
  /\ Cardinality(regions) < MaxRegions
  /\ Maps(ask, PageSize)
  /\ UNCHANGED <<arena, heap, blocks>>

\* ... else {nullptr, 0, 0}: mmap may fail for reasons of its own.  The
\* caller's huge_page_free of it does nothing.
AllocFails(ask) ==
  /\ Cardinality(regions) < MaxRegions
  /\ UNCHANGED hugeVars

\* Slip: the region is unmapped by the size that was asked for.
BugHugePageFree(r) ==
  /\ r \in regions
  /\ \A a \in Alive : arena[a].begin # r.ptr
  /\ mapped' = mapped \ PagesOf(r.ptr, r.asked)
  /\ regions' = regions \ {r}
  /\ UNCHANGED <<arena, heap, blocks>>

\* huge_page_free, after the arena over the region is gone.
HugePageFree(r) ==
  /\ r \in regions
  /\ \A a \in Alive : arena[a].begin # r.ptr
  /\ mapped' = mapped \ PagesOf(r.ptr, r.size)
  /\ regions' = regions \ {r}
  /\ UNCHANGED <<arena, heap, blocks>>

\* An arena over a region.
ConstructOverRegion(a, r) ==
  /\ r \in regions
  /\ ConstructOver(a, r.ptr, r.size)
  /\ UNCHANGED <<mapped, regions>>

HugeNext ==
  \/ Next /\ UNCHANGED <<mapped, regions>>
  \/ \E ask \in Sizes : AllocHuge(ask) \/ AllocRegular(ask) \/ AllocFails(ask)
  \/ \E r \in regions : HugePageFree(r)
  \/ \E a \in Arenas, r \in regions : ConstructOverRegion(a, r)

HugeSpec == HugeInit /\ [][HugeNext]_hugeVars

-----------------------------------------------------------------------------
(* Correctness.                                                            *)

\* Every region has at least the bytes that were asked for, on pages that
\* are mapped for it alone, also when rounding the size wrapped on the way;
\* every mapped page will be unmapped by the free of one region; and an
\* arena over a region never hands out a byte that is not mapped.
RegionsMapped ==
  /\ mapped = UNION {PagesOf(r.ptr, r.size) : r \in regions}
  /\ \A r \in regions :
       /\ r.size >= r.asked /\ r.ptr % r.align = 0
       /\ \A q \in regions \ {r} : PagesOf(r.ptr, r.size) \cap PagesOf(q.ptr, q.size) = {}
  /\ \A a \in Alive : arena[a].begin \in MapArea =>
       \A x \in blocks[a] : PagesOf(x.lo, x.hi - x.lo) \subseteq mapped
=============================================================================
