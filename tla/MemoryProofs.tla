---------------------------- MODULE MemoryProofs -----------------------------
(***************************************************************************)
(* The memory the library hands out, and the ring it keeps in shared       *)
(* memory.                                                                 *)
(*                                                                         *)
(* Safety of hpc::core::arena and of huge_page_alloc / huge_page_free, for *)
(* every region size, request, alignment, page size and number of arenas   *)
(* and regions, and of fixed_pool and numa_pool, for every number of       *)
(* blocks.                                                                 *)
(*                                                                         *)
(* Safety of shm_spsc_ring_buffer for every capacity and every number of   *)
(* processes, starts and messages: no index leaves the slots however the   *)
(* ring is used; and, for one publisher, what its C++ subscriber receives  *)
(* and what its Python subscribers print.                                  *)
(***************************************************************************)
EXTENDS HugePages, NumaPool, ShmRing, Arithmetic, FiniteSets, FiniteSetTheorems

\* No request computed from address e wraps.
Room(e) == \A n \in Requests, al \in Alignments : e + n + al < Space

Block == [lo : Nat, hi : Nat, alignment : Alignments]

TypeOK ==
  /\ arena \in [Arenas -> Fields \cup {None}]
  /\ blocks \in [Arenas -> SUBSET Block]

\* The fields r of an arena and its blocks bs: the blocks are aligned, apart
\* from each other and below the bump pointer, which is inside the region.
Sound(r, bs) ==
  /\ r.begin = 0 => bs = {}
  /\ r.begin # 0 => r.begin <= r.ptr /\ r.ptr <= r.end /\ Room(r.end)
  /\ r.owns => r.begin \in HeapBases \cup {0}
  /\ \A x \in bs : x.lo % x.alignment = 0 /\ r.begin <= x.lo /\ x.hi <= r.ptr
  /\ \A x, y \in bs : x = y \/ x.hi <= y.lo \/ y.hi <= x.lo

ArenasInv == \A a \in Arenas : IF a \in Alive THEN Sound(arena[a], blocks[a]) ELSE blocks[a] = {}

\* A mapped region.
Region(r) ==
  /\ r.ptr \in MapArea /\ r.size \in Nat \ {0} /\ r.asked \in Nat
  /\ r.size >= r.asked /\ r.ptr % r.align = 0
  /\ Room(r.ptr + r.size)

Pages(r) == PagesOf(r.ptr, r.size)

MapInv ==
  /\ \A r \in regions : Region(r)
  /\ mapped = UNION {Pages(r) : r \in regions}
  /\ \A r, q \in regions : r # q => Pages(r) \cap Pages(q) = {}

\* An arena with these fields, over mapped memory, is over one whole region.
Inside(f) == f.begin \in MapArea => \E r \in regions : f.begin = r.ptr /\ f.end = r.ptr + r.size
OverInv == \A a \in Alive : Inside(arena[a])

IInv == TypeOK /\ ArenasInv /\ RegionsOwned /\ MapInv /\ OverInv

-----------------------------------------------------------------------------
(* Rounding.                                                               *)

\* Multiples of u are u times something.
LEMMA Multiple ==
  ASSUME NEW u \in Nat, u >= 1, NEW x \in Nat, x % u = 0
  PROVE  x \div u \in Nat /\ x = u * (x \div u)
<1>1. x % u \in 0..(u - 1) /\ x \div u \in Nat /\ x = u * (x \div u) + (x % u)
  BY DivMod
<1> HIDE DEF Space
<1>2. u * (x \div u) \in Nat
  BY <1>1
<1> QED  BY <1>1, <1>2

\* x - (x % u) is the last multiple of u up to x.
LEMMA RoundDown ==
  ASSUME NEW u \in Nat, u >= 1, NEW x \in Nat
  PROVE  /\ x - (x % u) \in Nat /\ x - (x % u) <= x /\ x < (x - (x % u)) + u
         /\ (x - (x % u)) % u = 0
         /\ \A m \in Nat : m % u = 0 /\ m <= x => m <= x - (x % u)
<1> DEFINE a == x \div u
           r == x % u
<1>1. r \in 0..(u - 1) /\ a \in Nat /\ x = u * a + r
  BY DivMod
<1> HIDE DEF a, r
<1>2. u * a \in Nat /\ x - r = u * a /\ x - r <= x /\ x < (x - r) + u
  BY <1>1
<1>3. (u * a) % u = 0
  <2>1. 0 \in 0..(u - 1) /\ u * a + 0 = u * a
    BY <1>1, <1>2
  <2> QED  BY <1>1, <2>1, ModUnique
<1>4. ASSUME NEW m \in Nat, m % u = 0, m <= x  PROVE m <= u * a
  <2>1. PICK k \in Nat : m = u * k
    BY <1>4, Multiple
  <2>2. CASE k <= a
    <3>1. k = a \/ k < a
      BY <1>1, <2>2
    <3>2. k < a => u * k + u <= u * a
      BY <1>1, LapStep
    <3> QED  BY <1>1, <1>2, <2>1, <3>1, <3>2
  <2>3. CASE a < k
    <3>1. u * a + u <= u * k
      BY <1>1, <2>3, LapStep
    <3> QED  BY <1>1, <1>2, <1>4, <2>1, <3>1
  <2> QED  BY <1>1, <2>2, <2>3
<1> QED  BY <1>2, <1>3, <1>4 DEF r

\* align_ptr far from the end of the address space: the first multiple of the
\* alignment from p on, less than an alignment away.
LEMMA AlignPtrFact ==
  ASSUME NEW p \in Nat, NEW al \in Nat, al >= 1, p + al < Space
  PROVE  /\ AlignPtr(p, al) \in Nat /\ AlignPtr(p, al) % al = 0
         /\ p <= AlignPtr(p, al) /\ AlignPtr(p, al) < p + al
         /\ \A m \in Nat : m % al = 0 /\ p <= m => AlignPtr(p, al) <= m
<1>0. Space \in Nat /\ Space >= 1
  BY WordAssumption
<1> HIDE DEF Space
<1> DEFINE q == p + (al - 1)
           w == q - (q % al)
<1>1. q \in 0..(Space - 1)
  BY <1>0
<1>2. q % Space = q
  BY <1>0, <1>1, FirstLap
<1>3. AlignPtr(p, al) = w
  BY <1>2 DEF AlignPtr
<1>4. q \in Nat
  BY <1>1
<1>5. /\ w \in Nat /\ w <= q /\ q < w + al /\ w % al = 0
      /\ \A m \in Nat : m % al = 0 /\ m <= q => m <= w
  BY <1>4, RoundDown
<1>6. q = p + (al - 1)
  OBVIOUS
<1> HIDE DEF q, w
<1>7. p <= w /\ w < p + al
  BY <1>4, <1>5, <1>6
<1>8. ASSUME NEW m \in Nat, m % al = 0, p <= m  PROVE w <= m
  <2>1. PICK i \in Nat : m = al * i
    BY <1>8, Multiple
  <2>2. PICK j \in Nat : w = al * j
    BY <1>5, Multiple
  <2>3. i < j => al * i + al <= al * j
    BY LapStep
  <2>4. j <= i => w <= m
    <3>1. j < i => al * j + al <= al * i
      BY LapStep
    <3>2. al * i \in Nat /\ al * j \in Nat
      OBVIOUS
    <3> QED  BY <2>1, <2>2, <3>1, <3>2
  <2> QED  BY <1>5, <1>6, <1>7, <1>8, <2>1, <2>2, <2>3, <2>4
<1> QED  BY <1>3, <1>5, <1>7, <1>8

\* What allocate computes for an arena in good order: it fits exactly when it
\* ends in the region, and nothing wraps.
LEMMA FitsFact ==
  ASSUME NEW r \in Fields, NEW bs, Sound(r, bs), r.begin # 0, NEW n \in Requests, NEW al \in Alignments
  PROVE  /\ AlignPtr(r.ptr, al) \in Nat /\ AlignPtr(r.ptr, al) % al = 0 /\ r.ptr <= AlignPtr(r.ptr, al)
         /\ \A m \in Nat : m % al = 0 /\ r.ptr <= m => AlignPtr(r.ptr, al) <= m
         /\ Fits(r, n, al) <=> AlignPtr(r.ptr, al) + n <= r.end
         /\ AlignPtr(r.ptr, al) + n <= r.end => (AlignPtr(r.ptr, al) + n) % Space = AlignPtr(r.ptr, al) + n
<1>0. Space \in Nat /\ Space >= 1 /\ n \in Nat /\ al \in Nat /\ al >= 1
  BY WordAssumption, AddressAssumption, AlignmentAssumption
<1>1. r.ptr \in Nat /\ r.end \in Nat /\ r.ptr <= r.end /\ r.end + n + al < Space
  BY DEF Fields, Sound, Room
<1> HIDE DEF Space
<1> DEFINE lo == AlignPtr(r.ptr, al)
<1>2. /\ lo \in Nat /\ lo % al = 0 /\ r.ptr <= lo /\ lo < r.ptr + al
      /\ \A m \in Nat : m % al = 0 /\ r.ptr <= m => lo <= m
  BY <1>0, <1>1, AlignPtrFact
<1> HIDE DEF lo
<1>3. lo + n \in 0..(Space - 1)
  BY <1>0, <1>1, <1>2
<1>4. (lo + n) % Space = lo + n
  BY <1>0, <1>3, FirstLap
<1> QED  BY <1>2, <1>4 DEF Fits, lo

\* A multiple of a multiple.
LEMMA MultipleOfMultiple ==
  ASSUME NEW p \in Nat, p >= 1, NEW u \in Nat, u >= 1, NEW x \in Nat, u % p = 0, x % u = 0
  PROVE  x % p = 0
<1>1. PICK j \in Nat : u = p * j
  BY Multiple
<1>2. PICK k \in Nat : x = u * k
  BY Multiple
<1>3. j * k \in Nat /\ x = p * (j * k)
  BY <1>1, <1>2
<1>4. 0 \in 0..(p - 1) /\ x = p * (j * k) + 0
  BY <1>3
<1> QED  BY <1>3, <1>4, ModUnique

\* The rounded size is at least what was asked for, or it wrapped to 0.
LEMMA RoundedFact ==
  ASSUME NEW ask \in Sizes, NEW u \in Nat, u >= 1
  PROVE  /\ Rounded(ask, u) \in Nat /\ Rounded(ask, u) % u = 0
         /\ Rounded(ask, u) > 0 => Rounded(ask, u) >= ask
<1>0. Space \in Nat /\ Space >= 1 /\ ask \in Nat /\ ask < Space
  BY WordAssumption, SizeAssumption
<1> HIDE DEF Space
<1> DEFINE y == ask + u - 1
           n == y % Space
<1>1. y \in Nat /\ y = ask + u - 1
  BY <1>0
<1>2. n \in Nat /\ n < Space
  BY <1>0, <1>1, DivMod
<1>3. Rounded(ask, u) = n - (n % u)
  BY DEF Rounded
<1>4. CASE y < Space
  <2>1. n = y
    BY <1>0, <1>1, <1>4, FirstLap
  <2> HIDE DEF n, y
  <2> DEFINE w == n - (n % u)
  <2>2. w \in Nat /\ n < w + u /\ w % u = 0
    BY <1>2, RoundDown
  <2> HIDE DEF w
  <2>3. w >= ask
    BY <1>0, <1>1, <2>1, <2>2
  <2> QED  BY <1>3, <2>2, <2>3 DEF w
<1>5. CASE ~(y < Space)
  <2>1. n < u
    <3>1. CASE u <= Space
      <4>1. y - Space \in 0..(Space - 1) /\ y = Space * 1 + (y - Space) /\ y - Space < u
        BY <1>0, <1>1, <1>5, <3>1
      <4>2. n = y - Space
        BY <1>0, <4>1, ModUnique
      <4> QED  BY <4>1, <4>2
    <3>2. CASE ~(u <= Space)
      BY <1>0, <1>2, <3>2
    <3> QED  BY <3>1, <3>2
  <2> HIDE DEF n
  <2>2. n % u = n
    BY <1>2, <2>1, FirstLap
  <2>3. n - (n % u) = 0 /\ 0 % u = 0
    BY <1>2, <2>2, FirstLap
  <2> QED  BY <1>3, <2>3
<1> QED  BY <1>4, <1>5

\* Where mmap places a region there was none before, and room after it.
LEMMA PlacesFact ==
  ASSUME NEW size \in Nat, size % PageSize = 0, NEW u, NEW ptr \in Places(size, u)
  PROVE  /\ ptr \in MapArea /\ ptr \in Nat /\ ptr # 0 /\ ptr % u = 0 /\ size > 0
         /\ PagesOf(ptr, size) \cap mapped = {}
         /\ Room(ptr + size)
<1>0. /\ PageSize \in Nat /\ PageSize >= 1
      /\ \A page \in MapArea : page \in Nat /\ page # 0 /\ page % PageSize = 0
  BY PageAssumption
<1>1. ptr \in MapArea /\ ptr % u = 0 /\ size > 0
  BY DEF Places
<1>2. PICK k \in Nat : size = PageSize * k /\ k = size \div PageSize
  BY <1>0, Multiple
<1>3. \A i \in 0..(k - 1) : ptr + i * PageSize \in MapArea \ mapped
  BY <1>2 DEF Places
<1>4. PICK b \in Nat : ptr = PageSize * b
  BY <1>0, <1>1, Multiple
<1>5. ASSUME NEW page \in PagesOf(ptr, size), page \in mapped  PROVE FALSE
  <2>1. page \in MapArea /\ ptr - PageSize < page /\ page < ptr + size
    BY <1>5 DEF PagesOf
  <2>2. PICK a \in Nat : page = PageSize * a
    BY <1>0, <2>1, Multiple
  <2>3. ~(a < b)
    <3>1. a < b => page + PageSize <= ptr
      BY <1>0, <1>4, <2>2, LapStep
    <3> QED  BY <1>0, <1>1, <2>1, <3>1
  <2>4. ~(b + k <= a)
    <3>1. PageSize * (b + k) = ptr + size /\ b + k \in Nat
      BY <1>0, <1>2, <1>4
    <3>2. b + k < a => PageSize * (b + k) + PageSize <= PageSize * a
      BY <1>0, <3>1, LapStep
    <3>3. b + k = a => page = ptr + size
      BY <2>2, <3>1
    <3>4. b + k < a => ptr + size + PageSize <= page
      BY <2>2, <3>1, <3>2
    <3> QED  BY <1>0, <1>1, <2>1, <3>3, <3>4
  <2>5. a - b \in 0..(k - 1)
    BY <2>3, <2>4
  <2>6. ptr + (a - b) * PageSize = page
    <3>1. a - b \in Nat
      BY <2>5
    <3>2. PICK d \in Nat : d = a - b
      BY <3>1
    <3>3. PageSize * (b + d) = PageSize * b + d * PageSize
      BY <1>0, <3>2
    <3>4. b + d = a
      BY <3>2
    <3> QED  BY <1>4, <2>2, <3>2, <3>3, <3>4
  <2> QED  BY <1>3, <1>5, <2>5, <2>6
<1>6. Room(ptr + size)
  <2>1. k >= 1
    BY <1>0, <1>1, <1>2
  <2>2. PICK d \in Nat : k = d + 1
    BY <2>1
  <2>3. d \in 0..(k - 1)
    BY <2>2
  <2>4. ptr + d * PageSize \in MapArea
    BY <1>3, <2>3
  <2>5. (ptr + d * PageSize) + PageSize = ptr + size
    <3>1. size = PageSize * d + PageSize
      BY <1>0, <1>2, <2>2
    <3>2. d * PageSize = PageSize * d /\ PageSize * d \in Nat
      BY <1>0
    <3> QED  BY <1>0, <1>1, <3>1, <3>2
  <2>6. ASSUME NEW n \in Requests, NEW al \in Alignments  PROVE (ptr + size) + n + al < Space
    <3>1. (ptr + d * PageSize) + PageSize + n + al < Space
      BY <2>4, MapAreaAssumption
    <3> QED  BY <2>5, <3>1
  <2> QED  BY <2>6 DEF Room
<1> QED  BY <1>0, <1>1, <1>5, <1>6

-----------------------------------------------------------------------------
(* The arenas.                                                             *)

LEMMA NoRegionFact == NoRegion \in Fields /\ NoRegion # None /\ Sound(NoRegion, {}) /\ Inside(NoRegion)
<1>1. NoRegion \in Fields
  BY DEF NoRegion, Fields
<1>2. NoRegion.begin \notin MapArea
  BY PageAssumption DEF NoRegion
<1> QED  BY <1>1, <1>2, NoneAssumption DEF NoRegion, Sound, Inside

\* Which arenas are there after one of them changed.
LEMMA AliveAfter ==
  ASSUME TypeOK, NEW a \in Arenas, NEW f \in Fields, arena' = [arena EXCEPT ![a] = f]
  PROVE  /\ Alive' = Alive \cup {a}
         /\ \A b \in Alive' : b \in Arenas /\ arena'[b] = IF b = a THEN f ELSE arena[b]
<1>1. f # None
  BY NoneAssumption
<1> QED  BY <1>1 DEF TypeOK, Alive

\* The fields of an arena that there is.
LEMMA AliveFields ==
  ASSUME TypeOK, ArenasInv, NEW a \in Alive
  PROVE  a \in Arenas /\ arena[a] \in Fields /\ Sound(arena[a], blocks[a])
  BY DEF TypeOK, ArenasInv, Alive

\* One arena changed and stayed sound.
LEMMA OneArena ==
  ASSUME TypeOK, ArenasInv, OverInv, UNCHANGED <<mapped, regions>>,
         NEW a \in Arenas, NEW f \in Fields, NEW bs \in SUBSET Block, Sound(f, bs), Inside(f),
         arena' = [arena EXCEPT ![a] = f], blocks' = [blocks EXCEPT ![a] = bs]
  PROVE  TypeOK' /\ ArenasInv' /\ OverInv'
<1>1. TypeOK'
  BY DEF TypeOK
<1>2. /\ Alive' = Alive \cup {a}
      /\ \A b \in Alive' : b \in Arenas /\ arena'[b] = IF b = a THEN f ELSE arena[b]
  BY AliveAfter
<1>3. \A b \in Arenas : blocks'[b] = IF b = a THEN bs ELSE blocks[b]
  BY DEF TypeOK
<1>4. ASSUME NEW b \in Arenas  PROVE IF b \in Alive' THEN Sound(arena'[b], blocks'[b]) ELSE blocks'[b] = {}
  <2>1. CASE b = a
    BY <1>2, <1>3, <2>1
  <2>2. CASE b # a
    BY <1>2, <1>3, <2>2 DEF ArenasInv
  <2> QED  BY <2>1, <2>2
<1>5. ArenasInv'
  <2>1. \A f2, bs2 : Sound(f2, bs2) <=> Sound(f2, bs2)'
    BY DEF Sound, Room
  <2> QED  BY <1>4, <2>1 DEF ArenasInv
<1>6. \A f2 : Inside(f2)' <=> Inside(f2)
  BY DEF Inside
<1>7. ASSUME NEW b \in Alive'  PROVE Inside(arena'[b])
  BY <1>2, <1>7 DEF OverInv
<1>8. OverInv'
  BY <1>6, <1>7 DEF OverInv
<1> QED  BY <1>1, <1>5, <1>8

\* The arenas that will delete their region.
Owners == {a \in Alive : arena[a].owns /\ arena[a].begin # 0}

\* RegionsOwned, by name.
LEMMA OwnedFact ==
  RegionsOwned <=> /\ heap = {arena[a].begin : a \in Owners}
                   /\ \A a, b \in Owners : arena[a].begin = arena[b].begin => a = b
  BY DEF RegionsOwned, Owners

\* Nothing about ownership changed.
LEMMA OwnedKept ==
  ASSUME RegionsOwned, heap' = heap, Owners' = Owners, \A a \in Owners : arena'[a].begin = arena[a].begin
  PROVE  RegionsOwned'
<1>1. heap = {arena[a].begin : a \in Owners} /\ \A a, b \in Owners : arena[a].begin = arena[b].begin => a = b
  BY OwnedFact
<1>2. heap' = {arena'[a].begin : a \in Owners'} /\ \A a, b \in Owners' : arena'[a].begin = arena'[b].begin => a = b
  BY <1>1
<1> QED  BY <1>2 DEF RegionsOwned, Owners

\* A region of the caller, or none because operator new failed.
LEMMA OverFact ==
  ASSUME NEW base \in Nat, NEW size \in Nat, NEW owns \in BOOLEAN,
         owns => base \in HeapBases \cup {0}, base # 0 => Room(base + size)
  PROVE  Over(base, size, owns) \in Fields /\ Sound(Over(base, size, owns), {})
  BY DEF Over, Fields, Sound

LEMMA ConstructOwningStep ==
  ASSUME IInv, NEW a \in Arenas, ConstructOwning(a), UNCHANGED <<mapped, regions>>
  PROVE  TypeOK' /\ ArenasInv' /\ RegionsOwned' /\ OverInv'
<1>1. PICK base \in {0} \cup (HeapBases \ heap) :
        /\ arena' = [arena EXCEPT ![a] = Over(base, RegionSize, TRUE)]
        /\ heap' = heap \cup ({base} \ {0})
  BY DEF ConstructOwning
<1>2. a \notin Alive /\ blocks' = blocks /\ blocks[a] = {}
  BY DEF ConstructOwning, IInv, ArenasInv
<1> DEFINE f == Over(base, RegionSize, TRUE)
<1>3. base \in Nat /\ base \in HeapBases \cup {0}
  BY <1>1, AddressAssumption
<1>4. f \in Fields /\ Sound(f, {})
  <2>1. base # 0 => Room(base + RegionSize)
    BY <1>3, RequestAssumption DEF Room
  <2> QED  BY <1>3, <2>1, OverFact, WordAssumption
<1>5. f.begin = base /\ f.owns
  BY DEF Over
<1>6. Inside(f)
  <2>1. base \notin MapArea
    BY <1>3, MapAreaAssumption, PageAssumption
  <2> QED  BY <1>5, <2>1 DEF Inside
<1> HIDE DEF f
<1>7. arena' = [arena EXCEPT ![a] = f] /\ blocks' = [blocks EXCEPT ![a] = {}]
  BY <1>1, <1>2 DEF f, IInv, TypeOK
<1>8. TypeOK' /\ ArenasInv' /\ OverInv'
  BY <1>4, <1>6, <1>7, OneArena DEF IInv
<1>9. /\ Alive' = Alive \cup {a}
      /\ \A b \in Alive' : b \in Arenas /\ arena'[b] = IF b = a THEN f ELSE arena[b]
  BY <1>4, <1>7, AliveAfter DEF IInv
<1>10. RegionsOwned'
  <2>1. heap = {arena[b].begin : b \in Owners} /\ \A b, c \in Owners : arena[b].begin = arena[c].begin => b = c
    BY OwnedFact DEF IInv
  <2>2. CASE base = 0
    <3>1. Owners' = Owners /\ heap' = heap /\ \A b \in Owners : arena'[b].begin = arena[b].begin
      BY <1>1, <1>2, <1>5, <1>9, <2>2 DEF Owners
    <3> QED  BY <3>1, OwnedKept DEF IInv
  <2>3. CASE base # 0
    <3>1. Owners' = Owners \cup {a} /\ a \notin Owners /\ heap' = heap \cup {base} /\ base \notin heap
      BY <1>1, <1>2, <1>5, <1>9, <2>3 DEF Owners
    <3>2. arena'[a].begin = base /\ \A b \in Owners : arena'[b].begin = arena[b].begin /\ arena[b].begin \in heap
      BY <1>5, <1>9, <2>1, <3>1 DEF Owners
    <3>3. heap' = {arena'[b].begin : b \in Owners'}
      BY <2>1, <3>1, <3>2
    <3>4. \A b, c \in Owners' : arena'[b].begin = arena'[c].begin => b = c
      BY <2>1, <3>1, <3>2
    <3> QED  BY <3>3, <3>4 DEF RegionsOwned, Owners
  <2> QED  BY <2>2, <2>3
<1> QED  BY <1>8, <1>10

\* The caller's buffer, or a mapped region.
LEMMA ConstructOverStep ==
  ASSUME IInv, NEW a \in Arenas, NEW base \in Nat, NEW size \in Nat, ConstructOver(a, base, size),
         UNCHANGED <<mapped, regions>>, base # 0 => Room(base + size),
         base \in MapArea => \E r \in regions : base = r.ptr /\ size = r.size
  PROVE  TypeOK' /\ ArenasInv' /\ RegionsOwned' /\ OverInv'
<1>2. a \notin Alive /\ blocks' = blocks /\ blocks[a] = {} /\ heap' = heap
  BY DEF ConstructOver, IInv, ArenasInv
<1> DEFINE f == Over(base, size, FALSE)
<1>4. f \in Fields /\ Sound(f, {})
  BY OverFact
<1>5. f.begin = base /\ ~f.owns /\ f.end = base + size
  BY DEF Over
<1>6. Inside(f)
  BY <1>5 DEF Inside
<1> HIDE DEF f
<1>7. arena' = [arena EXCEPT ![a] = f] /\ blocks' = [blocks EXCEPT ![a] = {}]
  BY <1>2 DEF f, IInv, TypeOK, ConstructOver
<1>8. TypeOK' /\ ArenasInv' /\ OverInv'
  BY <1>4, <1>6, <1>7, OneArena DEF IInv
<1>9. /\ Alive' = Alive \cup {a}
      /\ \A b \in Alive' : b \in Arenas /\ arena'[b] = IF b = a THEN f ELSE arena[b]
  BY <1>4, <1>7, AliveAfter DEF IInv
<1>10. Owners' = Owners /\ \A b \in Owners : arena'[b].begin = arena[b].begin
  BY <1>2, <1>5, <1>9 DEF Owners
<1> QED  BY <1>2, <1>8, <1>10, OwnedKept DEF IInv

\* The heap once the arena a has deleted its region, if it had one.
LEMMA ReleasedFact ==
  ASSUME TypeOK, ArenasInv, RegionsOwned, NEW a \in Alive
  PROVE  /\ Released(arena[a]) = {arena[b].begin : b \in Owners \ {a}}
         /\ \A b, c \in Owners : arena[b].begin = arena[c].begin => b = c
<1>1. heap = {arena[b].begin : b \in Owners} /\ \A b, c \in Owners : arena[b].begin = arena[c].begin => b = c
  BY OwnedFact
<1>2. CASE a \in Owners
  <2>1. Released(arena[a]) = heap \ {arena[a].begin}
    BY <1>2 DEF Owners, Released
  <2>2. heap \ {arena[a].begin} = {arena[b].begin : b \in Owners \ {a}}
    BY <1>1, <1>2
  <2> QED  BY <1>1, <2>1, <2>2
<1>3. CASE a \notin Owners
  <2>1. Released(arena[a]) = heap /\ Owners \ {a} = Owners
    BY <1>3 DEF Owners, Released
  <2> QED  BY <1>1, <2>1
<1> QED  BY <1>2, <1>3

\* arena(arena&&) and operator=(arena&&): the region changes hands, and what
\* the target had is deleted.
LEMMA MoveStep ==
  ASSUME IInv, NEW a \in Arenas, NEW other \in Alive, a # other, UNCHANGED <<mapped, regions>>,
         heap' = {arena[b].begin : b \in Owners \ {a}},
         arena' = [arena EXCEPT ![a] = arena[other], ![other] = NoRegion],
         blocks' = [blocks EXCEPT ![a] = blocks[other], ![other] = {}]
  PROVE  TypeOK' /\ ArenasInv' /\ RegionsOwned' /\ OverInv'
<1> USE DEF IInv
<1>0. other \in Arenas /\ arena[other] \in Fields /\ Sound(arena[other], blocks[other]) /\ Inside(arena[other])
  BY AliveFields DEF OverInv
<1>1. NoRegion \in Fields /\ NoRegion # None /\ Sound(NoRegion, {}) /\ Inside(NoRegion)
  BY NoRegionFact
<1>2. arena[other] # None
  BY DEF Alive
<1>3. TypeOK'
  BY <1>0, <1>1 DEF TypeOK
<1>4. \A b \in Arenas : /\ arena'[b] = IF b = a THEN arena[other] ELSE IF b = other THEN NoRegion ELSE arena[b]
                        /\ blocks'[b] = IF b = a THEN blocks[other] ELSE IF b = other THEN {} ELSE blocks[b]
  BY <1>0 DEF TypeOK
<1>5. Alive' = Alive \cup {a} /\ \A b \in Alive' : b \in Arenas
  BY <1>0, <1>1, <1>2, <1>4 DEF Alive
<1>6. ASSUME NEW b \in Arenas  PROVE IF b \in Alive' THEN Sound(arena'[b], blocks'[b]) ELSE blocks'[b] = {}
  <2>1. CASE b = a
    <3>1. arena'[b] = arena[other] /\ blocks'[b] = blocks[other] /\ b \in Alive'
      BY <1>4, <1>5, <2>1
    <3> QED  BY <1>0, <3>1
  <2>2. CASE b = other
    <3>1. arena'[b] = NoRegion /\ blocks'[b] = {} /\ b \in Alive'
      BY <1>4, <1>5, <2>2
    <3> QED  BY <1>1, <3>1
  <2>3. CASE b # a /\ b # other
    <3>1. arena'[b] = arena[b] /\ blocks'[b] = blocks[b] /\ (b \in Alive' <=> b \in Alive)
      BY <1>4, <1>5, <2>3
    <3> QED  BY <3>1 DEF ArenasInv
  <2> QED  BY <2>1, <2>2, <2>3
<1>7. ArenasInv'
  <2>1. \A f2, bs2 : Sound(f2, bs2) <=> Sound(f2, bs2)'
    BY DEF Sound, Room
  <2> QED  BY <1>6, <2>1 DEF ArenasInv
<1>8. OverInv'
  <2>1. \A f2 : Inside(f2)' <=> Inside(f2)
    BY DEF Inside
  <2>2. ASSUME NEW b \in Alive'  PROVE Inside(arena'[b])
    <3>1. b \in Arenas
      BY <1>5
    <3>2. arena'[b] = arena[other] \/ arena'[b] = NoRegion \/ (arena'[b] = arena[b] /\ b \in Alive)
      BY <1>4, <1>5, <3>1
    <3> QED  BY <1>0, <1>1, <3>2 DEF OverInv
  <2> QED  BY <2>1, <2>2 DEF OverInv
<1>9. RegionsOwned'
  <2>1. \A b, c \in Owners : arena[b].begin = arena[c].begin => b = c
    BY OwnedFact
  <2>2. NoRegion.begin = 0 /\ ~NoRegion.owns
    BY DEF NoRegion
  <2>3. \A b : b \in Owners' <=> (b = a /\ other \in Owners) \/ (b \in Owners /\ b # a /\ b # other)
    BY <1>0, <1>4, <1>5, <2>2 DEF Owners
  <2>4. ASSUME NEW b \in Owners'  PROVE arena'[b].begin = IF b = a THEN arena[other].begin ELSE arena[b].begin
    <3>1. b \in Arenas /\ (b # a => b # other)
      BY <1>5, <2>3 DEF Owners
    <3>2. arena'[b] = IF b = a THEN arena[other] ELSE arena[b]
      BY <1>4, <3>1
    <3> QED  BY <3>2
  <2>5. {arena[b].begin : b \in Owners \ {a}} = {arena'[b].begin : b \in Owners'}
    <3>1. ASSUME NEW b \in Owners \ {a}  PROVE \E c \in Owners' : arena'[c].begin = arena[b].begin
      <4>1. CASE b = other
        <5>1. a \in Owners' /\ arena'[a].begin = arena[b].begin
          BY <2>3, <2>4, <3>1, <4>1
        <5> QED  BY <5>1
      <4>2. CASE b # other
        <5>1. b \in Owners' /\ arena'[b].begin = arena[b].begin
          BY <2>3, <2>4, <3>1, <4>2
        <5> QED  BY <5>1
      <4> QED  BY <4>1, <4>2
    <3>2. ASSUME NEW c \in Owners'  PROVE \E b \in Owners \ {a} : arena'[c].begin = arena[b].begin
      BY <2>3, <2>4, <3>2
    <3>3. {arena[b].begin : b \in Owners \ {a}} \subseteq {arena'[b].begin : b \in Owners'}
      BY <3>1
    <3>4. {arena'[b].begin : b \in Owners'} \subseteq {arena[b].begin : b \in Owners \ {a}}
      BY <3>2
    <3> QED  BY <3>3, <3>4
  <2>6. \A b, c \in Owners' : arena'[b].begin = arena'[c].begin => b = c
    BY <2>1, <2>3, <2>4
  <2> QED  BY <2>5, <2>6 DEF RegionsOwned, Owners
<1> QED  BY <1>3, <1>7, <1>8, <1>9

LEMMA MovesStep ==
  ASSUME IInv, NEW a \in Arenas, NEW other \in Arenas, ConstructMove(a, other) \/ AssignMove(a, other),
         UNCHANGED <<mapped, regions>>
  PROVE  TypeOK' /\ ArenasInv' /\ RegionsOwned' /\ OverInv'
<1> USE DEF IInv
<1>1. CASE ConstructMove(a, other)
  <2>1. a \notin Alive /\ other \in Alive /\ heap' = heap
    BY <1>1 DEF ConstructMove
  <2>2. a \notin Owners
    BY <2>1 DEF Owners
  <2>3. heap' = {arena[b].begin : b \in Owners \ {a}}
    <3>1. heap = {arena[b].begin : b \in Owners} /\ Owners \ {a} = Owners
      BY <2>2, OwnedFact
    <3> QED  BY <2>1, <3>1, Zenon
  <2> QED  BY <1>1, <2>1, <2>3, MoveStep DEF ConstructMove
<1>2. CASE AssignMove(a, other)
  <2>1. a \in Alive /\ other \in Alive /\ a # other /\ heap' = {arena[b].begin : b \in Owners \ {a}}
    BY <1>2, ReleasedFact DEF AssignMove
  <2> QED  BY <1>2, <2>1, MoveStep DEF AssignMove
<1> QED  BY <1>1, <1>2

LEMMA DestructStep ==
  ASSUME IInv, NEW a \in Arenas, Destruct(a), UNCHANGED <<mapped, regions>>
  PROVE  TypeOK' /\ ArenasInv' /\ RegionsOwned' /\ OverInv'
<1> USE DEF IInv
<1>1. /\ a \in Alive /\ heap' = {arena[b].begin : b \in Owners \ {a}}
      /\ arena' = [arena EXCEPT ![a] = None] /\ blocks' = [blocks EXCEPT ![a] = {}]
  BY ReleasedFact DEF Destruct
<1>2. TypeOK'
  BY <1>1 DEF TypeOK
<1>3. /\ Alive' = Alive \ {a} /\ \A b \in Alive' : b \in Arenas /\ arena'[b] = arena[b]
      /\ \A b \in Arenas : blocks'[b] = IF b = a THEN {} ELSE blocks[b]
  BY <1>1 DEF TypeOK, Alive
<1>4. ArenasInv'
  <2>1. \A f2, bs2 : Sound(f2, bs2) <=> Sound(f2, bs2)'
    BY DEF Sound, Room
  <2>2. ASSUME NEW b \in Arenas  PROVE IF b \in Alive' THEN Sound(arena'[b], blocks'[b]) ELSE blocks'[b] = {}
    BY <1>3 DEF ArenasInv
  <2> QED  BY <2>1, <2>2 DEF ArenasInv
<1>5. OverInv'
  <2>1. \A f2 : Inside(f2)' <=> Inside(f2)
    BY DEF Inside
  <2>2. \A b \in Alive' : Inside(arena'[b])
    BY <1>3 DEF OverInv
  <2> QED  BY <2>1, <2>2 DEF OverInv
<1>6. Owners' = Owners \ {a} /\ \A b \in Owners' : arena'[b].begin = arena[b].begin
  BY <1>3 DEF Owners
<1>7. {arena[b].begin : b \in Owners \ {a}} = {arena'[b].begin : b \in Owners'}
  BY <1>6
<1>8. \A b, c \in Owners' : arena'[b].begin = arena'[c].begin => b = c
  BY <1>6, OwnedFact
<1>9. RegionsOwned'
  BY <1>1, <1>7, <1>8 DEF RegionsOwned, Owners
<1> QED  BY <1>2, <1>4, <1>5, <1>9

\* The bump pointer of one arena moved.
LEMMA PointerMoved ==
  ASSUME IInv, NEW a \in Alive, NEW p \in Nat, NEW bs \in SUBSET Block, UNCHANGED <<mapped, regions, heap>>,
         arena' = [arena EXCEPT ![a].ptr = p], blocks' = [blocks EXCEPT ![a] = bs],
         Sound([arena[a] EXCEPT !.ptr = p], bs)
  PROVE  TypeOK' /\ ArenasInv' /\ RegionsOwned' /\ OverInv'
<1> USE DEF IInv
<1> DEFINE f == [arena[a] EXCEPT !.ptr = p]
<1>1. a \in Arenas /\ arena[a] \in Fields
  BY AliveFields
<1>2. f \in Fields /\ f.begin = arena[a].begin /\ f.end = arena[a].end /\ f.owns = arena[a].owns
  BY <1>1 DEF Fields
<1>3. arena' = [arena EXCEPT ![a] = f]
  OBVIOUS
<1>4. Sound(f, bs)
  OBVIOUS
<1>5. Inside(f)
  BY <1>2 DEF OverInv, Inside
<1> HIDE DEF f
<1>6. TypeOK' /\ ArenasInv' /\ OverInv'
  BY <1>1, <1>2, <1>3, <1>4, <1>5, OneArena
<1>7. /\ Alive' = Alive \cup {a}
      /\ \A b \in Alive' : b \in Arenas /\ arena'[b] = IF b = a THEN f ELSE arena[b]
  BY <1>1, <1>2, <1>3, AliveAfter
<1>8. Owners' = Owners /\ \A b \in Owners : arena'[b].begin = arena[b].begin
  BY <1>2, <1>7 DEF Owners
<1> QED  BY <1>6, <1>8, OwnedKept

LEMMA AllocateStep ==
  ASSUME IInv, NEW a \in Arenas, NEW n \in Requests, NEW al \in Alignments, Allocate(a, n, al),
         UNCHANGED <<mapped, regions>>
  PROVE  TypeOK' /\ ArenasInv' /\ RegionsOwned' /\ OverInv'
<1> USE DEF IInv
<1> DEFINE r == arena[a]
           lo == AlignPtr(r.ptr, al)
           x == [lo |-> lo, hi |-> lo + n, alignment |-> al]
           bs == blocks[a] \cup {x}
<1>1. a \in Alive /\ r \in Fields /\ Sound(r, blocks[a]) /\ r.begin # 0 /\ Fits(r, n, al) /\ n \in Nat
  BY AliveFields, AddressAssumption DEF Allocate, Fits
<1>2. /\ lo \in Nat /\ lo % al = 0 /\ r.ptr <= lo /\ lo + n <= r.end /\ (lo + n) % Space = lo + n
  BY <1>1, FitsFact
<1>3. /\ arena' = [arena EXCEPT ![a].ptr = lo + n] /\ blocks' = [blocks EXCEPT ![a] = bs] /\ heap' = heap
  BY <1>2 DEF Allocate
<1>4. r.ptr \in Nat /\ r.end \in Nat /\ r.begin \in Nat /\ r.begin <= r.ptr /\ r.ptr <= r.end
  BY <1>1 DEF Fields, Sound
<1> DEFINE f == [r EXCEPT !.ptr = lo + n]
<1>5. f.ptr = lo + n /\ f.begin = r.begin /\ f.end = r.end /\ f.owns = r.owns
  BY <1>1 DEF Fields
<1>6. blocks[a] \in SUBSET Block /\ \A y \in blocks[a] : y.lo \in Nat /\ y.hi \in Nat
  BY <1>1 DEF TypeOK, Block
<1>7. x \in Block /\ x.lo = lo /\ x.hi = lo + n /\ x.alignment = al
  BY <1>1, <1>2 DEF Block
<1>8. \A y \in blocks[a] : y.lo % y.alignment = 0 /\ r.begin <= y.lo /\ y.hi <= r.ptr
  BY <1>1 DEF Sound
<1>9. \A y, z \in blocks[a] : y = z \/ y.hi <= z.lo \/ z.hi <= y.lo
  BY <1>1 DEF Sound
<1>10. r.begin # 0 => Room(r.end)
  BY <1>1 DEF Sound
<1>11. r.owns => r.begin \in HeapBases \cup {0}
  BY <1>1 DEF Sound
<1>12. bs \in SUBSET Block /\ lo + n \in Nat
  BY <1>1, <1>2, <1>6, <1>7
<1> HIDE DEF r, lo, x, f
<1>13. \A y \in blocks[a] : y.hi <= x.lo /\ y.hi <= lo + n
  BY <1>1, <1>2, <1>4, <1>6, <1>7, <1>8
<1>14. r.begin <= lo /\ r.begin <= lo + n
  BY <1>1, <1>2, <1>4
<1>15. \A y \in bs : y.lo % y.alignment = 0 /\ f.begin <= y.lo /\ y.hi <= f.ptr
  <2> TAKE y \in bs
  <2>1. CASE y = x
    BY <1>1, <1>2, <1>5, <1>7, <1>14, <2>1
  <2>2. CASE y # x
    <3>1. y \in blocks[a]
      BY <2>2
    <3> QED  BY <1>5, <1>8, <1>13, <3>1
  <2> QED  BY <2>1, <2>2
<1>16. \A y, z \in bs : y = z \/ y.hi <= z.lo \/ z.hi <= y.lo
  <2> TAKE y, z \in bs
  <2>1. CASE y = x \/ z = x
    BY <1>13, <2>1
  <2>2. CASE y # x /\ z # x
    <3>1. y \in blocks[a] /\ z \in blocks[a]
      BY <2>2
    <3> QED  BY <1>9, <3>1
  <2> QED  BY <2>1, <2>2
<1>17. Sound(f, bs)
  BY <1>1, <1>2, <1>5, <1>10, <1>11, <1>14, <1>15, <1>16 DEF Sound
<1> HIDE DEF bs
<1> QED  BY <1>1, <1>3, <1>12, <1>17, PointerMoved DEF f, r

LEMMA ResetStep ==
  ASSUME IInv, NEW a \in Arenas, Reset(a), UNCHANGED <<mapped, regions>>
  PROVE  TypeOK' /\ ArenasInv' /\ RegionsOwned' /\ OverInv'
<1> USE DEF IInv
<1>1. a \in Alive /\ arena[a] \in Fields /\ Sound(arena[a], blocks[a])
  BY AliveFields DEF Reset
<1> DEFINE p == arena[a].begin
           f == [arena[a] EXCEPT !.ptr = p]
<1>2. p \in Nat /\ f.ptr = p /\ f.begin = p /\ f.end = arena[a].end /\ f.owns = arena[a].owns
  BY <1>1 DEF Fields
<1>3. p # 0 => p <= arena[a].end /\ Room(arena[a].end)
  BY <1>1 DEF Sound, Fields
<1>4. Sound(f, {})
  BY <1>1, <1>2, <1>3 DEF Sound
<1>5. arena' = [arena EXCEPT ![a].ptr = p] /\ blocks' = [blocks EXCEPT ![a] = {}] /\ heap' = heap
  BY DEF Reset
<1>6. {} \in SUBSET Block
  OBVIOUS
<1> HIDE DEF p
<1> QED  BY <1>1, <1>2, <1>4, <1>5, <1>6, PointerMoved

-----------------------------------------------------------------------------
(* The regions.                                                            *)

\* A region begins on a page of its own.
LEMMA FirstPage == ASSUME NEW r, Region(r)  PROVE r.ptr \in Pages(r) /\ r.ptr \in Nat /\ r.ptr # 0
  BY PageAssumption DEF Region, Pages, PagesOf

\* huge_page_alloc got a region.
LEMMA MapsStep ==
  ASSUME IInv, NEW ask \in Sizes, NEW u \in Nat, u >= 1, u % PageSize = 0, Maps(ask, u),
         UNCHANGED <<arena, heap, blocks>>
  PROVE  MapInv' /\ OverInv'
<1> USE DEF IInv
<1> DEFINE size == Rounded(ask, u)
<1>1. PICK ptr \in Places(size, u) :
        /\ mapped' = mapped \cup PagesOf(ptr, size)
        /\ regions' = regions \cup {[ptr |-> ptr, size |-> size, align |-> u, asked |-> ask]}
  BY DEF Maps
<1> DEFINE new == [ptr |-> ptr, size |-> size, align |-> u, asked |-> ask]
<1>2. size \in Nat /\ size % u = 0 /\ (size > 0 => size >= ask) /\ ask \in Nat
  BY RoundedFact, SizeAssumption
<1> HIDE DEF size
<1>3. size % PageSize = 0
  <2>1. PageSize \in Nat /\ PageSize >= 1
    BY PageAssumption
  <2> QED  BY <1>2, <2>1, MultipleOfMultiple
<1>4. /\ ptr \in MapArea /\ ptr % u = 0 /\ size > 0
      /\ PagesOf(ptr, size) \cap mapped = {} /\ Room(ptr + size)
  BY <1>2, <1>3, PlacesFact
<1>5. Region(new) /\ Pages(new) = PagesOf(ptr, size)
  BY <1>2, <1>4 DEF Region, Pages
<1> HIDE DEF new
<1>6. regions' = regions \cup {new} /\ mapped' = mapped \cup Pages(new) /\ Pages(new) \cap mapped = {}
  BY <1>1, <1>4, <1>5 DEF new
<1>7. \A r \in regions' : Region(r)
  BY <1>5, <1>6 DEF MapInv
<1>8. mapped' = UNION {Pages(r) : r \in regions'}
  BY <1>6 DEF MapInv
<1>9. \A r \in regions : Pages(r) \subseteq mapped
  BY DEF MapInv
<1>10. \A r, q \in regions' : r # q => Pages(r) \cap Pages(q) = {}
  BY <1>6, <1>9 DEF MapInv
<1>11. MapInv'
  <2>1. \A r : Region(r)' <=> Region(r)
    BY DEF Region, Room
  <2>2. \A r : Pages(r)' = Pages(r)
    BY DEF Pages, PagesOf
  <2> QED  BY <1>7, <1>8, <1>10, <2>1, <2>2 DEF MapInv
<1>12. OverInv'
  BY <1>6 DEF OverInv, Inside, Alive
<1> QED  BY <1>11, <1>12

\* huge_page_free: no arena is over the region, and no other region shares
\* its pages.
LEMMA FreeStep ==
  ASSUME IInv, NEW r \in regions, HugePageFree(r)
  PROVE  MapInv' /\ OverInv'
<1> USE DEF IInv
<1>1. regions' = regions \ {r} /\ mapped' = mapped \ Pages(r) /\ UNCHANGED <<arena, heap, blocks>>
  BY DEF HugePageFree, Pages
<1>2. \A q \in regions' : Region(q)
  BY <1>1 DEF MapInv
<1>3. \A q, s \in regions' : q # s => Pages(q) \cap Pages(s) = {}
  BY <1>1 DEF MapInv
<1>4. mapped' = UNION {Pages(q) : q \in regions'}
  <2>1. \A q \in regions : q # r => Pages(q) \cap Pages(r) = {}
    BY DEF MapInv
  <2>2. \A x : x \in mapped <=> \E q \in regions : x \in Pages(q)
    BY DEF MapInv
  <2>3. \A x : x \in mapped' <=> \E q \in regions' : x \in Pages(q)
    BY <1>1, <2>1, <2>2
  <2> QED  BY <2>3
<1>5. MapInv'
  <2>1. \A q : Region(q)' <=> Region(q)
    BY DEF Region, Room
  <2>2. \A q : Pages(q)' = Pages(q)
    BY DEF Pages, PagesOf
  <2> QED  BY <1>2, <1>3, <1>4, <2>1, <2>2 DEF MapInv
<1>6. OverInv'
  <2>1. \A a \in Alive : arena[a].begin # r.ptr
    BY DEF HugePageFree
  <2> QED  BY <1>1, <2>1 DEF OverInv, Inside, Alive
<1> QED  BY <1>5, <1>6

\* What the arenas do is nothing to the regions, and the other way round.
LEMMA MapKept == ASSUME MapInv, UNCHANGED <<mapped, regions>>  PROVE MapInv'
  BY DEF MapInv, Region, Room, Pages, PagesOf

LEMMA ArenasKept ==
  ASSUME TypeOK, ArenasInv, RegionsOwned, UNCHANGED <<arena, heap, blocks>>
  PROVE  TypeOK' /\ ArenasInv' /\ RegionsOwned'
  BY DEF TypeOK, ArenasInv, RegionsOwned, Sound, Room, Alive

-----------------------------------------------------------------------------
(* The invariant and what follows.                                         *)

LEMMA IInvInit == HugeInit => IInv
<1> SUFFICES ASSUME HugeInit  PROVE IInv
  OBVIOUS
<1>1. TypeOK
  BY DEF HugeInit, Init, TypeOK
<1>2. Alive = {} /\ heap = {} /\ blocks = [a \in Arenas |-> {}] /\ mapped = {} /\ regions = {}
  BY DEF HugeInit, Init, Alive
<1> QED  BY <1>1, <1>2 DEF IInv, ArenasInv, RegionsOwned, MapInv, OverInv

LEMMA IInvNext == IInv /\ [HugeNext]_hugeVars => IInv'
<1> SUFFICES ASSUME IInv, [HugeNext]_hugeVars  PROVE IInv'
  OBVIOUS
<1>0. MapInv /\ OverInv /\ TypeOK /\ ArenasInv /\ RegionsOwned
  BY DEF IInv
<1>1. ASSUME Next, UNCHANGED <<mapped, regions>>  PROVE IInv'
  <2>1. MapInv'
    BY <1>0, <1>1, MapKept
  <2>2. ASSUME NEW a \in Arenas, ConstructOwning(a)  PROVE IInv'
    BY <1>1, <2>1, <2>2, ConstructOwningStep DEF IInv
  <2>3. ASSUME NEW a \in Arenas, NEW buffer \in Buffers, ConstructOver(a, buffer, RegionSize)  PROVE IInv'
    <3>1. buffer \in Nat /\ buffer \notin MapArea /\ Room(buffer + RegionSize)
      BY AddressAssumption, MapAreaAssumption, RequestAssumption DEF Room
    <3> QED  BY <1>1, <2>1, <2>3, <3>1, ConstructOverStep, WordAssumption DEF IInv
  <2>4. ASSUME NEW a \in Arenas, NEW other \in Arenas, ConstructMove(a, other) \/ AssignMove(a, other)  PROVE IInv'
    BY <1>1, <2>1, <2>4, MovesStep DEF IInv
  <2>5. ASSUME NEW a \in Arenas, Destruct(a)  PROVE IInv'
    BY <1>1, <2>1, <2>5, DestructStep DEF IInv
  <2>6. ASSUME NEW a \in Arenas, NEW n \in Requests, NEW al \in Alignments, Allocate(a, n, al)  PROVE IInv'
    BY <1>1, <2>1, <2>6, AllocateStep DEF IInv
  <2>7. ASSUME NEW a \in Arenas, NEW n \in Requests, NEW al \in Alignments, AllocateFails(a, n, al)  PROVE IInv'
    <3>1. UNCHANGED <<arena, heap, blocks>>
      BY <2>7 DEF AllocateFails, vars
    <3>2. OverInv'
      BY <1>0, <1>1, <3>1 DEF OverInv, Inside, Alive
    <3> QED  BY <1>0, <2>1, <3>1, <3>2, ArenasKept DEF IInv
  <2>8. ASSUME NEW a \in Arenas, Reset(a)  PROVE IInv'
    BY <1>1, <2>1, <2>8, ResetStep DEF IInv
  <2> QED  BY <1>1, <2>2, <2>3, <2>4, <2>5, <2>6, <2>7, <2>8 DEF Next
<1>2. ASSUME NEW ask \in Sizes, AllocHuge(ask) \/ AllocRegular(ask)  PROVE IInv'
  <2>1. PICK u \in Nat : u >= 1 /\ u % PageSize = 0 /\ Maps(ask, u) /\ UNCHANGED <<arena, heap, blocks>>
    <3>1. PageSize \in Nat /\ PageSize >= 1 /\ PageSize % PageSize = 0
      <4>1. PageSize \in Nat /\ PageSize >= 1 /\ 0 \in 0..(PageSize - 1) /\ PageSize * 1 + 0 = PageSize
        BY PageAssumption
      <4> QED  BY <4>1, ModUnique
    <3>2. \A hp \in LinuxHugePageSizes : hp \in Nat /\ hp >= 1 /\ hp % PageSize = 0
      BY PageAssumption DEF LinuxHugePageSizes
    <3> QED  BY <1>2, <3>1, <3>2 DEF AllocHuge, AllocRegular
  <2>2. MapInv' /\ OverInv'
    BY <2>1, MapsStep
  <2> QED  BY <1>0, <2>1, <2>2, ArenasKept DEF IInv
<1>3. ASSUME NEW r \in regions, HugePageFree(r)  PROVE IInv'
  BY <1>0, <1>3, FreeStep, ArenasKept DEF HugePageFree, IInv
<1>4. ASSUME NEW a \in Arenas, NEW r \in regions, ConstructOverRegion(a, r)  PROVE IInv'
  <2>1. ConstructOver(a, r.ptr, r.size) /\ UNCHANGED <<mapped, regions>>
    BY <1>4 DEF ConstructOverRegion
  <2>2. r.ptr \in Nat /\ r.size \in Nat /\ Room(r.ptr + r.size)
    BY <1>0, FirstPage DEF MapInv, Region
  <2>3. TypeOK' /\ ArenasInv' /\ RegionsOwned' /\ OverInv'
    BY <2>1, <2>2, ConstructOverStep
  <2> QED  BY <1>0, <2>1, <2>3, MapKept DEF IInv
<1>5. CASE UNCHANGED hugeVars
  <2>1. OverInv'
    BY <1>0, <1>5 DEF OverInv, Inside, Alive, hugeVars
  <2> QED  BY <1>0, <1>5, <2>1, ArenasKept, MapKept DEF hugeVars, IInv
<1>6. ASSUME NEW ask \in Sizes, AllocFails(ask)  PROVE IInv'
  BY <1>5, <1>6 DEF AllocFails
<1> QED  BY <1>1, <1>2, <1>3, <1>4, <1>5, <1>6 DEF HugeNext

\* The inductive invariant of arenas and mapped regions.
THEOREM IInvCorrect == HugeSpec => []IInv
  BY IInvInit, IInvNext, PTL DEF HugeSpec

\* For every request and alignment, through moves, resets and destruction:
\* allocate never hands out a misaligned or an overlapping block, or one that
\* reaches beyond the region.
THEOREM BlocksSoundCorrect == HugeSpec => []BlocksSound
<1>1. ASSUME IInv, NEW a \in Alive, NEW x \in blocks[a]
      PROVE  /\ x.lo % x.alignment = 0
             /\ arena[a].begin <= x.lo /\ x.hi <= arena[a].ptr /\ arena[a].ptr <= arena[a].end
             /\ \A y \in blocks[a] : x = y \/ x.hi <= y.lo \/ y.hi <= x.lo
  BY <1>1, AliveFields DEF IInv, Sound
<1>2. IInv => BlocksSound
  BY <1>1 DEF BlocksSound
<1> QED  BY <1>2, IInvCorrect, PTL

\* However arenas are built, moved, assigned and destroyed: every region of
\* the heap has exactly one arena that will delete it, and it is deleted once.
THEOREM RegionsOwnedCorrect == HugeSpec => []RegionsOwned
<1>1. IInv => RegionsOwned
  BY DEF IInv
<1> QED  BY <1>1, IInvCorrect, PTL

\* allocate returns nullptr only when no aligned block of that size is left
\* between the bump pointer and the end of the region.
THEOREM RefusalCorrect == HugeSpec => []RefusalJustified
<1>1. ASSUME IInv, NEW a \in Alive, NEW n \in Requests, NEW al \in Alignments,
             arena[a].begin # 0, ~Fits(arena[a], n, al),
             NEW lo \in arena[a].ptr..(arena[a].end - n), lo % al = 0
      PROVE  FALSE
  <2>1. arena[a] \in Fields /\ Sound(arena[a], blocks[a]) /\ n \in Nat
    BY <1>1, AliveFields, AddressAssumption DEF IInv
  <2>2. arena[a].ptr \in Nat /\ arena[a].end \in Nat
    BY <2>1 DEF Fields
  <2>3. lo \in Nat /\ arena[a].ptr <= lo /\ lo + n <= arena[a].end
    BY <1>1, <2>1, <2>2
  <2>4. AlignPtr(arena[a].ptr, al) \in Nat /\ AlignPtr(arena[a].ptr, al) <= lo
    BY <1>1, <2>1, <2>3, FitsFact
  <2>5. ~(AlignPtr(arena[a].ptr, al) + n <= arena[a].end)
    BY <1>1, <2>1, FitsFact
  <2> QED  BY <2>1, <2>2, <2>3, <2>4, <2>5
<1>2. IInv => RefusalJustified
  BY <1>1 DEF RefusalJustified
<1> QED  BY <1>2, IInvCorrect, PTL

\* For every page size, huge page size and size asked for, also one whose
\* rounding wraps: regions have the bytes asked for on mapped pages of their
\* own, each page is unmapped by one free, and an arena over a region hands
\* out mapped bytes only.
THEOREM RegionsMappedCorrect == HugeSpec => []RegionsMapped
<1>1. ASSUME IInv, NEW a \in Alive, arena[a].begin \in MapArea, NEW x \in blocks[a]
      PROVE  PagesOf(x.lo, x.hi - x.lo) \subseteq mapped
  <2>1. PICK r \in regions : arena[a].begin = r.ptr /\ arena[a].end = r.ptr + r.size
    BY <1>1 DEF IInv, OverInv, Inside
  <2>2. Region(r) /\ r.ptr \in Nat /\ r.ptr # 0 /\ r.size \in Nat
    BY <1>1, FirstPage DEF IInv, MapInv, Region
  <2>3. /\ arena[a] \in Fields /\ Sound(arena[a], blocks[a]) /\ x \in Block
    BY <1>1, AliveFields DEF IInv, TypeOK
  <2>4. /\ r.ptr <= x.lo /\ x.hi <= arena[a].ptr /\ arena[a].ptr <= r.ptr + r.size
        /\ x.lo \in Nat /\ x.hi \in Nat /\ arena[a].ptr \in Nat
    BY <2>1, <2>2, <2>3 DEF Sound, Fields, Block
  <2>5. ASSUME NEW page \in PagesOf(x.lo, x.hi - x.lo)  PROVE page \in Pages(r)
    <3>1. page \in MapArea /\ page \in Nat /\ x.lo - PageSize < page /\ page < x.lo + (x.hi - x.lo) /\ PageSize \in Nat
      BY <2>5, PageAssumption DEF PagesOf
    <3>2. r.ptr - PageSize < page /\ page < r.ptr + r.size
      BY <2>2, <2>4, <3>1
    <3> QED  BY <3>1, <3>2 DEF Pages, PagesOf
  <2>6. Pages(r) \subseteq mapped
    BY <1>1 DEF IInv, MapInv
  <2> QED  BY <2>5, <2>6
<1>2. IInv => mapped = UNION {PagesOf(r.ptr, r.size) : r \in regions}
  BY DEF IInv, MapInv, Pages
<1>3. IInv => \A r \in regions : /\ r.size >= r.asked /\ r.ptr % r.align = 0
                                 /\ \A q \in regions \ {r} : PagesOf(r.ptr, r.size) \cap PagesOf(q.ptr, q.size) = {}
  BY DEF IInv, MapInv, Region, Pages
<1>4. IInv => RegionsMapped
  BY <1>1, <1>2, <1>3 DEF RegionsMapped
<1> QED  BY <1>4, IInvCorrect, PTL

-----------------------------------------------------------------------------
(* fixed_pool and numa_pool.                                               *)

USE CountAssumption, NullAssumption

\* The chain that the constructor builds is an exact free list.
LEMMA PoolInvInit ==
  PoolInit => PoolInv
<1>1. ASSUME PoolInit PROVE PoolTypeOK
  BY <1>1 DEF PoolInit, PoolTypeOK, Words, Blocks
<1>2. ASSUME PoolInit PROVE FreeListExact
  <2> USE <1>2 DEF PoolInit, Blocks
  <2>1. \A b \in Blocks : place[b] = b + 1 /\ b \notin held
    OBVIOUS
  <2>2. freeList = Null => held = Blocks
    OBVIOUS
  <2>3. freeList # Null => /\ freeList \notin held
                          /\ \A b \in Blocks : place[b] <= place[freeList]
    <3>1. ASSUME freeList # Null PROVE Count # 0 /\ freeList = Count - 1 /\ freeList \in Blocks
      BY <3>1
    <3>2. ASSUME freeList # Null, NEW b \in Blocks PROVE place[b] <= place[freeList]
      BY <2>1, <3>1, <3>2
    <3> QED BY <3>1, <3>2
  <2>4. \A b \in Blocks : IF b = 0 THEN word[b] = Null
                         ELSE word[b] \in Blocks \ held /\ place[word[b]] = b
    OBVIOUS
  <2>5. \A b \in Blocks : b \in Int /\ b >= 0
    OBVIOUS
  <2> HIDE DEF PoolInit, Blocks
  <2> QED BY <2>1, <2>2, <2>3, <2>4, <2>5 DEF FreeListExact
<1> QED BY <1>1, <1>2 DEF PoolInv

\* allocate: the block below the head, if any, is the next head.
LEMMA AllocateKeepsInv ==
  PoolInv /\ PoolAllocate => PoolInv'
<1> SUFFICES ASSUME PoolInv, PoolAllocate PROVE PoolInv'
  OBVIOUS
<1> USE DEF PoolInv
<1>0. freeList \in Blocks \ held /\ place[freeList] \in Nat /\ place[freeList] # 0
  BY DEF PoolTypeOK, FreeListExact, PoolAllocate, Words
<1>1. PoolTypeOK'
  BY <1>0 DEF PoolTypeOK, PoolAllocate, Words
<1>2. (\A b \in Blocks : b \in held <=> place[b] = 0)'
  BY <1>0 DEF PoolTypeOK, FreeListExact, PoolAllocate
<1>3. (\A b, c \in Blocks \ held : place[b] = place[c] => b = c)'
  BY <1>0 DEF PoolTypeOK, FreeListExact, PoolAllocate
<1>4. (freeList = Null => held = Blocks)'
  <2> SUFFICES ASSUME freeList' = Null PROVE Blocks \subseteq held'
    <3>1. held' \subseteq Blocks
      BY <1>1 DEF PoolTypeOK
    <3> QED BY <3>1
  <2>0. Null \notin Blocks
    BY DEF Blocks
  <2>1. place[freeList] = 1
    <3>1. word[freeList] = Null
      BY DEF PoolAllocate
    <3>2. place[freeList] # 1 => word[freeList] \in Blocks \ held
      BY <1>0, Zenon DEF FreeListExact
    <3> QED BY <2>0, <3>1, <3>2
  <2>2. ASSUME NEW b \in Blocks, b \notin held PROVE b = freeList
    <3>1. place[b] \in Nat /\ place[b] # 0 /\ place[b] <= 1
      BY <1>0, <2>1, <2>2 DEF PoolTypeOK, FreeListExact
    <3> QED BY <1>0, <2>1, <2>2, <3>1 DEF FreeListExact
  <2> QED BY <2>2 DEF PoolAllocate
<1>5. (freeList # Null => freeList \notin held /\ \A b \in Blocks : place[b] <= place[freeList])'
  <2> SUFFICES ASSUME freeList' # Null
               PROVE /\ freeList' \notin held'
                     /\ \A b \in Blocks : place'[b] <= place'[freeList']
    OBVIOUS
  <2>1. /\ place[freeList] # 1
        /\ freeList' \in Blocks \ held
        /\ place[freeList'] = place[freeList] - 1
    BY <1>0 DEF FreeListExact, PoolAllocate
  <2>2. freeList' # freeList
    BY <1>0, <2>1
  <2>3. place'[freeList'] = place[freeList] - 1
    BY <2>1, <2>2 DEF PoolTypeOK, PoolAllocate
  <2>4. ASSUME NEW b \in Blocks PROVE place'[b] <= place[freeList] - 1
    <3>1. CASE b = freeList
      BY <1>0, <3>1 DEF PoolTypeOK, PoolAllocate
    <3>2. CASE b # freeList /\ b \notin held
      <4>1. place[b] # place[freeList]
        BY <1>0, <3>2 DEF FreeListExact
      <4>2. place[b] \in Nat /\ place[b] <= place[freeList]
        BY <1>0 DEF PoolTypeOK, FreeListExact
      <4> QED BY <1>0, <3>2, <4>1, <4>2 DEF PoolTypeOK, PoolAllocate
    <3>3. CASE b # freeList /\ b \in held
      BY <1>0, <3>3 DEF PoolTypeOK, FreeListExact, PoolAllocate
    <3> QED BY <3>1, <3>2, <3>3
  <2> QED BY <2>1, <2>2, <2>3, <2>4 DEF PoolAllocate
<1>6. (\A b \in Blocks \ held :
         IF place[b] = 1 THEN word[b] = Null
         ELSE word[b] \in Blocks \ held /\ place[word[b]] = place[b] - 1)'
  <2> SUFFICES ASSUME NEW b \in Blocks, b \notin held'
               PROVE IF place'[b] = 1 THEN word'[b] = Null
                     ELSE word'[b] \in Blocks \ held' /\ place'[word'[b]] = place'[b] - 1
    OBVIOUS
  <2>1. b # freeList /\ b \notin held /\ place'[b] = place[b] /\ word'[b] = word[b]
    BY DEF PoolTypeOK, PoolAllocate
  <2>2. CASE place[b] = 1
    BY <2>1, <2>2 DEF FreeListExact
  <2>3. CASE place[b] # 1
    <3>1. word[b] \in Blocks \ held /\ place[word[b]] = place[b] - 1
      BY <2>1, <2>3 DEF FreeListExact
    <3>2. place[b] \in Nat /\ place[b] <= place[freeList]
      BY <1>0 DEF PoolTypeOK, FreeListExact
    <3>3. word[b] # freeList
      BY <1>0, <3>1, <3>2
    <3>4. place'[word[b]] = place[word[b]]
      BY <3>1, <3>3 DEF PoolTypeOK, PoolAllocate
    <3> QED BY <2>1, <2>3, <3>1, <3>3, <3>4 DEF PoolAllocate
  <2> QED BY <2>2, <2>3
<1> QED BY <1>1, <1>2, <1>3, <1>4, <1>5, <1>6 DEF FreeListExact

\* deallocate: the block is above every other one on the list.
LEMMA DeallocateKeepsInv ==
  ASSUME Count \in Nat, Null \notin Int, PoolInv, NEW b \in Blocks, Deallocate(b)
  PROVE  PoolInv'
<1> USE DEF PoolInv
<1> DEFINE top == IF freeList = Null THEN 1 ELSE place[freeList] + 1
<1>0. /\ top \in Nat \ {0}
      /\ place' = [place EXCEPT ![b] = top]
      /\ \A c \in Blocks : place[c] < top
      /\ b \in held /\ freeList # b /\ b # Null
  <2>1. CASE freeList = Null
    <3>1. \A c \in Blocks : place[c] = 0
      BY <2>1 DEF PoolTypeOK, FreeListExact
    <3> QED BY <2>1, <3>1 DEF Deallocate, Blocks
  <2>2. CASE freeList # Null
    BY <2>2 DEF PoolTypeOK, FreeListExact, Deallocate, Words, Blocks
  <2> QED BY <2>1, <2>2
<1> HIDE DEF top
<1>1. PoolTypeOK'
  BY <1>0 DEF PoolTypeOK, Deallocate, Words
<1>2. (\A c \in Blocks : c \in held <=> place[c] = 0)'
  BY <1>0 DEF PoolTypeOK, FreeListExact, Deallocate
<1>3. (\A c, d \in Blocks \ held : place[c] = place[d] => c = d)'
  <2> SUFFICES ASSUME NEW c \in Blocks, NEW d \in Blocks, c \notin held', d \notin held',
                      place'[c] = place'[d]
               PROVE c = d
    OBVIOUS
  <2>1. CASE c = b /\ d # b
    BY <1>0, <2>1 DEF PoolTypeOK
  <2>2. CASE c # b /\ d = b
    BY <1>0, <2>2 DEF PoolTypeOK
  <2>3. CASE c # b /\ d # b
    BY <1>0, <2>3 DEF PoolTypeOK, FreeListExact, Deallocate
  <2> QED BY <2>1, <2>2, <2>3
<1>4. (freeList = Null => held = Blocks)'
  BY <1>0 DEF Deallocate
<1>5. (freeList # Null => freeList \notin held /\ \A c \in Blocks : place[c] <= place[freeList])'
  <2>1. \A c \in Blocks : place'[c] <= top
    BY <1>0 DEF PoolTypeOK
  <2> QED BY <1>0, <2>1 DEF PoolTypeOK, Deallocate
<1>6. (\A c \in Blocks \ held :
         IF place[c] = 1 THEN word[c] = Null
         ELSE word[c] \in Blocks \ held /\ place[word[c]] = place[c] - 1)'
  <2> SUFFICES ASSUME NEW c \in Blocks, c \notin held'
               PROVE IF place'[c] = 1 THEN word'[c] = Null
                     ELSE word'[c] \in Blocks \ held' /\ place'[word'[c]] = place'[c] - 1
    OBVIOUS
  <2>1. CASE c = b
    <3>1. place'[c] = top /\ word'[c] = freeList
      BY <1>0, <2>1 DEF PoolTypeOK, Deallocate
    <3>2. CASE freeList = Null
      BY <3>1, <3>2 DEF top
    <3>3. CASE freeList # Null
      <4>1. freeList \in Blocks \ held
        BY <3>3 DEF PoolTypeOK, FreeListExact, Words
      <4>2. place[freeList] \in Nat /\ place[freeList] # 0
        BY <4>1 DEF PoolTypeOK, FreeListExact
      <4>3. place'[freeList] = place[freeList]
        BY <1>0, <4>1 DEF PoolTypeOK
      <4> QED BY <3>1, <3>3, <4>1, <4>2, <4>3 DEF top, Deallocate
    <3> QED BY <3>2, <3>3
  <2>2. CASE c # b
    <3>1. c \notin held /\ place'[c] = place[c] /\ word'[c] = word[c]
      BY <1>0, <2>2 DEF PoolTypeOK, Deallocate
    <3>2. CASE place[c] = 1
      BY <3>1, <3>2 DEF FreeListExact
    <3>3. CASE place[c] # 1
      <4>1. word[c] \in Blocks \ held /\ place[word[c]] = place[c] - 1
        BY <3>1, <3>3 DEF FreeListExact
      <4>2. word[c] # b /\ place'[word[c]] = place[word[c]]
        BY <1>0, <4>1 DEF PoolTypeOK
      <4> QED BY <3>1, <3>3, <4>1, <4>2 DEF Deallocate
    <3> QED BY <3>2, <3>3
  <2> QED BY <2>1, <2>2
<1> QED BY <1>1, <1>2, <1>3, <1>4, <1>5, <1>6 DEF FreeListExact

\* No step breaks the list; a client's data is in no block of it.
LEMMA PoolInvNext ==
  PoolInv /\ [PoolNext]_poolVars => PoolInv'
<1> SUFFICES ASSUME PoolInv, [PoolNext]_poolVars PROVE PoolInv'
  OBVIOUS
<1>1. CASE PoolAllocate
  BY <1>1, AllocateKeepsInv
<1>2. CASE PoolAllocateFails
  BY <1>2 DEF PoolInv, PoolTypeOK, FreeListExact, PoolAllocateFails, Words
<1>3. ASSUME NEW b \in Blocks, Deallocate(b) PROVE PoolInv'
  BY <1>3, DeallocateKeepsInv
<1>4. ASSUME NEW b \in Blocks, NEW w \in Words, ClientWrites(b, w) PROVE PoolInv'
  <2>1. PoolTypeOK'
    BY <1>4 DEF PoolInv, PoolTypeOK, ClientWrites
  <2>2. \A c \in Blocks \ held : word'[c] = word[c]
    BY <1>4 DEF PoolInv, PoolTypeOK, ClientWrites
  <2>3. FreeListExact'
    BY <1>4, <2>2 DEF PoolInv, FreeListExact, ClientWrites
  <2> QED BY <2>1, <2>3 DEF PoolInv
<1>5. CASE UNCHANGED poolVars
  BY <1>5 DEF poolVars, PoolInv, PoolTypeOK, FreeListExact
<1> QED BY <1>1, <1>2, <1>3, <1>4, <1>5 DEF PoolNext

\* For every number of blocks the free list holds exactly the blocks that no
\* client has (fixed_pool's constructor, allocate and deallocate).
THEOREM PoolInvCorrect ==
  PoolSpec => []PoolInv
<1>1. PoolInit => PoolInv
  BY PoolInvInit
<1>2. PoolInv /\ [PoolNext]_poolVars => PoolInv'
  BY PoolInvNext
<1> QED BY <1>1, <1>2, PTL DEF PoolSpec

\* For every number of blocks fixed_pool hands a block to one client at a
\* time and fails only when it has none left.
THEOREM AllocatorCorrect ==
  PoolSpec => ImplementsAllocator
<1>1. PoolInit => Allocator!Init
  BY DEF PoolInit, Allocator!Init
<1>2. PoolInv /\ [PoolNext]_poolVars => [Allocator!Next]_(Allocator!vars)
  <2> SUFFICES ASSUME PoolInv, [PoolNext]_poolVars PROVE [Allocator!Next]_(Allocator!vars)
    OBVIOUS
  <2>1. CASE PoolAllocate
    <3>1. freeList \in Blocks \ held
      BY <2>1 DEF PoolInv, PoolTypeOK, FreeListExact, PoolAllocate, Words
    <3>2. Allocator!Allocate(freeList)
      BY <2>1, <3>1 DEF PoolAllocate, Allocator!Allocate
    <3> QED BY <3>1, <3>2 DEF Allocator!Next
  <2>2. CASE PoolAllocateFails
    BY <2>2 DEF PoolInv, FreeListExact, PoolAllocateFails, Allocator!Next, Allocator!Fail
  <2>3. ASSUME NEW b \in Blocks, Deallocate(b) PROVE Allocator!Next
    BY <2>3 DEF Deallocate, Allocator!Next, Allocator!Deallocate
  <2>4. ASSUME NEW b \in Blocks, NEW w \in Words, ClientWrites(b, w)
        PROVE UNCHANGED Allocator!vars
    BY <2>4 DEF ClientWrites, Allocator!vars
  <2>5. CASE UNCHANGED poolVars
    BY <2>5 DEF poolVars, Allocator!vars
  <2> QED BY <2>1, <2>2, <2>3, <2>4, <2>5 DEF PoolNext
<1>3. PoolSpec => []PoolInv
  BY PoolInvCorrect
<1> QED BY <1>1, <1>2, <1>3, PTL DEF PoolSpec, ImplementsAllocator, Allocator!Spec

\* A numa_pool promises the same, whatever the constructor of its numa_arena
\* met: no outcome of the attempt to bind memory reaches the pool.
THEOREM NumaAllocatorCorrect ==
  NumaSpec => ImplementsAllocator
<1>1. NumaInit => PoolInit
  BY DEF NumaInit
<1>2. [NumaNext]_numaVars => [PoolNext]_poolVars
  BY DEF NumaNext, numaVars, poolVars
<1>3. NumaSpec => PoolSpec
  BY <1>1, <1>2, PTL DEF NumaSpec, PoolSpec
<1>4. PoolSpec => ImplementsAllocator
  BY AllocatorCorrect
<1> QED BY <1>3, <1>4, PTL

-----------------------------------------------------------------------------
(* Labels, segments and indices, whatever the use of the ring.             *)

PublisherLabels == {"off", "open", "truncate", "initCap", "initHead", "initTail", "dead", "ready",
                    "push", "pushHead", "full", "write", "storeTail", "writeLate",
                    "pop", "popTail", "empty", "read", "storeHead", "readLate"}
SubscriberLabels == {"off", "open", "initCap", "initHead", "initTail", "dead", "ready",
                     "popTail", "empty", "read", "storeHead", "readLate"}
ReaderLabels == {"off", "open", "map", "dead", "look", "lookHead", "lookTail", "fetch", "print", "done"}

\* Which labels a process passes, and that it has a segment from open on.
ControlInv ==
  /\ use \in Settings
  /\ pc \in [Processes -> PublisherLabels \cup SubscriberLabels \cup ReaderLabels]
  /\ \A p \in Publishers : pc[p] \in PublisherLabels
  /\ \A p \in Subscribers : pc[p] \in SubscriberLabels
  /\ \A p \in Readers : pc[p] \in ReaderLabels
  /\ name \in Segments \cup {Nothing}
  /\ seg \in [Processes -> Segments \cup {Nothing}]
  /\ \A p \in Processes : pc[p] \notin {"off", "open"} => seg[p] \in Segments

\* The stored indices and the copies in the processes are slots.
IndexInv ==
  /\ head \in [Segments -> Slots]
  /\ tail \in [Segments -> Slots]
  /\ h \in [Processes -> Slots]
  /\ t \in [Processes -> Slots]

\* The processes about to open the ring.
Opening == {p \in Processes : pc[p] = "open"}

\* No more segments are created than processes have started and opened.
CountInv ==
  /\ starts \in Nat /\ created \in Nat
  /\ starts <= MaxStarts
  /\ IsFiniteSet(Opening)
  /\ created + Cardinality(Opening) <= starts

BaseInv == ControlInv /\ IndexInv /\ CountInv

\* (i + 1) % cap of a slot is a slot.
LEMMA WrapSlot == \A i \in Slots : Wrap(i) \in Slots
<1> SUFFICES ASSUME NEW i \in Slots  PROVE Wrap(i) \in Slots
  OBVIOUS
<1>1. i + 1 \in Nat /\ Capacity \in Nat /\ Capacity >= 1
  BY CapacityAssumption DEF Slots
<1>2. (i + 1) % Capacity \in 0..(Capacity - 1)
  BY <1>1, DivMod
<1> QED  BY <1>2 DEF Wrap, Slots

LEMMA BaseInit == ShmInit => BaseInv
<1> SUFFICES ASSUME ShmInit  PROVE BaseInv
  OBVIOUS
<1>1. ControlInv
  BY DEF ShmInit, ControlInv, PublisherLabels, SubscriberLabels, ReaderLabels, Processes
<1>2. IndexInv
  BY CapacityAssumption DEF ShmInit, IndexInv, Slots
<1>3. CountInv
  <2>1. Opening = {}
    BY DEF ShmInit, Opening
  <2> QED  BY <2>1, FS_EmptySet, BoundsAssumption DEF ShmInit, CountInv
<1> QED  BY <1>1, <1>2, <1>3 DEF BaseInv

\* p goes to another label, which is not the one of a process about to open.
Moves(p) == \E l : l # "open" /\ Goto(p, l)

LEMMA MovesTo == ASSUME NEW p, NEW l, l # "open", Goto(p, l)  PROVE Moves(p)
  BY DEF Moves

\* A step of one process changes that process's label only.
LEMMA OtherLabels ==
  ASSUME ControlInv, NEW p \in Processes,
         Start(p) \/ Construct(p) \/ PushStep(p) \/ PopStep(p) \/ ReaderStep(p) \/ Exit(p) \/ Kill(p)
  PROVE  \E l : pc' = [pc EXCEPT ![p] = l] /\ (l = "open" => Start(p))
<1>0. NextMessage(p) => Moves(p)
  BY MovesTo DEF NextMessage
<1>p. \A m : PopReturnsTrue(p, m) => Moves(p)
  BY MovesTo DEF PopReturnsTrue
<1>1. CASE Start(p)
  BY <1>1 DEF Start, Goto
<1>2. Construct(p) => Moves(p)
  <2>1. OpenCreate(p) => Moves(p)
    BY <1>0, <1>p, MovesTo DEF OpenCreate
  <2>2. Truncate(p) => Moves(p)
    BY <1>0, <1>p, MovesTo DEF Truncate
  <2>3. OpenAttach(p) => Moves(p)
    BY <1>0, <1>p, MovesTo DEF OpenAttach
  <2>4. InitCapacity(p) => Moves(p)
    BY <1>0, <1>p, MovesTo DEF InitCapacity
  <2>5. InitHead(p) => Moves(p)
    BY <1>0, <1>p, MovesTo DEF InitHead
  <2>6. InitTail(p) => Moves(p)
    BY <1>0, <1>p, MovesTo DEF InitTail
  <2>7. BusError(p) => Moves(p)
    BY <1>0, <1>p, MovesTo DEF BusError
  <2> QED  BY <2>1, <2>2, <2>3, <2>4, <2>5, <2>6, <2>7 DEF Construct
<1>3. PushStep(p) => Moves(p)
  <2>1. PushLoadTail(p) => Moves(p)
    BY <1>0, <1>p, MovesTo DEF PushLoadTail
  <2>2. PushLoadHead(p) => Moves(p)
    BY <1>0, <1>p, MovesTo DEF PushLoadHead
  <2>3. WriteSlot(p) => Moves(p)
    BY <1>0, <1>p, MovesTo DEF WriteSlot
  <2>4. StoreTail(p) => Moves(p)
    BY <1>0, <1>p, MovesTo DEF StoreTail
  <2>5. PushGivesUp(p) => Moves(p)
    BY <1>0, <1>p, MovesTo DEF PushGivesUp
  <2>6. PushDrops(p) => Moves(p)
    BY <1>0, <1>p, MovesTo DEF PushDrops
  <2> QED  BY <2>1, <2>2, <2>3, <2>4, <2>5, <2>6 DEF PushStep
<1>4. PopStep(p) => Moves(p)
  <2>1. PopLoadHead(p) => Moves(p)
    BY <1>0, <1>p, MovesTo DEF PopLoadHead
  <2>2. PopLoadTail(p) => Moves(p)
    BY <1>0, <1>p, MovesTo DEF PopLoadTail
  <2>3. PopReturnsFalse(p) => Moves(p)
    BY <1>0, <1>p, MovesTo DEF PopReturnsFalse
  <2>4. ReadSlot(p) => Moves(p)
    BY <1>0, <1>p, MovesTo DEF ReadSlot
  <2>5. StoreHead(p) => Moves(p)
    BY <1>0, <1>p, MovesTo DEF StoreHead
  <2> QED  BY <2>1, <2>2, <2>3, <2>4, <2>5 DEF PopStep
<1>5. ReaderStep(p) => Moves(p)
  <2>1. ReaderOpen(p) => Moves(p)
    BY <1>0, <1>p, MovesTo DEF ReaderOpen
  <2>2. ReaderMap(p) => Moves(p)
    BY <1>0, <1>p, MovesTo DEF ReaderMap
  <2>3. ReadCapacity(p) => Moves(p)
    BY <1>0, <1>p, MovesTo DEF ReadCapacity
  <2>4. ReadHead(p) => Moves(p)
    BY <1>0, <1>p, MovesTo DEF ReadHead
  <2>5. ReadTail(p) => Moves(p)
    BY <1>0, <1>p, MovesTo DEF ReadTail
  <2>6. Fetch(p) => Moves(p)
    BY <1>0, <1>p, MovesTo DEF Fetch
  <2>7. DivisionByZero(p) => Moves(p)
    BY <1>0, <1>p, MovesTo DEF DivisionByZero
  <2>8. PrintMessage(p) => Moves(p)
    BY <1>0, <1>p, MovesTo DEF PrintMessage
  <2> QED  BY <2>1, <2>2, <2>3, <2>4, <2>5, <2>6, <2>7, <2>8 DEF ReaderStep
<1>6. CASE Exit(p) \/ Kill(p)
  BY <1>6 DEF Exit, Kill, End
<1>7. CASE Moves(p)
  BY <1>7 DEF Moves, Goto
<1> QED  BY <1>1, <1>2, <1>3, <1>4, <1>5, <1>6, <1>7

\* A segment is created by a process that started and has not opened yet.
LEMMA CountNext == BaseInv /\ [ShmNext]_shmVars => CountInv'
<1> SUFFICES ASSUME BaseInv, [ShmNext]_shmVars  PROVE CountInv'
  OBVIOUS
<1> USE DEF BaseInv
<1>0. /\ starts \in Nat /\ created \in Nat /\ starts <= MaxStarts /\ MaxStarts \in Nat
      /\ IsFiniteSet(Opening) /\ Cardinality(Opening) \in Nat
      /\ created + Cardinality(Opening) <= starts
      /\ pc \in [Processes -> PublisherLabels \cup SubscriberLabels \cup ReaderLabels]
  BY FS_CardinalityType, BoundsAssumption DEF CountInv, ControlInv
<1>1. ASSUME NEW p \in Processes, Start(p)  PROVE CountInv'
  <2>1. starts' = starts + 1 /\ starts < MaxStarts /\ created' = created
    BY <1>1 DEF Start, segVars
  <2>2. Opening' = Opening \cup {p} /\ p \notin Opening
    BY <1>0, <1>1 DEF Start, Goto, Opening
  <2>3. IsFiniteSet(Opening') /\ Cardinality(Opening') = Cardinality(Opening) + 1
    BY <1>0, <2>2, FS_AddElement
  <2> QED  BY <1>0, <2>1, <2>3 DEF CountInv
<1>2. ASSUME NEW p \in Processes,
             Construct(p) \/ PushStep(p) \/ PopStep(p) \/ ReaderStep(p) \/ Exit(p) \/ Kill(p)
      PROVE  CountInv'
  <2>1. PICK l : pc' = [pc EXCEPT ![p] = l] /\ (l = "open" => Start(p))
    BY <1>2, OtherLabels
  <2>2. CASE Start(p)
    BY <1>1, <2>2
  <2>3. CASE ~Start(p)
    <3>1. Opening' = Opening \ {p}
      BY <1>0, <2>1, <2>3 DEF Opening
    <3>2. /\ IsFiniteSet(Opening') /\ Cardinality(Opening') \in Nat
          /\ Cardinality(Opening') = IF p \in Opening THEN Cardinality(Opening) - 1 ELSE Cardinality(Opening)
      BY <1>0, <3>1, FS_RemoveElement, FS_CardinalityType
    <3>3. starts' = starts /\ (created' = created \/ (created' = created + 1 /\ p \in Opening))
      <4>1. CASE Construct(p)
        BY <4>1 DEF Opening, segVars, Construct, OpenCreate, Truncate, OpenAttach, InitCapacity, InitHead, InitTail, BusError
      <4>2. CASE PushStep(p)
        BY <4>2 DEF segVars, PushStep, PushLoadTail, PushLoadHead, WriteSlot, StoreTail, PushGivesUp, PushDrops
      <4>3. CASE PopStep(p)
        BY <4>3 DEF segVars, PopStep, PopLoadHead, PopLoadTail, PopReturnsFalse, ReadSlot, StoreHead
      <4>4. CASE ReaderStep(p)
        BY <4>4 DEF segVars, ReaderStep, ReaderOpen, ReaderMap, ReadCapacity, ReadHead, ReadTail, Fetch, DivisionByZero, PrintMessage
      <4>5. CASE Exit(p) \/ Kill(p)
        BY <4>5 DEF segVars, Exit, Kill
      <4> QED  BY <1>2, <4>1, <4>2, <4>3, <4>4, <4>5
    <3> QED  BY <1>0, <3>2, <3>3 DEF CountInv
  <2> QED  BY <2>2, <2>3
<1>3. CASE UNCHANGED shmVars
  BY <1>3 DEF shmVars, segVars, CountInv, Opening
<1> QED  BY <1>1, <1>2, <1>3 DEF ShmNext

\* Every process keeps to its labels, and opens a segment that exists.
LEMMA ControlNext == BaseInv /\ [ShmNext]_shmVars => ControlInv'
<1> SUFFICES ASSUME BaseInv, [ShmNext]_shmVars  PROVE ControlInv'
  OBVIOUS
<1> USE DEF BaseInv, ControlInv, Goto, segVars, procVars, PublisherLabels, SubscriberLabels, ReaderLabels, Processes
<1>1. ASSUME NEW p \in Processes, Start(p)  PROVE ControlInv'
  BY <1>1, ProcessAssumption DEF Start
<1>2. ASSUME NEW p \in Processes, Construct(p)  PROVE ControlInv'
  <2>1. CASE OpenCreate(p)
    <3>1. created + 1 \in Segments
      <4>1. p \in Opening
        BY <2>1 DEF OpenCreate, Opening
      <4>2. Cardinality(Opening) \in Nat /\ Cardinality(Opening) # 0
        BY <4>1, FS_EmptySet, FS_CardinalityType DEF CountInv
      <4> QED  BY <4>2, BoundsAssumption DEF CountInv, Segments
    <3>2. name' \in Segments
      BY <2>1, <3>1 DEF OpenCreate
    <3> QED  BY <2>1, <3>2, ProcessAssumption DEF OpenCreate
  <2>2. CASE OpenAttach(p)
    BY <2>2, ProcessAssumption DEF OpenAttach
  <2>3. CASE Truncate(p) \/ InitCapacity(p) \/ InitHead(p) \/ InitTail(p) \/ BusError(p)
    BY <2>3, ProcessAssumption DEF Truncate, InitCapacity, InitHead, InitTail, BusError
  <2> QED  BY <1>2, <2>1, <2>2, <2>3 DEF Construct
<1>3. ASSUME NEW p \in Processes, PushStep(p)  PROVE ControlInv'
  BY <1>3, ProcessAssumption DEF PushStep, PushLoadTail, PushLoadHead, WriteSlot, StoreTail, PushGivesUp, PushDrops, NextMessage
<1>4. ASSUME NEW p \in Processes, PopStep(p)  PROVE ControlInv'
  BY <1>4, ProcessAssumption DEF PopStep, PopLoadHead, PopLoadTail, PopReturnsFalse, ReadSlot, StoreHead, PopReturnsTrue, NextMessage
<1>5. ASSUME NEW p \in Processes, ReaderStep(p)  PROVE ControlInv'
  BY <1>5, ProcessAssumption DEF ReaderStep, ReaderOpen, ReaderMap, ReadCapacity, ReadHead, ReadTail, Fetch, DivisionByZero, PrintMessage
<1>6. ASSUME NEW p \in Processes, Exit(p) \/ Kill(p)  PROVE ControlInv'
  BY <1>6, ProcessAssumption DEF Exit, Kill, End
<1>7. CASE UNCHANGED shmVars
  BY <1>7 DEF shmVars
<1> QED  BY <1>1, <1>2, <1>3, <1>4, <1>5, <1>6, <1>7 DEF ShmNext

\* What is loaded from the header is a slot, and so is what is stored there.
LEMMA IndexNext == BaseInv /\ [ShmNext]_shmVars => IndexInv'
<1> SUFFICES ASSUME BaseInv, [ShmNext]_shmVars  PROVE IndexInv'
  OBVIOUS
<1>0. 0 \in Slots
  BY CapacityAssumption DEF Slots
<1>a. IndexInv
  BY DEF BaseInv
<1>b. \A p \in Processes : pc[p] \notin {"off", "open"} => seg[p] \in Segments
  BY DEF BaseInv, ControlInv
<1> USE <1>a DEF IndexInv, ringVars, localVars
<1>1. ASSUME NEW p \in Processes, Start(p)  PROVE IndexInv'
  BY <1>1 DEF Start
<1>2. ASSUME NEW p \in Processes, Construct(p)  PROVE IndexInv'
  BY <1>2, <1>0 DEF Construct, OpenCreate, Truncate, OpenAttach, InitCapacity, InitHead, InitTail, BusError
<1>3. ASSUME NEW p \in Processes, PushStep(p)  PROVE IndexInv'
  BY <1>3, <1>b, WrapSlot DEF PushStep, PushLoadTail, PushLoadHead, WriteSlot, StoreTail, PushGivesUp, PushDrops
<1>4. ASSUME NEW p \in Processes, PopStep(p)  PROVE IndexInv'
  BY <1>4, <1>b, WrapSlot DEF PopStep, PopLoadHead, PopLoadTail, PopReturnsFalse, ReadSlot, StoreHead
<1>5. ASSUME NEW p \in Processes, ReaderStep(p)  PROVE IndexInv'
  BY <1>5, <1>b DEF ReaderStep, ReaderOpen, ReaderMap, ReadCapacity, ReadHead, ReadTail, Fetch, DivisionByZero, PrintMessage
<1>6. ASSUME NEW p \in Processes, Exit(p) \/ Kill(p)  PROVE IndexInv'
  BY <1>6, <1>0 DEF Exit, Kill, End
<1>7. CASE UNCHANGED shmVars
  BY <1>7 DEF shmVars
<1> QED  BY <1>1, <1>2, <1>3, <1>4, <1>5, <1>6, <1>7 DEF ShmNext

\* The invariant that every use of the ring keeps.
LEMMA BaseCorrect == ShmSpec => []BaseInv
<1>1. BaseInv /\ [ShmNext]_shmVars => BaseInv'
  BY CountNext, ControlNext, IndexNext DEF BaseInv
<1> QED  BY <1>1, BaseInit, PTL DEF ShmSpec

\* For every capacity, any number of publishers, subscribers, readers and
\* restarts, with reordered accesses, crashes and resets by attachers:
\* slots_[tail] and slots_[head] stay inside the segment in every process.
THEOREM IndicesInRangeCorrect == ShmSpec => []IndicesInRange
<1>1. BaseInv => IndicesInRange
  BY DEF BaseInv, IndexInv, IndicesInRange
<1> QED  BY <1>1, BaseCorrect, PTL

-----------------------------------------------------------------------------
(* What the slots, the processes and the histories hold.                   *)

\* Where a publisher is busy with a message.
Busy == PublisherLabels \ {"off", "open", "truncate", "initCap", "initHead", "initTail", "dead", "ready"}

\* A Python subscriber's locals, with a floor in F.
Peeks(F) == [room : {0, Capacity}, cap : {0, Capacity}, count : Nat, floor : F]

\* A capacity that is read, and so a mapping made from it, is 0 or Capacity.
PeekInv ==
  /\ cap \in [Segments -> {0, Capacity}]
  /\ \E F : peek \in [Processes -> Peeks(F)]

LEMMA PeekInit == ShmInit => PeekInv
<1> SUFFICES ASSUME ShmInit  PROVE PeekInv
  OBVIOUS
<1>1. peek \in [Processes -> Peeks({0})]
  BY DEF ShmInit, NoPeek, Peeks
<1> QED  BY <1>1 DEF ShmInit, PeekInv

\* An update of one process's locals.
LEMMA PeekUpdate ==
  ASSUME NEW F, peek \in [Processes -> Peeks(F)], NEW p \in Processes, NEW c \in {0, Capacity}, NEW x
  PROVE  /\ [peek EXCEPT ![p].room = c] \in [Processes -> Peeks(F)]
         /\ [peek EXCEPT ![p].cap = c] \in [Processes -> Peeks(F)]
         /\ [peek EXCEPT ![p].floor = x] \in [Processes -> Peeks(F \cup {x})]
         /\ [peek EXCEPT ![p].count = @ + 1] \in [Processes -> Peeks(F)]
         /\ [peek EXCEPT ![p] = NoPeek] \in [Processes -> Peeks(F \cup {0})]
<1>1. peek[p] \in Peeks(F)
  OBVIOUS
<1> QED  BY <1>1 DEF Peeks, NoPeek

LEMMA PeekNext == BaseInv /\ PeekInv /\ [ShmNext]_shmVars => PeekInv'
<1> SUFFICES ASSUME BaseInv, PeekInv, [ShmNext]_shmVars  PROVE PeekInv'
  OBVIOUS
<1>0. PICK F : peek \in [Processes -> Peeks(F)]
  BY DEF PeekInv
<1>1. cap \in [Segments -> {0, Capacity}]
  BY DEF PeekInv
<1>2. \A p \in Processes : pc[p] \notin {"off", "open"} => seg[p] \in Segments
  BY DEF BaseInv, ControlInv
<1> USE DEF ringVars, localVars
<1>3. ASSUME NEW p \in Processes, ReaderMap(p) \/ ReadCapacity(p) \/ ReadHead(p) \/ PrintMessage(p)  PROVE PeekInv'
  <2>1. cap[seg[p]] \in {0, Capacity} /\ cap' = cap
    BY <1>1, <1>2, <1>3 DEF ReaderMap, ReadCapacity, ReadHead, PrintMessage
  <2>2. CASE ReaderMap(p) \/ ReadCapacity(p)
    <3> DEFINE c == cap[seg[p]]
    <3>0. peek' = [peek EXCEPT ![p].room = c] \/ peek' = [peek EXCEPT ![p].cap = c]
      BY <2>2 DEF ReaderMap, ReadCapacity
    <3>c. c \in {0, Capacity}
      BY <2>1
    <3> HIDE DEF c
    <3>1. peek' \in [Processes -> Peeks(F)]
      <4>1. /\ [peek EXCEPT ![p].room = c] \in [Processes -> Peeks(F)]
            /\ [peek EXCEPT ![p].cap = c] \in [Processes -> Peeks(F)]
        BY <1>0, <3>c, PeekUpdate
      <4> QED  BY <3>0, <4>1, Zenon
    <3> QED  BY <1>1, <2>1, <3>1 DEF PeekInv
  <2>3. CASE ReadHead(p)
    <3>1. peek' \in [Processes -> Peeks(F \cup {Oldest(seg[p])})]
      BY <1>0, <2>3, PeekUpdate DEF ReadHead
    <3> QED  BY <1>1, <2>1, <3>1 DEF PeekInv
  <2>4. CASE PrintMessage(p)
    <3>1. peek' \in [Processes -> Peeks(F)]
      BY <1>0, <2>4, PeekUpdate DEF PrintMessage
    <3> QED  BY <1>1, <2>1, <3>1 DEF PeekInv
  <2> QED  BY <1>3, <2>2, <2>3, <2>4
<1>4. ASSUME NEW p \in Processes, Exit(p) \/ Kill(p)  PROVE PeekInv'
  <2>1. peek' = [peek EXCEPT ![p] = NoPeek] /\ cap' = cap
    BY <1>4 DEF Exit, Kill, End
  <2>2. \E G : peek' \in [Processes -> Peeks(G)]
    BY <1>0, <2>1, PeekUpdate
  <2> QED  BY <1>1, <2>1, <2>2 DEF PeekInv
<1>5. ASSUME NEW p \in Processes, InitCapacity(p)  PROVE PeekInv'
  BY <1>0, <1>1, <1>5 DEF InitCapacity, PeekInv
<1>6. ASSUME UNCHANGED <<cap, peek>>  PROVE PeekInv'
  BY <1>6 DEF PeekInv
<1>7. ASSUME NEW p \in Processes, Start(p) \/ (Construct(p) /\ ~InitCapacity(p))  PROVE UNCHANGED <<cap, peek>>
  BY <1>7 DEF Start, Construct, OpenCreate, Truncate, OpenAttach, InitHead, InitTail, BusError
<1>8. ASSUME NEW p \in Processes, PushStep(p) \/ PopStep(p)  PROVE UNCHANGED <<cap, peek>>
  BY <1>8 DEF PushStep, PushLoadTail, PushLoadHead, WriteSlot, StoreTail, PushGivesUp, PushDrops,
     PopStep, PopLoadHead, PopLoadTail, PopReturnsFalse, ReadSlot, StoreHead
<1>9. ASSUME NEW p \in Processes, ReaderOpen(p) \/ ReadTail(p) \/ Fetch(p) \/ DivisionByZero(p)
      PROVE  UNCHANGED <<cap, peek>>
  BY <1>9 DEF ReaderOpen, ReadTail, Fetch, DivisionByZero
<1>10. CASE UNCHANGED shmVars
  BY <1>6, <1>10 DEF shmVars
<1> QED  BY <1>3, <1>4, <1>5, <1>6, <1>7, <1>8, <1>9, <1>10 DEF ShmNext, ReaderStep

\* Messages everywhere, and a busy publisher has one to send.
DataInv ==
  /\ sized \in [Segments -> BOOLEAN]
  /\ slots \in [Segments -> [Slots -> Messages \cup {Nothing}]]
  /\ out \in [Processes -> Messages \cup {Nothing}]
  /\ seq \in [Processes -> Messages]
  /\ \A p \in Publishers : pc[p] \in Busy => seq[p] < MaxSeq
  /\ pushed \in Seq(Messages)
  /\ received \in Seq(Messages \cup {Nothing})

LEMMA DataInit == ShmInit => DataInv
  BY BoundsAssumption DEF ShmInit, DataInv, Messages, Busy, Processes

\* A history that is recorded, or not, stays a sequence.
LEMMA RecordedSeq == ASSUME NEW V, NEW log \in Seq(V), NEW m \in V  PROVE Recorded(log, m) \in Seq(V)
  BY DEF Recorded

LEMMA DataNext == BaseInv /\ PeekInv /\ DataInv /\ [ShmNext]_shmVars => DataInv'
<1> SUFFICES ASSUME BaseInv, PeekInv, DataInv, [ShmNext]_shmVars  PROVE DataInv'
  OBVIOUS
<1>0. 0 \in Messages /\ MaxSeq \in Nat /\ \A m \in Messages : m < MaxSeq => m + 1 \in Messages
  BY BoundsAssumption DEF Messages
<1>a. DataInv
  OBVIOUS
<1>b. /\ \A p \in Processes : pc[p] \notin {"off", "open"} => seg[p] \in Segments
      /\ \A p \in Publishers : pc[p] \in PublisherLabels
      /\ \A p \in Subscribers : pc[p] \in SubscriberLabels
      /\ \A p \in Readers : pc[p] \in ReaderLabels
      /\ pc \in [Processes -> PublisherLabels \cup SubscriberLabels \cup ReaderLabels]
      /\ h \in [Processes -> Slots] /\ t \in [Processes -> Slots]
  BY DEF BaseInv, ControlInv, IndexInv
<1>c. \A p \in Processes : peek[p].cap # 0 => h[p] % peek[p].cap = h[p]
  <2>1. \A p \in Processes : peek[p].cap \in {0, Capacity}
    BY DEF PeekInv, Peeks
  <2> QED  BY <1>b, <2>1, FirstLap, CapacityAssumption DEF Slots
<1> USE <1>a, <1>b DEF DataInv, segVars, ringVars, localVars, history, Goto, Busy, Processes,
                       PublisherLabels, SubscriberLabels, ReaderLabels
<1>1. ASSUME NEW p \in Processes, Start(p)  PROVE DataInv'
  BY <1>1 DEF Start
<1>2. ASSUME NEW p \in Processes, Construct(p)  PROVE DataInv'
  <2>1. CASE OpenCreate(p)
    BY <2>1 DEF OpenCreate
  <2>2. CASE Truncate(p)
    BY <2>2 DEF Truncate
  <2>3. CASE OpenAttach(p)
    BY <2>3 DEF OpenAttach
  <2>4. CASE InitCapacity(p)
    BY <2>4 DEF InitCapacity
  <2>5. CASE InitHead(p)
    BY <2>5 DEF InitHead
  <2>6. CASE InitTail(p)
    BY <2>6 DEF InitTail
  <2>7. CASE BusError(p)
    BY <2>7 DEF BusError
  <2> QED  BY <1>2, <2>1, <2>2, <2>3, <2>4, <2>5, <2>6, <2>7 DEF Construct
<1>3. ASSUME NEW p \in Processes, PushStep(p)  PROVE DataInv'
  <2>1. CASE PushLoadTail(p)
    BY <2>1, ProcessAssumption DEF PushLoadTail
  <2>2. CASE PushLoadHead(p)
    BY <2>2 DEF PushLoadHead
  <2>3. CASE WriteSlot(p)
    <3>1. p \in Publishers /\ seg[p] \in Segments /\ seq[p] \in Messages /\ seq[p] + 1 \in Messages
      BY <2>3, <1>0 DEF WriteSlot
    <3>2. slots' \in [Segments -> [Slots -> Messages \cup {Nothing}]]
      BY <2>3, <3>1 DEF WriteSlot
    <3>3. seq' \in [Processes -> Messages]
      <4>1. seq' = seq \/ seq' = [seq EXCEPT ![p] = seq[p] + 1]
        BY <2>3 DEF WriteSlot, NextMessage
      <4> QED  BY <3>1, <4>1
    <3>4. \A q \in Publishers : pc'[q] \in Busy => seq'[q] < MaxSeq
      <4>1. CASE pc[p] = "writeLate"
        BY <2>3, <4>1 DEF WriteSlot, NextMessage
      <4>2. CASE pc[p] = "write"
        BY <2>3, <4>2 DEF WriteSlot
      <4> QED  BY <2>3, <4>1, <4>2 DEF WriteSlot
    <3>5. UNCHANGED <<sized, out, pushed, received>>
      BY <2>3 DEF WriteSlot
    <3> QED  BY <3>2, <3>3, <3>4, <3>5
  <2>4. CASE StoreTail(p)
    <3>1. p \in Publishers /\ seq[p] \in Messages /\ seq[p] + 1 \in Messages
      BY <2>4, <1>0 DEF StoreTail
    <3>2. pushed' \in Seq(Messages)
      BY <2>4, <3>1, RecordedSeq DEF StoreTail
    <3>3. seq' \in [Processes -> Messages]
      <4>1. seq' = seq \/ seq' = [seq EXCEPT ![p] = seq[p] + 1]
        BY <2>4 DEF StoreTail, NextMessage
      <4> QED  BY <3>1, <4>1
    <3>4. \A q \in Publishers : pc'[q] \in Busy => seq'[q] < MaxSeq
      <4>1. CASE pc[p] = "storeTail"
        BY <2>4, <4>1 DEF StoreTail, NextMessage
      <4>2. CASE pc[p] = "write"
        BY <2>4, <4>2 DEF StoreTail
      <4> QED  BY <2>4, <4>1, <4>2 DEF StoreTail
    <3>5. UNCHANGED <<sized, slots, out, received>>
      BY <2>4 DEF StoreTail
    <3> QED  BY <3>2, <3>3, <3>4, <3>5
  <2>5. CASE PushGivesUp(p)
    <3>1. p \in Publishers /\ seq[p] \in Messages /\ seq[p] + 1 \in Messages
      BY <2>5, <1>0 DEF PushGivesUp
    <3> QED  BY <2>5, <3>1 DEF PushGivesUp, NextMessage
  <2>6. CASE PushDrops(p)
    BY <2>6 DEF PushDrops
  <2> QED  BY <1>3, <2>1, <2>2, <2>3, <2>4, <2>5, <2>6 DEF PushStep
<1>4. ASSUME NEW p \in Processes, PopStep(p)  PROVE DataInv'
  <2>1. CASE PopLoadHead(p)
    BY <2>1, ProcessAssumption DEF PopLoadHead
  <2>2. CASE PopLoadTail(p)
    BY <2>2, ProcessAssumption DEF PopLoadTail
  <2>3. CASE PopReturnsFalse(p)
    <3>1. p \in Publishers => seq[p] \in Messages /\ seq[p] + 1 \in Messages
      BY <2>3, <1>0 DEF PopReturnsFalse
    <3>2. CASE p \in Publishers
      <4>1. seq' = [seq EXCEPT ![p] = seq[p] + 1] /\ pc' = [pc EXCEPT ![p] = "ready"]
        BY <2>3, <3>2 DEF PopReturnsFalse, NextMessage
      <4>2. \A q \in Publishers : pc'[q] \in Busy => seq'[q] < MaxSeq
        BY <4>1
      <4> QED  BY <2>3, <3>1, <3>2, <4>1, <4>2 DEF PopReturnsFalse
    <3>3. CASE p \notin Publishers
      BY <2>3, <3>3 DEF PopReturnsFalse
    <3> QED  BY <3>2, <3>3
  <2>4. CASE ReadSlot(p)
    <3>1. slots[seg[p]][h[p]] \in Messages \cup {Nothing}
      BY <2>4 DEF ReadSlot
    <3>2. received' \in Seq(Messages \cup {Nothing})
      BY <2>4, <3>1, RecordedSeq DEF ReadSlot, PopReturnsTrue
    <3>3. out' \in [Processes -> Messages \cup {Nothing}]
      BY <2>4, <3>1 DEF ReadSlot
    <3>4. UNCHANGED <<sized, slots, seq, pushed>>
      BY <2>4 DEF ReadSlot
    <3>5. \A q \in Publishers : pc'[q] \in Busy => seq'[q] < MaxSeq
      <4>1. pc[p] \in Busy /\ \A q \in Processes : q # p => pc'[q] = pc[q]
        BY <2>4 DEF ReadSlot, PopReturnsTrue
      <4>2. ASSUME NEW q \in Publishers, pc'[q] \in Busy  PROVE seq'[q] < MaxSeq
        <5>1. pc[q] \in Busy
          BY <4>1, <4>2
        <5> QED  BY <3>4, <5>1
      <4> QED  BY <4>2
    <3> QED  BY <3>2, <3>3, <3>4, <3>5
  <2>5. CASE StoreHead(p)
    <3>1. received' \in Seq(Messages \cup {Nothing})
      BY <2>5, RecordedSeq DEF StoreHead, PopReturnsTrue
    <3>2. \A q \in Publishers : pc'[q] \in Busy => seq'[q] < MaxSeq
      BY <2>5, ProcessAssumption DEF StoreHead, PopReturnsTrue
    <3> QED  BY <2>5, <3>1, <3>2 DEF StoreHead
  <2> QED  BY <1>4, <2>1, <2>2, <2>3, <2>4, <2>5 DEF PopStep
<1>5. ASSUME NEW p \in Processes, ReaderStep(p)  PROVE DataInv'
  <2>1. CASE Fetch(p)
    <3>1. h[p] % peek[p].cap \in Slots /\ seg[p] \in Segments
      BY <2>1, <1>c DEF Fetch
    <3>2. slots[seg[p]][h[p] % peek[p].cap] \in Messages \cup {Nothing}
      BY <3>1
    <3>3. out' \in [Processes -> Messages \cup {Nothing}]
      BY <2>1, <3>2 DEF Fetch
    <3> QED  BY <2>1, <3>3, ProcessAssumption DEF Fetch
  <2>2. CASE ~Fetch(p)
    <3>1. UNCHANGED <<sized, slots, out, seq, pushed, received>>
      BY <1>5, <2>2 DEF ReaderStep, ReaderOpen, ReaderMap, ReadCapacity, ReadHead, ReadTail, DivisionByZero, PrintMessage
    <3>2. \E l : l \notin Busy /\ pc' = [pc EXCEPT ![p] = l]
      BY <1>5, <2>2 DEF ReaderStep, ReaderOpen, ReaderMap, ReadCapacity, ReadHead, ReadTail, DivisionByZero, PrintMessage
    <3>3. \A q \in Publishers : pc'[q] \in Busy => seq'[q] < MaxSeq
      BY <3>1, <3>2
    <3> QED  BY <3>1, <3>3
  <2> QED  BY <2>1, <2>2
<1>6. ASSUME NEW p \in Processes, Exit(p) \/ Kill(p)  PROVE DataInv'
  <2>1. out' = [out EXCEPT ![p] = Nothing] /\ seq' = [seq EXCEPT ![p] = 0]
    BY <1>6 DEF Exit, Kill, End
  <2>2. out' \in [Processes -> Messages \cup {Nothing}] /\ seq' \in [Processes -> Messages]
    BY <1>0, <2>1
  <2>3. UNCHANGED <<sized, slots, pushed, received>> /\ pc' = [pc EXCEPT ![p] = "off"]
    BY <1>6 DEF Exit, Kill, End
  <2>4. \A q \in Publishers : pc'[q] \in Busy => seq'[q] < MaxSeq
    BY <1>6, <2>3 DEF Exit, Kill, End
  <2> QED  BY <2>2, <2>3, <2>4
<1>7. CASE UNCHANGED shmVars
  BY <1>7 DEF shmVars
<1> QED  BY <1>1, <1>2, <1>3, <1>4, <1>5, <1>6, <1>7 DEF ShmNext

LEMMA DataCorrect == ShmSpec => []PeekInv /\ []DataInv
  BY PeekInit, PeekNext, DataInit, DataNext, BaseCorrect, PTL DEF ShmSpec

-----------------------------------------------------------------------------
(***************************************************************************)
(* One publisher that does not drop and one C++ subscriber, started in     *)
(* order.  The invariant counts the messages pushed and received: both     *)
(* indices are those counts modulo the capacity, the slots hold the last   *)
(* lap of what was written, and all of that starts only when the           *)
(* subscriber has reset the header for the last time.                      *)
(***************************************************************************)
OnePair == \E p, c : Publishers = {p} /\ Subscribers = {c}

pushes == Len(pushed)
pops == Len(received)

\* How many slots the publisher has written, before or after storing tail.
Written(p) == IF pc[p] = "storeTail" THEN pushes + 1
              ELSE IF pc[p] = "writeLate" THEN pushes - 1 ELSE pushes

\* How often the subscriber has stored head, before or after reading.
Heads(c) == IF pc[c] = "readLate" THEN pops + 1 ELSE pops

\* What was written, in order.
Sent(p) == IF pc[p] = "storeTail" THEN Append(pushed, seq[p]) ELSE pushed

\* Nothing happened to the ring yet.
Fresh == /\ pushed = <<>> /\ received = <<>>
         /\ \A s \in Segments : head[s] = 0 /\ tail[s] = 0 /\ \A i \in Slots : slots[s][i] = Nothing

\* Both processes get the same segment, the subscriber after the publisher.
PairControl(p, c) ==
  /\ pc[p] \in PublisherLabels \ {"dead", "push", "pop", "popTail", "empty", "read", "storeHead", "readLate"}
  /\ pc[c] # "dead"
  /\ use.ordered => pc[p] # "writeLate" /\ pc[c] # "readLate"
  /\ pc[p] \in Starting => pc[c] = "off"
  /\ pc[c] \in Starting => pc[p] \in Starting \cup {"ready"}
  /\ pc[p] \notin {"off", "open"} => name # Nothing /\ seg[p] = name
  /\ pc[p] \notin {"off", "open", "truncate"} => sized[name]
  /\ pc[c] \notin {"off", "open"} => seg[c] = name
  /\ pc[p] \in Starting \/ pc[c] \in Starting => Fresh

\* The indices, and the copies of them in the two processes.
PairCounts(p, c) ==
  /\ tail[name] = pushes % Capacity
  /\ head[name] = Heads(c) % Capacity
  /\ Heads(c) <= pushes
  /\ pushes < Heads(c) + Capacity
  /\ pc[p] \in {"pushHead", "full", "write", "storeTail"} => t[p] = pushes % Capacity
  /\ pc[p] = "writeLate" => pushes > 0 /\ t[p] = (pushes - 1) % Capacity /\ pushed[pushes] = seq[p]
  /\ pc[p] \in {"write", "storeTail"} => pushes + 1 < Heads(c) + Capacity
  /\ pc[c] \in {"popTail", "empty", "read", "storeHead", "readLate"} => h[c] = pops % Capacity
  /\ pc[c] \in {"read", "storeHead", "readLate"} => pops < pushes

\* The slots hold the last lap of what was written.
PairSlots(p) ==
  /\ \A x \in 0..(Written(p) - 1) :
       Written(p) <= x + Capacity => slots[name][x % Capacity] = Sent(p)[x + 1]
  /\ \A x \in Written(p)..(Capacity - 1) : slots[name][x % Capacity] = Nothing

\* v is the n-th message, or, unless accesses are in order, what was in its
\* slot before.
Delivered(n, v) ==
  \/ v = pushed[n]
  \/ ~use.ordered /\ (v = IF n <= Capacity THEN Nothing ELSE pushed[n - Capacity])

\* What the subscriber has got.
PairReceived(c) ==
  /\ \A n \in 1..pops : Delivered(n, received[n])
  /\ pc[c] = "storeHead" => Delivered(pops + 1, out[c])

PairInv(p, c) ==
  /\ PairControl(p, c)
  /\ name # Nothing => PairCounts(p, c) /\ PairSlots(p) /\ PairReceived(c)

PlainInv == Plain => /\ \A r \in Readers : pc[r] = "off"
                     /\ \A p \in Publishers, c \in Subscribers : PairInv(p, c)

\* The steps of the two processes in such use.
SetupStep(p, c) ==
  \/ Start(p) \/ OpenCreate(p) \/ Truncate(p) \/ InitCapacity(p) \/ InitHead(p) \/ InitTail(p)
  \/ Start(c) \/ OpenAttach(c) \/ InitCapacity(c) \/ InitHead(c) \/ InitTail(c)
PushesStep(p) == PushLoadTail(p) \/ PushLoadHead(p) \/ WriteSlot(p) \/ StoreTail(p) \/ PushGivesUp(p)
PopsStep(c) == PopLoadHead(c) \/ PopLoadTail(c) \/ PopReturnsFalse(c) \/ ReadSlot(c) \/ StoreHead(c)

\* Nobody else runs, nobody stops, nothing is dropped and no page is missing.
LEMMA PlainSteps ==
  ASSUME OnePair, BaseInv, Plain, NEW p \in Publishers, NEW c \in Subscribers, PairControl(p, c),
         \A r \in Readers : pc[r] = "off", [ShmNext]_shmVars
  PROVE  SetupStep(p, c) \/ PushesStep(p) \/ PopsStep(c) \/ UNCHANGED shmVars
<1>1. Publishers = {p} /\ Subscribers = {c} /\ p # c /\ p \notin Readers /\ c \notin Readers
  BY ProcessAssumption DEF OnePair
<1>2. /\ use.processes = {p, c} /\ ~use.mayStop /\ ~use.dropOldest
  BY <1>1 DEF Plain, InOrderStart
<1>3. ASSUME NEW r \in Readers, Start(r) \/ Construct(r) \/ PushStep(r) \/ PopStep(r) \/ ReaderStep(r) \/ Exit(r) \/ Kill(r)
      PROVE  FALSE
  <2>1. pc[r] = "off" /\ r \notin use.processes /\ r \notin Publishers /\ r \notin Subscribers
    BY <1>1, <1>2
  <2> QED  BY <1>2, <1>3, <2>1 DEF Start, Construct, OpenCreate, Truncate, OpenAttach, InitCapacity, InitHead, InitTail, BusError,
       PushStep, PushLoadTail, PushLoadHead, WriteSlot, StoreTail, PushGivesUp, PushDrops,
       PopStep, PopLoadHead, PopLoadTail, PopReturnsFalse, ReadSlot, StoreHead,
       ReaderStep, ReaderOpen, ReaderMap, ReadCapacity, ReadHead, ReadTail, Fetch, DivisionByZero, PrintMessage, Exit, Kill
<1>4. ASSUME Start(p) \/ Construct(p) \/ PushStep(p) \/ PopStep(p) \/ ReaderStep(p) \/ Exit(p) \/ Kill(p)
      PROVE  SetupStep(p, c) \/ PushesStep(p)
  <2>1. /\ pc[p] \in PublisherLabels \ {"dead", "push", "pop", "popTail", "empty", "read", "storeHead", "readLate"}
        /\ pc[p] = "initCap" => sized[seg[p]]
    BY DEF PairControl
  <2>2. CASE Start(p) \/ Construct(p)
    BY <1>1, <2>1, <2>2 DEF SetupStep, Construct, OpenAttach, BusError
  <2>3. CASE PushStep(p) \/ Exit(p) \/ Kill(p)
    BY <1>2, <2>3 DEF PushesStep, PushStep, PushDrops, Exit, Kill
  <2>4. CASE PopStep(p) \/ ReaderStep(p)
    BY <1>1, <2>1, <2>4 DEF PublisherLabels, PopStep, PopLoadHead, PopLoadTail, PopReturnsFalse, ReadSlot, StoreHead,
       ReaderStep, ReaderOpen, ReaderMap, ReadCapacity, ReadHead, ReadTail, Fetch, DivisionByZero, PrintMessage
  <2> QED  BY <1>4, <2>2, <2>3, <2>4
<1>5. ASSUME Start(c) \/ Construct(c) \/ PushStep(c) \/ PopStep(c) \/ ReaderStep(c) \/ Exit(c) \/ Kill(c)
      PROVE  SetupStep(p, c) \/ PopsStep(c)
  <2>1. pc[c] \in SubscriberLabels /\ (pc[c] = "initCap" => sized[seg[c]])
    <3>1. pc[c] \in SubscriberLabels
      BY DEF BaseInv, ControlInv
    <3>2. pc[c] = "initCap" => pc[p] \notin Starting /\ seg[c] = name
      BY DEF PairControl, Starting
    <3>3. pc[p] \notin Starting => sized[name]
      BY DEF PairControl, Starting
    <3> QED  BY <3>1, <3>2, <3>3
  <2>2. CASE Start(c) \/ Construct(c)
    BY <1>1, <2>1, <2>2 DEF SubscriberLabels, SetupStep, Construct, OpenCreate, Truncate, BusError
  <2>3. CASE PushStep(c) \/ Exit(c) \/ Kill(c)
    BY <1>1, <1>2, <2>1, <2>3 DEF SubscriberLabels, PushStep, PushLoadTail, PushLoadHead, WriteSlot, StoreTail, PushGivesUp, PushDrops, Exit, Kill
  <2>4. CASE PopStep(c)
    BY <2>4 DEF PopsStep, PopStep
  <2>5. CASE ReaderStep(c)
    BY <1>1, <2>1, <2>5 DEF SubscriberLabels,
       ReaderStep, ReaderOpen, ReaderMap, ReadCapacity, ReadHead, ReadTail, Fetch, DivisionByZero, PrintMessage
  <2> QED  BY <1>5, <2>2, <2>3, <2>4, <2>5
<1>6. \A q \in Processes : q = p \/ q = c \/ q \in Readers
  BY <1>1 DEF Processes
<1> QED  BY <1>3, <1>4, <1>5, <1>6 DEF ShmNext

\* On a ring to which nothing happened, the counts are 0 and the slots empty.
LEMMA FreshPair ==
  ASSUME NEW p, NEW c, Fresh', name' \in Segments,
         pc'[p] \in Starting \cup {"ready"}, pc'[c] \in Starting \cup {"ready"}
  PROVE  PairCounts(p, c)' /\ PairSlots(p)' /\ PairReceived(c)'
<1>1. pushes' = 0 /\ pops' = 0 /\ Heads(c)' = 0 /\ Written(p)' = 0
  BY DEF Fresh, pushes, pops, Heads, Written, Starting
<1>2. Capacity \in Nat /\ Capacity >= 1 /\ 0 % Capacity = 0
  BY CapacityAssumption, FirstLap
<1>3. PairCounts(p, c)'
  BY <1>1, <1>2 DEF PairCounts, Fresh, Starting
<1>4. PairSlots(p)'
  <2>1. ASSUME NEW x \in 0..(Capacity - 1)  PROVE slots'[name'][x % Capacity] = Nothing
    <3>1. x % Capacity \in Slots
      BY <1>2, DivMod DEF Slots
    <3> QED  BY <3>1 DEF Fresh
  <2> QED  BY <1>1, <2>1 DEF PairSlots
<1>5. PairReceived(c)'
  BY <1>1 DEF PairReceived, Starting
<1> QED  BY <1>3, <1>4, <1>5

\* Before the subscriber has the ring, the header is only written with zeros.
LEMMA SetupPair ==
  ASSUME OnePair, BaseInv, DataInv, Plain, NEW p \in Publishers, NEW c \in Subscribers,
         PairInv(p, c), SetupStep(p, c)
  PROVE  PairInv(p, c)'
<1>1. Publishers = {p} /\ Subscribers = {c} /\ p # c /\ p \in Processes /\ c \in Processes
  BY ProcessAssumption DEF OnePair, Processes
<1>2. /\ PairControl(p, c) /\ use.coordinated
      /\ pc \in [Processes -> PublisherLabels \cup SubscriberLabels \cup ReaderLabels]
      /\ pc[c] \in SubscriberLabels
      /\ seg \in [Processes -> Segments \cup {Nothing}] /\ name \in Segments \cup {Nothing}
      /\ sized \in [Segments -> BOOLEAN]
      /\ head \in [Segments -> Slots] /\ tail \in [Segments -> Slots]
      /\ pc[p] \notin {"off", "open"} => seg[p] \in Segments
      /\ pc[c] \notin {"off", "open"} => seg[c] \in Segments
  <2>1. PairControl(p, c) /\ use.coordinated
    BY DEF PairInv, Plain, InOrderStart
  <2> QED  BY <1>1, <2>1 DEF BaseInv, DataInv, ControlInv, IndexInv
<1>3. Fresh
  <2>1. pc[p] \in Starting \/ pc[c] \in Starting
    BY DEF SetupStep, Start, OpenCreate, Truncate, OpenAttach, InitCapacity, InitHead, InitTail, Starting
  <2> QED  BY <1>2, <2>1 DEF PairControl
<1>4. Fresh'
  <2>1. UNCHANGED <<pushed, received, slots>>
    BY DEF SetupStep, Start, OpenCreate, Truncate, OpenAttach, InitCapacity, InitHead, InitTail, ringVars, history
  <2>2. \A s \in Segments : head'[s] = 0 /\ tail'[s] = 0
    BY <1>2, <1>3 DEF Fresh, SetupStep, Start, OpenCreate, Truncate, OpenAttach, InitCapacity, InitHead, InitTail, ringVars
  <2> QED  BY <1>3, <2>1, <2>2 DEF Fresh
<1>5. PairControl(p, c)'
  <2> USE <1>1, <1>2 DEF PairControl, Goto, Starting, PublisherLabels, SubscriberLabels, segVars, procVars
  <2>1. CASE Start(p)
    BY <1>4, <2>1 DEF Start
  <2>2. CASE OpenCreate(p)
    <3>1. name' # Nothing /\ seg'[p] = name'
      <4>1. created \in Nat
        BY DEF BaseInv, CountInv
      <4> QED  BY <2>2, <4>1, NothingAssumption DEF OpenCreate
    <3>2. pc' = [pc EXCEPT ![p] = "truncate"] /\ pc[p] = "open" /\ use' = use
      BY <2>2 DEF OpenCreate
    <3> QED  BY <1>4, <3>1, <3>2
  <2>3. CASE Truncate(p)
    BY <1>4, <2>3 DEF Truncate
  <2>4. CASE InitCapacity(p) \/ InitHead(p) \/ InitTail(p)
    BY <1>4, <2>4 DEF InitCapacity, InitHead, InitTail
  <2>5. CASE Start(c)
    BY <1>4, <2>5 DEF Start
  <2>6. CASE OpenAttach(c)
    BY <1>4, <2>6 DEF OpenAttach
  <2>7. CASE InitCapacity(c) \/ InitHead(c) \/ InitTail(c)
    BY <1>4, <2>7 DEF InitCapacity, InitHead, InitTail
  <2> QED  BY <2>1, <2>2, <2>3, <2>4, <2>5, <2>6, <2>7 DEF SetupStep
<1>6. pc'[p] \in Starting \cup {"ready"} /\ pc'[c] \in Starting \cup {"ready"}
  BY <1>1, <1>2 DEF PairControl, Starting, Goto, SetupStep, Start, OpenCreate, Truncate, OpenAttach, InitCapacity, InitHead, InitTail
<1>7. name' \in Segments \cup {Nothing}
  BY ControlNext, <1>1 DEF ControlInv, ShmNext, SetupStep, Construct, BaseInv
<1> QED  BY <1>4, <1>5, <1>6, <1>7, FreshPair DEF PairInv

\* Once both processes have the ring: what every push and pop step starts from.
LEMMA RunFacts ==
  ASSUME OnePair, BaseInv, DataInv, Plain, NEW p \in Publishers, NEW c \in Subscribers,
         PairInv(p, c), PushesStep(p) \/ PopsStep(c)
  PROVE  /\ Publishers = {p} /\ Subscribers = {c} /\ p # c /\ p \in Processes /\ c \in Processes
         /\ pc[p] \notin Starting /\ pc[c] \notin Starting
         /\ name \in Segments /\ name # Nothing /\ seg[p] = name /\ seg[c] = name
         /\ PairControl(p, c) /\ PairCounts(p, c) /\ PairSlots(p) /\ PairReceived(c)
         /\ pc \in [Processes -> PublisherLabels \cup SubscriberLabels \cup ReaderLabels]
         /\ use.coordinated /\ ~use.dropOldest
<1>1. Publishers = {p} /\ Subscribers = {c} /\ p # c /\ p \in Processes /\ c \in Processes
  BY ProcessAssumption DEF OnePair, Processes
<1>2. use.coordinated /\ ~use.dropOldest /\ use.processes = {p, c}
  BY <1>1 DEF Plain, InOrderStart
<1>3. PairControl(p, c) /\ pc[c] \in SubscriberLabels
  BY DEF PairInv, BaseInv, ControlInv
<1>4. pc[p] \notin Starting /\ pc[c] \notin Starting
  <2>1. CASE PushesStep(p)
    <3>1. CASE PushLoadTail(p)
      BY <1>2, <3>1 DEF PushLoadTail
    <3>2. CASE ~PushLoadTail(p)
      BY <1>3, <2>1, <3>2 DEF PairControl, Starting, PushesStep, PushLoadHead, WriteSlot, StoreTail, PushGivesUp
    <3> QED  BY <3>1, <3>2
  <2>2. CASE PopsStep(c)
    <3>1. pc[c] \notin Starting
      BY <1>1, <2>2, ProcessAssumption DEF Starting, PopsStep, PopLoadHead, PopLoadTail, PopReturnsFalse, ReadSlot, StoreHead
    <3> QED  BY <1>3, <3>1 DEF PairControl, Starting
  <2> QED  BY <2>1, <2>2
<1>5. name \in Segments /\ name # Nothing /\ seg[p] = name /\ seg[c] = name
  BY <1>3, <1>4 DEF PairControl, Starting, BaseInv, ControlInv
<1>6. PairCounts(p, c) /\ PairSlots(p) /\ PairReceived(c)
  BY <1>5 DEF PairInv
<1>7. pc \in [Processes -> PublisherLabels \cup SubscriberLabels \cup ReaderLabels]
  BY DEF BaseInv, ControlInv
<1> QED  BY <1>1, <1>2, <1>3, <1>4, <1>5, <1>6, <1>7

LEMMA RunControl ==
  ASSUME OnePair, BaseInv, DataInv, Plain, NEW p \in Publishers, NEW c \in Subscribers,
         PairInv(p, c), PushesStep(p) \/ PopsStep(c)
  PROVE  PairControl(p, c)' /\ name' = name /\ use' = use
<1> USE RunFacts DEF Goto, segVars, procVars, PublisherLabels, SubscriberLabels, Starting
<1>1. UNCHANGED <<name, use, sized, seg>>
  BY DEF PushesStep, PushLoadTail, PushLoadHead, WriteSlot, StoreTail, PushGivesUp,
     PopsStep, PopLoadHead, PopLoadTail, PopReturnsFalse, ReadSlot, StoreHead
<1>2. CASE PushesStep(p)
  <2>1. /\ pc'[c] = pc[c]
        /\ pc'[p] \in {"ready", "pushHead", "full", "write", "storeTail", "writeLate"}
        /\ use.ordered => pc'[p] # "writeLate"
    <3>1. CASE PushLoadTail(p) \/ PushLoadHead(p) \/ PushGivesUp(p)
      BY <3>1 DEF PushLoadTail, PushLoadHead, PushGivesUp, NextMessage
    <3>2. CASE WriteSlot(p) \/ StoreTail(p)
      BY <3>2 DEF WriteSlot, StoreTail, NextMessage
    <3> QED  BY <1>2, <3>1, <3>2 DEF PushesStep
  <2> QED  BY <1>1, <2>1 DEF PairControl
<1>3. CASE PopsStep(c)
  <2>1. /\ pc'[p] = pc[p]
        /\ pc'[c] \in {"ready", "popTail", "empty", "read", "storeHead", "readLate"}
        /\ use.ordered => pc'[c] # "readLate"
    <3>1. CASE PopLoadHead(c) \/ PopLoadTail(c) \/ PopReturnsFalse(c)
      BY <3>1 DEF PopLoadHead, PopLoadTail, PopReturnsFalse
    <3>2. CASE ReadSlot(c) \/ StoreHead(c)
      BY <3>2 DEF ReadSlot, StoreHead, PopReturnsTrue
    <3> QED  BY <1>3, <3>1, <3>2 DEF PopsStep
  <2> QED  BY <1>1, <2>1 DEF PairControl
<1> QED  BY <1>1, <1>2, <1>3

\* Slots of indices less than a lap apart differ; a lap later it is the same.
LEMMA SlotFacts ==
  /\ Capacity \in Nat /\ Capacity >= 1
  /\ \A x \in Nat : x % Capacity \in Slots
  /\ \A x, y \in Nat : x < y /\ y < x + Capacity => x % Capacity # y % Capacity
  /\ \A x \in Nat : (x + Capacity) % Capacity = x % Capacity
  /\ \A x \in Nat : Wrap(x % Capacity) = (x + 1) % Capacity
<1>0. Capacity \in Nat /\ Capacity >= 1
  BY CapacityAssumption
<1>1. ASSUME NEW x \in Nat  PROVE x % Capacity \in Slots
  BY <1>0, DivMod, Zenon DEF Slots
<1>2. ASSUME NEW x \in Nat, NEW y \in Nat, x < y, y < x + Capacity  PROVE x % Capacity # y % Capacity
  <2>1. x % Capacity = y % Capacity => x + Capacity <= y
    BY <1>0, <1>2, SameCell, Zenon
  <2> HIDE DEF Slots
  <2>2. ~(x + Capacity <= y)
    BY <1>0, <1>2
  <2> QED  BY <2>1, <2>2
<1>3. ASSUME NEW x \in Nat  PROVE (x + Capacity) % Capacity = x % Capacity
  BY <1>0, NextLap, Zenon
<1>4. ASSUME NEW x \in Nat  PROVE Wrap(x % Capacity) = (x + 1) % Capacity
  BY <1>0, StepMod, Zenon DEF Wrap
<1> QED  BY <1>0, <1>1, <1>2, <1>3, <1>4

\* The counts are naturals, and no slot is written a lap ahead of the reads.
LEMMA CountFacts ==
  ASSUME DataInv, NEW p, NEW c, PairCounts(p, c)
  PROVE  /\ pushes \in Nat /\ pops \in Nat /\ Heads(c) \in Nat /\ Written(p) \in Nat
         /\ pops <= Heads(c) /\ Heads(c) <= pops + 1 /\ Heads(c) <= pushes
         /\ pushes <= Written(p) + 1 /\ Written(p) <= pushes + 1
         /\ Written(p) <= pops + Capacity
         /\ use.ordered /\ pc[p] # "writeLate" => pushes <= Written(p)
<1>1. pushes \in Nat /\ pops \in Nat
  BY DEF DataInv, pushes, pops
<1>2. pops <= Heads(c) /\ Heads(c) <= pops + 1 /\ Heads(c) \in Nat
  BY <1>1 DEF Heads
<1>3. /\ Heads(c) <= pushes /\ pushes < Heads(c) + Capacity
      /\ pc[p] = "writeLate" => pushes > 0
      /\ pc[p] = "storeTail" => pushes + 1 < Heads(c) + Capacity
  BY DEF PairCounts
<1>4. Capacity \in Nat
  BY CapacityAssumption
<1> QED  BY <1>1, <1>2, <1>3, <1>4 DEF Written

\* A step that writes no slot and adds nothing to what was written.
LEMMA KeepSlots ==
  ASSUME NEW p, PairSlots(p), UNCHANGED <<slots, name>>, Written(p) \in Nat, Written(p)' = Written(p),
         \A i \in 1..Written(p) : Sent(p)'[i] = Sent(p)[i]
  PROVE  PairSlots(p)'
<1>1. \A x \in 0..(Written(p) - 1) : x + 1 \in 1..Written(p)
  OBVIOUS
<1> QED  BY <1>1 DEF PairSlots

\* A step after which the subscriber has got what it had, and pushed is longer
\* at most.
LEMMA KeepReceived ==
  ASSUME NEW c, PairReceived(c), UNCHANGED <<received, use, out>>, pops \in Nat, pushes \in Nat, pops <= pushes,
         pc'[c] = "storeHead" => pc[c] = "storeHead" /\ pops < pushes,
         \A i \in 1..pushes : pushed'[i] = pushed[i]
  PROVE  PairReceived(c)'
<1>1. pops' = pops
  BY DEF pops
<1>2. ASSUME NEW n \in 1..pushes, NEW v, Delivered(n, v)  PROVE Delivered(n, v)'
  <2>1. Capacity \in Nat /\ n \in Nat
    BY CapacityAssumption
  <2>2. n > Capacity => n - Capacity \in 1..pushes
    BY <2>1
  <2>3. CASE v = pushed[n]
    BY <2>3 DEF Delivered
  <2>4. CASE ~use.ordered /\ (v = IF n <= Capacity THEN Nothing ELSE pushed[n - Capacity])
    <3>1. v = IF n <= Capacity THEN Nothing ELSE pushed'[n - Capacity]
      BY <2>1, <2>2, <2>4
    <3> QED  BY <2>4, <3>1, Zenon DEF Delivered
  <2> QED  BY <1>2, <2>3, <2>4 DEF Delivered
<1>3. \A n \in 1..pops : Delivered(n, received[n])'
  <2>1. \A n \in 1..pops : n \in 1..pushes /\ Delivered(n, received[n])
    BY DEF PairReceived
  <2>2. \A n \in 1..pops : received'[n] = received[n]
    OBVIOUS
  <2> QED  BY <1>2, <2>1, <2>2, Zenon
<1>4. ASSUME pc'[c] = "storeHead"  PROVE Delivered(pops + 1, out[c])'
  <2>1. pops + 1 \in 1..pushes /\ Delivered(pops + 1, out[c])
    BY <1>4 DEF PairReceived
  <2>2. out'[c] = out[c]
    OBVIOUS
  <2> QED  BY <1>1, <1>2, <2>1, <2>2, Zenon
<1> QED  BY <1>1, <1>3, <1>4, Zenon DEF PairReceived

\* What the subscriber finds in its slot, however early the indices were
\* stored: its message, or what was there a lap ago.
LEMMA SlotRead ==
  ASSUME DataInv, NEW p, NEW c, PairControl(p, c), PairCounts(p, c), PairSlots(p), pops < pushes
  PROVE  Delivered(pops + 1, slots[name][pops % Capacity])
<1> DEFINE w == Written(p)
           r == pops
           v == slots[name][pops % Capacity]
<1>1. /\ r \in Nat /\ w \in Nat /\ w <= r + Capacity /\ r <= w
      /\ Capacity \in Nat /\ Capacity >= 1
  BY CountFacts, SlotFacts
<1>2. use.ordered => r < w
  BY CountFacts DEF PairControl
<1>3. \A i \in 1..pushes : Sent(p)[i] = pushed[i]
  BY DEF Sent, DataInv, pushes
<1>4. CASE r < w
  <2>1. r \in 0..(w - 1) /\ r + 1 \in 1..pushes
    BY <1>1, <1>4, CountFacts
  <2>2. v = Sent(p)[r + 1]
    BY <1>1, <2>1 DEF PairSlots
  <2>3. v = pushed[r + 1]
    BY <1>3, <2>1, <2>2
  <2> QED  BY <2>3 DEF Delivered
<1>5. CASE ~(r < w)
  <2>1. w = r /\ ~use.ordered
    BY <1>1, <1>2, <1>5
  <2>2. CASE r < Capacity
    <3>1. r \in w..(Capacity - 1)
      BY <1>1, <2>1, <2>2
    <3>2. v = Nothing
      BY <3>1 DEF PairSlots
    <3>3. r + 1 <= Capacity
      BY <1>1, <2>2
    <3> QED  BY <2>1, <3>2, <3>3 DEF Delivered
  <2>3. CASE ~(r < Capacity)
    <3> DEFINE x == r - Capacity
    <3>1. x \in Nat /\ x + Capacity = r /\ x \in 0..(w - 1) /\ w <= x + Capacity /\ x + 1 \in 1..pushes
      BY <1>1, <2>1, <2>3, CountFacts
    <3>2. x % Capacity = r % Capacity
      BY <3>1, SlotFacts
    <3>3. v = Sent(p)[x + 1]
      BY <3>1, <3>2 DEF PairSlots
    <3>4. v = pushed[x + 1] /\ x + 1 = (r + 1) - Capacity /\ ~(r + 1 <= Capacity)
      BY <1>1, <1>3, <2>3, <3>1, <3>3
    <3>5. v = pushed[(pops + 1) - Capacity] /\ ~(pops + 1 <= Capacity)
      BY <3>4, Zenon
    <3> QED  BY <2>1, <3>5, Zenon DEF Delivered
  <2> QED  BY <2>2, <2>3
<1> QED  BY <1>4, <1>5

\* The publisher writes the next slot: no slot of the lap before it is lost
\* but the one a lap ago.
LEMMA SlotWritten ==
  ASSUME NEW p, DataInv, PairSlots(p), name \in Segments, NEW m,
         Written(p) \in Nat, Written(p)' = Written(p) + 1, UNCHANGED name,
         slots' = [slots EXCEPT ![name][Written(p) % Capacity] = m],
         Sent(p)'[Written(p) + 1] = m, \A i \in 1..Written(p) : Sent(p)'[i] = Sent(p)[i]
  PROVE  PairSlots(p)'
<1> DEFINE w == Written(p)
<1>1. Capacity \in Nat /\ Capacity >= 1 /\ w \in Nat /\ w % Capacity \in Slots
  BY SlotFacts
<1>2. /\ slots'[name][w % Capacity] = m
      /\ \A i \in Slots : i # w % Capacity => slots'[name][i] = slots[name][i]
  BY <1>1 DEF DataInv
<1>3. ASSUME NEW x \in 0..w, w + 1 <= x + Capacity  PROVE slots'[name][x % Capacity] = Sent(p)'[x + 1]
  <2>1. CASE x = w
    BY <1>2, <2>1
  <2>2. CASE x # w
    <3>1. x \in Nat /\ x \in 0..(w - 1) /\ x + 1 \in 1..w /\ w <= x + Capacity /\ x < w /\ w < x + Capacity
      BY <1>1, <1>3, <2>2
    <3>2. x % Capacity \in Slots /\ x % Capacity # w % Capacity
      BY <1>1, <3>1, SlotFacts
    <3>3. slots[name][x % Capacity] = Sent(p)[x + 1]
      BY <3>1 DEF PairSlots
    <3>4. Sent(p)'[x + 1] = Sent(p)[x + 1]
      BY <3>1
    <3> QED  BY <1>2, <3>2, <3>3, <3>4
  <2> QED  BY <2>1, <2>2
<1>4. ASSUME NEW x \in (w + 1)..(Capacity - 1)  PROVE slots'[name][x % Capacity] = Nothing
  <2>1. x \in Nat /\ x \in w..(Capacity - 1) /\ w < x /\ x < w + Capacity
    BY <1>1
  <2>2. x % Capacity \in Slots /\ x % Capacity # w % Capacity
    BY <1>1, <2>1, SlotFacts
  <2> QED  BY <1>2, <2>1, <2>2 DEF PairSlots
<1>5. Written(p)' - 1 = w
  BY <1>1
<1>6. \A x \in 0..(Written(p)' - 1) : Written(p)' <= x + Capacity => slots'[name][x % Capacity] = Sent(p)'[x + 1]
  BY <1>3, <1>5
<1>7. \A x \in Written(p)'..(Capacity - 1) : slots'[name][x % Capacity] = Nothing
  BY <1>4
<1> QED  BY <1>6, <1>7, Zenon DEF PairSlots

\* The steps of one process leave the other's label and locals alone.
LEMMA PushFrame ==
  ASSUME OnePair, BaseInv, DataInv, Plain, NEW p \in Publishers, NEW c \in Subscribers,
         PairInv(p, c), PushesStep(p)
  PROVE  /\ UNCHANGED <<name, use, received, head, out>>
         /\ pc'[c] = pc[c] /\ h'[c] = h[c] /\ Heads(c)' = Heads(c) /\ pops' = pops
<1>0. h \in [Processes -> Slots]
  BY DEF BaseInv, IndexInv
<1>1. UNCHANGED <<name, use, received, head, out>>
  BY DEF PushesStep, PushLoadTail, PushLoadHead, WriteSlot, StoreTail, PushGivesUp, segVars, ringVars, history
<1>2. pc'[c] = pc[c]
  BY RunFacts DEF PushesStep, PushLoadTail, PushLoadHead, WriteSlot, StoreTail, PushGivesUp, NextMessage, Goto
<1>3. h'[c] = h[c]
  BY <1>0, RunFacts DEF PushesStep, PushLoadTail, PushLoadHead, WriteSlot, StoreTail, PushGivesUp
<1> QED  BY <1>1, <1>2, <1>3 DEF Heads, pops

LEMMA PopFrame ==
  ASSUME OnePair, BaseInv, DataInv, Plain, NEW p \in Publishers, NEW c \in Subscribers,
         PairInv(p, c), PopsStep(c)
  PROVE  /\ UNCHANGED <<name, use, pushed, tail, slots, seq>>
         /\ pc'[p] = pc[p] /\ t'[p] = t[p] /\ pushes' = pushes
         /\ Written(p)' = Written(p) /\ Sent(p)' = Sent(p)
<1>0. t \in [Processes -> Slots]
  BY DEF BaseInv, IndexInv
<1>1. UNCHANGED <<name, use, pushed, tail, slots, seq>>
  BY RunFacts DEF PopsStep, PopLoadHead, PopLoadTail, PopReturnsFalse, ReadSlot, StoreHead,
     segVars, ringVars, localVars, history
<1>2. pc'[p] = pc[p]
  BY RunFacts DEF PopsStep, PopLoadHead, PopLoadTail, PopReturnsFalse, ReadSlot, StoreHead, PopReturnsTrue, Goto
<1>3. t'[p] = t[p]
  BY <1>0, RunFacts DEF PopsStep, PopLoadHead, PopLoadTail, PopReturnsFalse, ReadSlot, StoreHead, localVars
<1> QED  BY <1>1, <1>2, <1>3 DEF Written, Sent, pushes

\* The publisher's steps keep the counts, the slots and what was received.
LEMMA PushPair ==
  ASSUME OnePair, BaseInv, DataInv, Plain, NEW p \in Publishers, NEW c \in Subscribers,
         PairInv(p, c), PushesStep(p)
  PROVE  PairCounts(p, c)' /\ PairSlots(p)' /\ PairReceived(c)'
<1>0. /\ pushed \in Seq(Messages) /\ seq[p] \in Messages
      /\ tail \in [Segments -> Slots] /\ t \in [Processes -> Slots]
  BY RunFacts DEF DataInv, BaseInv, IndexInv
<1>a. /\ pushes \in Nat /\ pops \in Nat /\ Heads(c) \in Nat /\ Written(p) \in Nat
      /\ pops <= pushes /\ Capacity \in Nat /\ Capacity >= 1
  BY RunFacts, CountFacts, SlotFacts
<1>r. ASSUME \A i \in 1..pushes : pushed'[i] = pushed[i]  PROVE PairReceived(c)'
  <2>1. pc[c] = "storeHead" => pops < pushes
    BY RunFacts DEF PairCounts
  <2> QED  BY <1>a, <1>r, <2>1, RunFacts, PushFrame, KeepReceived
<1>1. CASE PushLoadTail(p) \/ PushLoadHead(p) \/ PushGivesUp(p)
  <2>1. UNCHANGED <<pushed, tail, slots>> /\ pushes' = pushes
    BY <1>1 DEF PushLoadTail, PushLoadHead, PushGivesUp, ringVars, history, pushes
  <2>2. /\ pc[p] \in {"ready", "pushHead", "full"} /\ pc'[p] \in {"ready", "pushHead", "full", "write"}
    BY <1>1, RunFacts DEF PairControl, PublisherLabels, PushLoadTail, PushLoadHead, PushGivesUp, NextMessage, Goto
  <2>3. Written(p)' = Written(p) /\ Sent(p)' = Sent(p)
    BY <2>1, <2>2 DEF Written, Sent
  <2>4. pc'[p] \in {"pushHead", "full", "write"} => t'[p] = pushes % Capacity
    BY <1>0, <1>1, RunFacts DEF PairCounts, PushLoadTail, PushLoadHead, PushGivesUp, NextMessage, Goto
  <2>5. pc'[p] = "write" => pushes + 1 < Heads(c) + Capacity
    <3> SUFFICES ASSUME pc'[p] = "write"  PROVE pushes + 1 < Heads(c) + Capacity
      OBVIOUS
    <3>1. Wrap(t[p]) # head[name] /\ pc[p] = "pushHead"
      BY <1>1, <2>2, RunFacts DEF PushLoadTail, PushLoadHead, PushGivesUp, NextMessage, Goto, IsFull
    <3>2. t[p] = pushes % Capacity /\ head[name] = Heads(c) % Capacity
      BY <3>1, RunFacts DEF PairCounts
    <3>3. (pushes + 1) % Capacity # Heads(c) % Capacity
      BY <1>a, <3>1, <3>2, SlotFacts
    <3>4. pushes + 1 # Heads(c) + Capacity
      BY <1>a, <3>3, SlotFacts
    <3>5. pushes < Heads(c) + Capacity
      BY RunFacts DEF PairCounts
    <3> QED  BY <1>a, <3>4, <3>5
  <2>6. PairCounts(p, c)'
    BY <2>1, <2>2, <2>4, <2>5, RunFacts, PushFrame DEF PairCounts
  <2>7. PairSlots(p)'
    BY <1>a, <2>1, <2>3, RunFacts, PushFrame, KeepSlots
  <2> QED  BY <1>r, <2>1, <2>6, <2>7
<1>2. CASE WriteSlot(p)
  <2>1. /\ UNCHANGED <<pushed, tail, t>> /\ pushes' = pushes
        /\ slots' = [slots EXCEPT ![name][t[p]] = seq[p]]
    BY <1>2, RunFacts DEF WriteSlot, history, pushes
  <2>2. CASE pc[p] = "write"
    <3>1. pc'[p] = "storeTail" /\ seq' = seq
      BY <1>2, <2>2, RunFacts DEF WriteSlot, Goto
    <3>2. /\ Written(p) = pushes /\ Written(p)' = pushes + 1 /\ t[p] = Written(p) % Capacity
          /\ Sent(p)' = Append(pushed, seq[p]) /\ Sent(p) = pushed
          /\ pushes + 1 < Heads(c) + Capacity
      BY <2>1, <2>2, <3>1, RunFacts DEF Written, Sent, PairCounts
    <3>3. Sent(p)'[Written(p) + 1] = seq[p] /\ \A i \in 1..Written(p) : Sent(p)'[i] = Sent(p)[i]
      BY <1>0, <3>2 DEF pushes
    <3>4. PairSlots(p)'
      BY <1>a, <2>1, <3>2, <3>3, RunFacts, PushFrame, SlotWritten
    <3>5. PairCounts(p, c)'
      BY <2>1, <3>1, <3>2, RunFacts, PushFrame DEF PairCounts
    <3> QED  BY <1>r, <2>1, <3>4, <3>5
  <2>3. CASE pc[p] = "writeLate"
    <3>1. pc'[p] = "ready"
      BY <1>2, <2>3, RunFacts DEF WriteSlot, NextMessage, Goto
    <3>2. /\ pushes > 0 /\ t[p] = (pushes - 1) % Capacity /\ pushed[pushes] = seq[p]
      BY <2>3, RunFacts DEF PairCounts
    <3>3. Written(p) = pushes - 1 /\ Written(p)' = Written(p) + 1 /\ Sent(p)' = pushed /\ Sent(p) = pushed
      BY <1>a, <2>1, <2>3, <3>1 DEF Written, Sent
    <3>4. Sent(p)'[Written(p) + 1] = seq[p] /\ t[p] = Written(p) % Capacity
      BY <1>a, <3>2, <3>3
    <3>5. PairSlots(p)'
      BY <1>a, <2>1, <3>3, <3>4, RunFacts, PushFrame, SlotWritten
    <3>6. PairCounts(p, c)'
      BY <2>1, <3>1, RunFacts, PushFrame DEF PairCounts
    <3> QED  BY <1>r, <2>1, <3>5, <3>6
  <2> QED  BY <1>2, <2>2, <2>3 DEF WriteSlot
<1>3. CASE StoreTail(p)
  <2>1. /\ UNCHANGED <<slots, t>> /\ pushed' = Append(pushed, seq[p])
        /\ tail' = [tail EXCEPT ![name] = Wrap(t[p])]
    BY <1>3, RunFacts DEF StoreTail, Recorded
  <2>2. /\ pushes' = pushes + 1 /\ pushed'[pushes + 1] = seq[p]
        /\ \A i \in 1..pushes : pushed'[i] = pushed[i]
    BY <1>0, <2>1 DEF pushes
  <2>3. pc[p] \in {"storeTail", "write"}
    BY <1>3 DEF StoreTail
  <2>4. t[p] = pushes % Capacity /\ pushes + 1 < Heads(c) + Capacity /\ Heads(c) <= pushes
    BY <2>3, RunFacts DEF PairCounts
  <2>5. tail'[name] = pushes' % Capacity
    BY <1>0, <1>a, <2>1, <2>2, <2>4, RunFacts, SlotFacts
  <2>6. CASE pc[p] = "storeTail"
    <3>1. pc'[p] = "ready"
      BY <1>3, <2>6, RunFacts DEF StoreTail, NextMessage, Goto
    <3>2. Written(p)' = Written(p) /\ Sent(p)' = Sent(p)
      BY <2>1, <2>2, <2>6, <3>1 DEF Written, Sent
    <3>3. PairCounts(p, c)'
      BY <1>a, <2>2, <2>4, <2>5, <3>1, RunFacts, PushFrame DEF PairCounts
    <3>4. PairSlots(p)'
      BY <1>a, <2>1, <3>2, RunFacts, PushFrame, KeepSlots
    <3> QED  BY <1>r, <2>2, <3>3, <3>4
  <2>7. CASE pc[p] = "write"
    <3>1. pc'[p] = "writeLate" /\ seq' = seq
      BY <1>3, <2>7, RunFacts DEF StoreTail, Goto
    <3>2. Written(p)' = Written(p) /\ Written(p) = pushes /\ Sent(p)' = pushed' /\ Sent(p) = pushed
      BY <1>a, <2>1, <2>2, <2>7, <3>1 DEF Written, Sent
    <3>3. PairCounts(p, c)'
      <4>1. pushes' - 1 = pushes /\ pushes' > 0 /\ pushed'[pushes'] = seq'[p] /\ t'[p] = (pushes' - 1) % Capacity
        BY <1>a, <2>1, <2>2, <2>4, <3>1
      <4> QED  BY <1>a, <2>2, <2>4, <2>5, <3>1, <4>1, RunFacts, PushFrame DEF PairCounts
    <3>4. PairSlots(p)'
      <4>1. \A i \in 1..Written(p) : Sent(p)'[i] = Sent(p)[i]
        BY <2>2, <3>2, Zenon
      <4> QED  BY <1>a, <2>1, <3>2, <4>1, RunFacts, PushFrame, KeepSlots
    <3> QED  BY <1>r, <2>2, <3>3, <3>4
  <2> QED  BY <2>3, <2>6, <2>7
<1> QED  BY <1>1, <1>2, <1>3 DEF PushesStep

\* The subscriber's steps keep the counts and the slots, and what it gets is
\* what its slot held.
LEMMA PopPair ==
  ASSUME OnePair, BaseInv, DataInv, Plain, NEW p \in Publishers, NEW c \in Subscribers,
         PairInv(p, c), PopsStep(c)
  PROVE  PairCounts(p, c)' /\ PairSlots(p)' /\ PairReceived(c)'
<1>0. /\ received \in Seq(Messages \cup {Nothing}) /\ out \in [Processes -> Messages \cup {Nothing}]
      /\ head \in [Segments -> Slots] /\ h \in [Processes -> Slots]
      /\ slots \in [Segments -> [Slots -> Messages \cup {Nothing}]]
  BY DEF DataInv, BaseInv, IndexInv
<1>a. /\ pushes \in Nat /\ pops \in Nat /\ Heads(c) \in Nat /\ Written(p) \in Nat
      /\ pops <= pushes /\ Capacity \in Nat /\ Capacity >= 1
  BY RunFacts, CountFacts, SlotFacts
<1>s. PairSlots(p)'
  BY <1>a, RunFacts, PopFrame, KeepSlots
<1>g. ASSUME NEW v \in Messages \cup {Nothing}, received' = Append(received, v), Delivered(pops + 1, v),
             pc'[c] # "storeHead"
      PROVE  PairReceived(c)' /\ pops' = pops + 1
  <2>1. pops' = pops + 1 /\ received'[pops + 1] = v /\ \A n \in 1..pops : received'[n] = received[n]
    BY <1>0, <1>g DEF pops
  <2>2. \A n, u : Delivered(n, u) => Delivered(n, u)'
    BY PopFrame DEF Delivered
  <2>3. ASSUME NEW n \in 1..pops'  PROVE Delivered(n, received[n])'
    <3>1. CASE n = pops + 1
      BY <1>g, <2>1, <2>2, <3>1, Zenon
    <3>2. CASE n # pops + 1
      <4>1. n \in 1..pops
        BY <1>a, <2>1, <3>2
      <4>2. Delivered(n, received[n]) /\ received'[n] = received[n]
        BY <2>1, <4>1, RunFacts DEF PairReceived
      <4> QED  BY <2>2, <4>2, Zenon
    <3> QED  BY <3>1, <3>2
  <2> QED  BY <1>g, <2>1, <2>3 DEF PairReceived
<1>1. CASE PopLoadHead(c) \/ PopLoadTail(c) \/ PopReturnsFalse(c)
  <2>1. UNCHANGED <<received, head, out>> /\ pops' = pops
    BY <1>1 DEF PopLoadHead, PopLoadTail, PopReturnsFalse, ringVars, history, pops
  <2>2. pc[c] \in {"ready", "popTail", "empty"} /\ pc'[c] \in {"ready", "popTail", "empty", "read"}
    <3>1. pc[c] \in SubscriberLabels /\ c \notin Publishers
      BY ProcessAssumption DEF BaseInv, ControlInv
    <3> QED  BY <1>1, <3>1, RunFacts DEF PopLoadHead, PopLoadTail, PopReturnsFalse, Goto, SubscriberLabels
  <2>3. Heads(c)' = Heads(c) /\ Heads(c) = pops
    BY <2>1, <2>2 DEF Heads
  <2>4. pc'[c] \in {"popTail", "empty", "read"} => h'[c] = pops % Capacity
    BY <1>0, <1>1, <2>3, RunFacts DEF PairCounts, PopLoadHead, PopLoadTail, PopReturnsFalse, Goto
  <2>5. pc'[c] = "read" => pops < pushes
    <3> SUFFICES ASSUME pc'[c] = "read"  PROVE pops < pushes
      OBVIOUS
    <3>1. h[c] # tail[name] /\ pc[c] = "popTail"
      BY <1>1, <2>2, RunFacts DEF PopLoadHead, PopLoadTail, PopReturnsFalse, Goto
    <3>2. h[c] = pops % Capacity /\ tail[name] = pushes % Capacity
      BY <3>1, RunFacts DEF PairCounts
    <3> QED  BY <1>a, <3>1, <3>2
  <2>6. PairCounts(p, c)'
    BY <2>1, <2>2, <2>3, <2>4, <2>5, RunFacts, PopFrame DEF PairCounts
  <2>7. PairReceived(c)'
    BY <1>a, <2>1, <2>2, RunFacts, PopFrame, KeepReceived
  <2> QED  BY <1>s, <2>6, <2>7
<1>2. CASE ReadSlot(c)
  <2>1. pc[c] \in {"read", "readLate"} /\ h[c] = pops % Capacity /\ pops < pushes
    BY <1>2, RunFacts DEF ReadSlot, PairCounts
  <2> DEFINE v == slots[name][h[c]]
  <2>2. v \in Messages \cup {Nothing} /\ Delivered(pops + 1, v)
    BY <1>0, <2>1, RunFacts, SlotRead
  <2>3. UNCHANGED <<head, h>> /\ out' = [out EXCEPT ![c] = v]
    BY <1>2, RunFacts DEF ReadSlot, ringVars
  <2> HIDE DEF v
  <2>4. CASE pc[c] = "read"
    <3>1. pc'[c] = "storeHead" /\ received' = received /\ pops' = pops /\ Heads(c)' = Heads(c)
      BY <1>2, <2>4, RunFacts DEF ReadSlot, Goto, pops, Heads
    <3>2. PairCounts(p, c)'
      BY <2>1, <2>3, <2>4, <3>1, RunFacts, PopFrame DEF PairCounts
    <3>3. PairReceived(c)'
      <4>1. out'[c] = v
        BY <1>0, <2>3, RunFacts
      <4>2. \A n, u : Delivered(n, u) => Delivered(n, u)'
        BY PopFrame DEF Delivered
      <4>3. \A n \in 1..pops : Delivered(n, received[n])
        BY RunFacts DEF PairReceived
      <4>4. Delivered(pops + 1, out[c])' /\ \A n \in 1..pops : Delivered(n, received[n])'
        BY <2>2, <3>1, <4>1, <4>2, <4>3, Zenon
      <4> QED  BY <3>1, <4>4, Zenon DEF PairReceived
    <3> QED  BY <1>s, <3>2, <3>3
  <2>5. CASE pc[c] = "readLate"
    <3>1. pc'[c] = "ready" /\ received' = Append(received, v)
      BY <1>2, <2>5, RunFacts, ProcessAssumption DEF ReadSlot, PopReturnsTrue, Recorded, Goto, v
    <3>2. PairReceived(c)' /\ pops' = pops + 1
      BY <1>g, <2>2, <3>1
    <3>3. Heads(c)' = Heads(c)
      BY <2>5, <3>1, <3>2 DEF Heads
    <3>4. PairCounts(p, c)'
      BY <2>3, <3>1, <3>3, RunFacts, PopFrame DEF PairCounts
    <3> QED  BY <1>s, <3>2, <3>4
  <2> QED  BY <2>1, <2>4, <2>5
<1>3. CASE StoreHead(c)
  <2>1. pc[c] \in {"storeHead", "read"} /\ h[c] = pops % Capacity /\ pops < pushes /\ Heads(c) = pops
    BY <1>3, RunFacts DEF StoreHead, PairCounts, Heads
  <2>2. UNCHANGED <<h, out>> /\ head' = [head EXCEPT ![name] = Wrap(h[c])]
    BY <1>3, RunFacts DEF StoreHead, localVars
  <2>3. head'[name] = (pops + 1) % Capacity
    BY <1>0, <1>a, <2>1, <2>2, RunFacts, SlotFacts
  <2>c. ASSUME Heads(c)' = pops + 1, pc'[c] \in {"ready", "readLate"}, pc'[c] = "readLate" => pops' = pops
        PROVE  PairCounts(p, c)'
    <3>1. /\ pops + 1 <= pushes /\ pushes < (pops + 1) + Capacity
          /\ pc[p] \in {"write", "storeTail"} => pushes + 1 < (pops + 1) + Capacity
      BY <1>a, <2>1, RunFacts DEF PairCounts
    <3> QED  BY <2>1, <2>2, <2>3, <2>c, <3>1, RunFacts, PopFrame DEF PairCounts
  <2>4. CASE pc[c] = "storeHead"
    <3>1. pc'[c] = "ready" /\ received' = Append(received, out[c])
      BY <1>3, <2>4, RunFacts, ProcessAssumption DEF StoreHead, PopReturnsTrue, Recorded, Goto
    <3>2. out[c] \in Messages \cup {Nothing} /\ Delivered(pops + 1, out[c])
      BY <1>0, <2>4, RunFacts DEF PairReceived
    <3>3. PairReceived(c)' /\ pops' = pops + 1
      BY <1>g, <3>1, <3>2
    <3>4. Heads(c)' = pops + 1
      BY <3>1, <3>3 DEF Heads
    <3> QED  BY <1>s, <2>c, <3>1, <3>3, <3>4
  <2>5. CASE pc[c] = "read"
    <3>1. pc'[c] = "readLate" /\ received' = received /\ pops' = pops
      BY <1>3, <2>5, RunFacts DEF StoreHead, Goto, pops
    <3>2. Heads(c)' = pops + 1
      BY <3>1 DEF Heads
    <3>3. PairReceived(c)'
      BY <1>a, <2>2, <3>1, RunFacts, PopFrame, KeepReceived
    <3> QED  BY <1>s, <2>c, <3>1, <3>2, <3>3
  <2> QED  BY <2>1, <2>4, <2>5
<1> QED  BY <1>1, <1>2, <1>3 DEF PopsStep

LEMMA PlainInit == ShmInit => PlainInv
<1> SUFFICES ASSUME ShmInit  PROVE PlainInv
  OBVIOUS
<1>1. \A p \in Processes : pc[p] = "off"
  BY DEF ShmInit
<1>2. name = Nothing /\ Fresh
  BY DEF ShmInit, Fresh
<1>3. ASSUME NEW p \in Publishers, NEW c \in Subscribers  PROVE PairInv(p, c)
  BY <1>1, <1>2 DEF PairInv, PairControl, PublisherLabels, Starting, Processes
<1> QED  BY <1>1, <1>3 DEF PlainInv, Processes

\* The way of use never changes.
LEMMA UseKept == [ShmNext]_shmVars => use' = use
<1> SUFFICES ASSUME [ShmNext]_shmVars  PROVE use' = use
  OBVIOUS
<1>1. ASSUME NEW p \in Processes, Start(p) \/ Construct(p) \/ Exit(p) \/ Kill(p)  PROVE use' = use
  BY <1>1 DEF segVars, Start, Construct, OpenCreate, Truncate, OpenAttach, InitCapacity, InitHead, InitTail, BusError, Exit, Kill
<1>2. ASSUME NEW p \in Processes, PushStep(p) \/ PopStep(p)  PROVE use' = use
  BY <1>2 DEF segVars, PushStep, PushLoadTail, PushLoadHead, WriteSlot, StoreTail, PushGivesUp, PushDrops,
     PopStep, PopLoadHead, PopLoadTail, PopReturnsFalse, ReadSlot, StoreHead
<1>3. ASSUME NEW p \in Processes, ReaderStep(p)  PROVE use' = use
  BY <1>3 DEF segVars, ReaderStep, ReaderOpen, ReaderMap, ReadCapacity, ReadHead, ReadTail, Fetch, DivisionByZero, PrintMessage
<1> QED  BY <1>1, <1>2, <1>3 DEF ShmNext, shmVars, segVars

LEMMA PlainNext == OnePair /\ BaseInv /\ DataInv /\ PlainInv /\ [ShmNext]_shmVars => PlainInv'
<1> SUFFICES ASSUME OnePair, BaseInv, DataInv, PlainInv, [ShmNext]_shmVars, Plain'
             PROVE  /\ \A r \in Readers : pc'[r] = "off"
                    /\ \A p \in Publishers, c \in Subscribers : PairInv(p, c)'
  BY DEF PlainInv
<1>1. Plain
  BY UseKept DEF Plain, InOrderStart
<1>2. \A r \in Readers : pc[r] = "off"
  BY <1>1 DEF PlainInv
<1>3. ASSUME NEW p \in Publishers, NEW c \in Subscribers
      PROVE  SetupStep(p, c) \/ PushesStep(p) \/ PopsStep(c) \/ UNCHANGED shmVars
  BY <1>1, <1>2, PlainSteps DEF PlainInv, PairInv
<1>4. ASSUME NEW p \in Publishers, NEW c \in Subscribers  PROVE PairInv(p, c)'
  <2>1. PairInv(p, c)
    BY <1>1 DEF PlainInv
  <2>2. CASE SetupStep(p, c)
    BY <1>1, <2>1, <2>2, SetupPair
  <2>3. CASE PushesStep(p)
    BY <1>1, <2>1, <2>3, RunControl, PushPair DEF PairInv
  <2>4. CASE PopsStep(c)
    BY <1>1, <2>1, <2>4, RunControl, PopPair DEF PairInv
  <2>5. CASE UNCHANGED shmVars
    BY <2>1, <2>5 DEF shmVars, segVars, ringVars, procVars, localVars, history, PairInv, PairControl, PairCounts, PairSlots, PairReceived,
       Delivered, Sent, Written, Heads, Fresh, pushes, pops
  <2> QED  BY <1>3, <2>2, <2>3, <2>4, <2>5
<1>5. ASSUME NEW r \in Readers  PROVE pc'[r] = "off"
  <2>1. PICK p \in Publishers, c \in Subscribers : p # r /\ c # r /\ p \in Processes /\ c \in Processes /\ r \in Processes
    BY ProcessAssumption DEF OnePair, Processes
  <2>2. pc \in [Processes -> PublisherLabels \cup SubscriberLabels \cup ReaderLabels]
    BY DEF BaseInv, ControlInv
  <2>3. CASE UNCHANGED shmVars
    BY <1>2, <2>3 DEF shmVars
  <2>4. CASE ~UNCHANGED shmVars
    <3>1. \/ \E l : pc' = [pc EXCEPT ![p] = l]
          \/ \E l : pc' = [pc EXCEPT ![c] = l]
      BY <1>3, <2>1, <2>4, OtherLabels DEF BaseInv, SetupStep, PushesStep, PopsStep, Construct, PushStep, PopStep
    <3> QED  BY <1>2, <2>1, <2>2, <3>1
  <2> QED  BY <2>3, <2>4
<1> QED  BY <1>4, <1>5

LEMMA PlainCorrect == ASSUME OnePair  PROVE ShmSpec => []PlainInv
<1>1. BaseInv /\ DataInv /\ PlainInv /\ [ShmNext]_shmVars => PlainInv'
  BY PlainNext
<1> QED  BY <1>1, PlainInit, BaseCorrect, DataCorrect, PTL DEF ShmSpec

\* For every capacity, every number of messages, with accesses in order or
\* not: a publisher that does not drop and a subscriber that started in order
\* lose and shift no message, and what arrives wrongly is one lap old.
THEOREM WrongByLapCorrect == ASSUME OnePair  PROVE ShmSpec => []WrongByLapOnly
<1>1. ASSUME BaseInv, DataInv, PlainInv, Plain, NEW n \in DOMAIN received
      PROVE  \/ received[n] = Nothing /\ n <= Capacity
             \/ \E m \in {n - Capacity, n} : m \in DOMAIN pushed /\ received[n] = pushed[m]
  <2>1. PICK p \in Publishers, c \in Subscribers : PairInv(p, c)
    BY <1>1 DEF OnePair, PlainInv
  <2>2. received \in Seq(Messages \cup {Nothing}) /\ pushed \in Seq(Messages)
    BY <1>1 DEF DataInv
  <2>3. CASE name = Nothing
    <3>1. Fresh
      BY <1>1, <2>1, <2>3 DEF PairInv, PairControl, Starting
    <3> QED  BY <3>1 DEF Fresh
  <2>4. CASE name # Nothing
    <3>1. PairCounts(p, c) /\ PairReceived(c)
      BY <2>1, <2>4 DEF PairInv
    <3>2. /\ n \in 1..pops /\ pops \in Nat /\ pushes \in Nat /\ pops <= pushes
          /\ DOMAIN pushed = 1..pushes /\ Capacity \in Nat
      BY <1>1, <2>2, <3>1, CountFacts, CapacityAssumption DEF pops, pushes
    <3>3. Delivered(n, received[n])
      BY <3>1, <3>2 DEF PairReceived
    <3>4. n \in DOMAIN pushed /\ (n > Capacity => n - Capacity \in DOMAIN pushed)
      BY <3>2
    <3> QED  BY <3>2, <3>3, <3>4 DEF Delivered
  <2> QED  BY <2>3, <2>4
<1>2. BaseInv /\ DataInv /\ PlainInv => WrongByLapOnly
  BY <1>1 DEF WrongByLapOnly
<1> QED  BY <1>2, BaseCorrect, DataCorrect, PlainCorrect, PTL

-----------------------------------------------------------------------------
(* In orderly use the ring is a bounded FIFO of Capacity - 1 messages: it  *)
(* holds what was pushed and is neither received nor copied out.           *)

\* How many messages are in the ring, and how many were copied out of it.
Held == pushes - pops - Taken
Gone == pops + Taken

\* What of the state the mapping to the FIFO looks at, and what it is there.
LEMMA OrderlyFacts ==
  ASSUME OnePair, BaseInv, DataInv, Plain, use.ordered, NEW p \in Publishers, NEW c \in Subscribers,
         PairInv(p, c), PushesStep(p) \/ PopsStep(c)
  PROVE  /\ Gone \in Nat /\ Held \in Nat /\ Gone + Held = pushes /\ Held <= Capacity - 1
         /\ pushed \in Seq(Messages) /\ pops \in Nat /\ pushes \in Nat
         /\ Taken = IF pc[c] = "storeHead" THEN 1 ELSE 0
         /\ pc[p] = "storeTail" => Held < Capacity - 1
         /\ pc[c] = "read" => Held > 0
         /\ pc[c] = "storeHead" => out[c] = pushed[pops + 1] /\ out[c] \in Messages
<1>1. /\ pushes \in Nat /\ pops \in Nat /\ Capacity \in Nat /\ Capacity >= 1
      /\ pushed \in Seq(Messages) /\ DOMAIN pushed = 1..pushes
  BY RunFacts, CountFacts, SlotFacts DEF DataInv, pushes
<1>2. Taken = IF pc[c] = "storeHead" THEN 1 ELSE 0
  BY RunFacts DEF Taken
<1>3. Heads(c) = pops
  BY RunFacts DEF PairControl, Heads
<1>4. /\ pops <= pushes /\ pushes < pops + Capacity
      /\ pc[p] = "storeTail" => pushes + 1 < pops + Capacity
      /\ pc[c] \in {"read", "storeHead"} => pops < pushes
  BY <1>3, RunFacts DEF PairCounts
<1>5. pc[c] = "storeHead" => out[c] = pushed[pops + 1]
  BY RunFacts DEF PairReceived, Delivered
<1>6. pc[c] = "storeHead" => pushed[pops + 1] \in Messages
  BY <1>1, <1>4
<1> QED  BY <1>1, <1>2, <1>4, <1>5, <1>6 DEF Held, Gone

\* A step that moves nothing the mapping looks at is invisible.
LEMMA Invisible ==
  ASSUME UNCHANGED <<use, pushed, received>>,
         \A s \in Subscribers : /\ pc'[s] = "storeHead" <=> pc[s] = "storeHead"
                                /\ pc[s] = "storeHead" => out'[s] = out[s]
  PROVE  UNCHANGED Fifo!fifoVars
<1>1. Taken' = Taken
  BY DEF Taken
<1>2. Orderly' = Orderly
  BY DEF Orderly, InOrderStart
<1>3. [s \in Subscribers |-> IF Orderly' /\ pc'[s] = "storeHead" THEN out'[s] ELSE Nothing]
      = [s \in Subscribers |-> IF Orderly /\ pc[s] = "storeHead" THEN out[s] ELSE Nothing]
  BY <1>2
<1> QED  BY <1>1, <1>2, <1>3 DEF Fifo!fifoVars

\* Any other use is mapped to a FIFO in which nothing happens.
LEMMA NotOrderly ==
  ASSUME ~Orderly, ~Orderly'
  PROVE  UNCHANGED Fifo!fifoVars
<1>1. \A f : [i \in 1..0 |-> f[i]] = <<>>
  OBVIOUS
<1> QED  BY DEF Fifo!fifoVars

\* Each step of the two processes is a step of the FIFO or invisible to it.
LEMMA FifoStep ==
  ASSUME OnePair, BaseInv, DataInv, PlainInv, [ShmNext]_shmVars
  PROVE  [Fifo!Next]_(Fifo!fifoVars)
<1>0. use' = use /\ Orderly' = Orderly
  BY UseKept DEF Orderly, InOrderStart
<1>1. CASE ~Orderly
  BY <1>0, <1>1, NotOrderly
<1>2. CASE Orderly
  <2>p. Plain /\ use.ordered
    BY <1>2 DEF Orderly, Plain
  <2>0. PICK p \in Publishers, c \in Subscribers :
          PairInv(p, c) /\ (SetupStep(p, c) \/ PushesStep(p) \/ PopsStep(c) \/ UNCHANGED shmVars)
    <3>1. PICK p \in Publishers, c \in Subscribers : TRUE
      BY DEF OnePair
    <3>2. PairInv(p, c) /\ \A r \in Readers : pc[r] = "off"
      BY <2>p DEF PlainInv
    <3> QED  BY <2>p, <3>2, PlainSteps DEF PairInv
  <2>s. Publishers = {p} /\ Subscribers = {c} /\ p # c /\ p \in Processes /\ c \in Processes /\ p \notin Subscribers
    BY ProcessAssumption DEF OnePair, Processes
  <2>t. pc \in [Processes -> PublisherLabels \cup SubscriberLabels \cup ReaderLabels]
    BY DEF BaseInv, ControlInv
  <2> DEFINE q == [i \in 1..(IF Orderly THEN Len(pushed) - Len(received) - Taken ELSE 0)
                     |-> pushed[Len(received) + Taken + i]]
             hand == [s \in Subscribers |-> IF Orderly /\ pc[s] = "storeHead" THEN out[s] ELSE Nothing]
             got == [s \in Subscribers |-> IF Orderly /\ received # <<>> THEN received[Len(received)] ELSE Nothing]
  <2>1. q = Window(pushed, Gone, Held) /\ q' = Window(pushed', Gone', Held')
    BY <1>0, <1>2 DEF Window, Gone, Held, pushes, pops
  <2>m. ASSUME PushesStep(p) \/ PopsStep(c)
        PROVE  /\ pushed \in Seq(Messages) /\ Gone \in Nat /\ Held \in Nat /\ Gone + Held <= Len(pushed)
               /\ Gone + Held = Len(pushed)
               /\ Len(Window(pushed, Gone, Held)) = Held
               /\ Held > 0 => Window(pushed, Gone, Held) # <<>> /\ Head(Window(pushed, Gone, Held)) = pushed[Gone + 1]
    <3>1. pushed \in Seq(Messages) /\ Gone \in Nat /\ Held \in Nat /\ Gone + Held = Len(pushed) /\ Gone + Held <= Len(pushed)
      BY <2>0, <2>p, <2>m, OrderlyFacts DEF pushes
    <3>2. PICK log \in Seq(Messages), k \in Nat, n \in Nat : log = pushed /\ k = Gone /\ n = Held /\ k + n <= Len(log)
      BY <3>1
    <3>3. Len(Window(log, k, n)) = n /\ (n > 0 => Window(log, k, n) # <<>> /\ Head(Window(log, k, n)) = log[k + 1])
      BY <3>2, WindowSeq
    <3> QED  BY <3>1, <3>2, <3>3
  <2>2. CASE SetupStep(p, c) \/ UNCHANGED shmVars
    <3>1. UNCHANGED <<use, pushed, received, out>>
      BY <2>2 DEF SetupStep, Start, OpenCreate, Truncate, OpenAttach, InitCapacity, InitHead, InitTail, segVars, localVars, history, shmVars
    <3>2. pc'[c] = "storeHead" <=> pc[c] = "storeHead"
      BY <2>2, <2>s, <2>t DEF SetupStep, Start, OpenCreate, Truncate, OpenAttach, InitCapacity, InitHead, InitTail, Goto, shmVars
    <3> QED  BY <2>s, <3>1, <3>2, Invisible
  <2>3. CASE PushesStep(p)
    <3>1. pc'[c] = pc[c] /\ UNCHANGED <<use, received, out>>
      BY <2>0, <2>p, <2>3, PushFrame
    <3>2. CASE pushed' = pushed
      BY <2>s, <3>1, <3>2, Invisible
    <3>3. CASE pushed' # pushed
      <4> DEFINE m == seq[p]
      <4>1. /\ m \in Messages /\ pushed' = Append(pushed, m) /\ pc[p] = "storeTail"
        BY <2>p, <2>3, <2>s, <3>3 DEF PushesStep, PushLoadTail, PushLoadHead, WriteSlot, StoreTail, PushGivesUp, history, Recorded, DataInv,
           Plain, InOrderStart
      <4>2. Taken' = Taken /\ Gone' = Gone /\ Held' = Held + 1
        <5>1. Taken' = Taken /\ pops' = pops /\ Taken \in {0, 1}
          BY <2>s, <3>1 DEF Taken, pops
        <5>2. pushes' = pushes + 1 /\ pushes \in Nat /\ pops \in Nat
          BY <2>0, <2>p, <2>3, <4>1, OrderlyFacts DEF pushes
        <5> QED  BY <5>1, <5>2 DEF Gone, Held
      <4>3. Held < Capacity - 1
        BY <2>0, <2>p, <2>3, <4>1, OrderlyFacts
      <4> HIDE DEF m, q
      <4>4. Len(q) < Capacity - 1
        BY <2>1, <2>3, <2>m, <4>3, Zenon
      <4>5. q' = Append(q, m)
        <5>1. q' = Window(Append(pushed, m), Gone, Held + 1)
          BY <2>1, <4>1, <4>2, Zenon
        <5>2. Window(Append(pushed, m), Gone, Held + 1) = Append(Window(pushed, Gone, Held), m)
          BY <2>m, <2>3, <4>1, WindowPush
        <5> QED  BY <2>1, <5>1, <5>2, Zenon
      <4>6. hand' = hand /\ got' = got
        BY <1>0, <2>s, <3>1
      <4>7. Fifo!Enqueue
        BY <4>1, <4>4, <4>5, <4>6 DEF Fifo!Enqueue, q
      <4> QED  BY <4>7 DEF Fifo!Next
    <3> QED  BY <3>2, <3>3
  <2>4. CASE PopsStep(c)
    <3>0. pushed' = pushed
      BY <2>0, <2>p, <2>4, PopFrame
    <3>a. pops \in Nat /\ pushes \in Nat /\ received \in Seq(Messages \cup {Nothing}) /\ pops' = Len(received')
          /\ pushes' = pushes /\ out \in [Processes -> Messages \cup {Nothing}]
      BY <2>0, <2>p, <2>4, <3>0, OrderlyFacts DEF DataInv, pops, pushes
    <3>1. CASE PopLoadHead(c) \/ PopLoadTail(c) \/ PopReturnsFalse(c)
      <4>1. UNCHANGED <<use, received, out>> /\ pc[c] # "storeHead" /\ pc'[c] # "storeHead"
        BY <1>0, <2>s, <2>t, <3>1 DEF PopLoadHead, PopLoadTail, PopReturnsFalse, Goto, NextMessage, history
      <4> QED  BY <2>s, <3>0, <4>1, Invisible
    <3>2. CASE ReadSlot(c)
      <4>1. pc[c] = "read" /\ pc'[c] = "storeHead" /\ received' = received
        BY <2>0, <2>4, <2>p, <2>t, <2>s, <3>2, RunFacts DEF ReadSlot, Goto, PairControl
      <4>2. Taken = 0 /\ Taken' = 1 /\ pops' = pops
        BY <2>s, <4>1 DEF Taken, pops
      <4>3. Gone' = Gone + 1 /\ Held' = Held - 1 /\ Held > 0 /\ Gone = pops
        BY <2>0, <2>p, <2>4, <3>a, <4>1, <4>2, OrderlyFacts DEF Gone, Held
      <4>4. q # <<>> /\ Head(q) = pushed[pops + 1]
        BY <2>1, <2>m, <2>4, <4>3, Zenon
      <4>5. q' = Tail(q)
        <5>1. Window(pushed, Gone + 1, Held - 1) = Tail(Window(pushed, Gone, Held))
          BY <2>m, <2>4, <4>3, WindowPop
        <5>2. q' = Window(pushed, Gone + 1, Held - 1)
          BY <2>1, <3>0, <4>3, Zenon
        <5> QED  BY <2>1, <5>1, <5>2, Zenon
      <4>6. out'[c] = pushed[pops + 1]
        <5>1. out'[c] = slots[name][pops % Capacity] /\ pops < pushes
          BY <2>0, <2>4, <2>p, <2>s, <3>2, <3>a, <4>1, RunFacts DEF ReadSlot, PairCounts
        <5>2. Delivered(pops + 1, slots[name][pops % Capacity])
          BY <2>0, <2>4, <2>p, <5>1, RunFacts, SlotRead
        <5> QED  BY <2>p, <5>1, <5>2 DEF Delivered
      <4>7. hand[c] = Nothing /\ hand' = [hand EXCEPT ![c] = Head(q)] /\ got' = got
        <5> HIDE DEF q
        <5> QED  BY <1>0, <1>2, <2>s, <4>1, <4>4, <4>6
      <4>8. Fifo!Dequeue(c)
        BY <4>4, <4>5, <4>7 DEF Fifo!Dequeue
      <4> QED  BY <4>8 DEF Fifo!Next
    <3>3. CASE StoreHead(c)
      <4>1. pc[c] = "storeHead" /\ pc'[c] = "ready" /\ received' = Append(received, out[c]) /\ out' = out
        BY <2>p, <2>s, <2>t, <3>3 DEF StoreHead, PopReturnsTrue, Recorded, Goto, Plain, InOrderStart, localVars
      <4>2. Taken = 1 /\ Taken' = 0 /\ pops' = pops + 1
        BY <2>s, <3>a, <4>1 DEF Taken, pops
      <4>3. Gone' = Gone /\ Held' = Held
        BY <3>a, <4>2 DEF Gone, Held
      <4>4. q' = q
        BY <2>1, <3>0, <4>3, Zenon
      <4>5. out[c] \in Messages /\ out[c] # Nothing
        BY <2>0, <2>p, <2>4, <4>1, OrderlyFacts, NothingAssumption, BoundsAssumption DEF Messages
      <4>6. hand[c] = out[c] /\ hand' = [hand EXCEPT ![c] = Nothing]
        BY <1>0, <1>2, <2>s, <4>1
      <4>7. received' # <<>> /\ received'[Len(received')] = out[c]
        BY <3>a, <4>1, <4>5
      <4>8. got' = [got EXCEPT ![c] = hand[c]]
        <5>1. got' = [s \in Subscribers |-> out[c]]
          BY <1>0, <1>2, <4>7
        <5>2. [got EXCEPT ![c] = out[c]] = [s \in Subscribers |-> out[c]]
          BY <2>s
        <5> QED  BY <4>6, <5>1, <5>2, Zenon
      <4>9. Fifo!Return(c)
        BY <4>4, <4>5, <4>6, <4>8 DEF Fifo!Return
      <4> QED  BY <4>9 DEF Fifo!Next
    <3> QED  BY <2>4, <3>1, <3>2, <3>3 DEF PopsStep
  <2> QED  BY <2>0, <2>2, <2>3, <2>4
<1> QED  BY <1>1, <1>2

\* For every capacity and every number of messages: with one publisher that
\* does not drop and one C++ subscriber, started in order and with accesses
\* in program order, the ring implements the bounded FIFO of Capacity - 1
\* messages.
THEOREM FifoCorrect == ASSUME OnePair  PROVE ShmSpec => ImplementsFifo
<1>1. ASSUME ShmInit  PROVE Fifo!Init
  <2>1. pushed = <<>> /\ received = <<>> /\ \A s \in Subscribers : pc[s] # "storeHead"
    BY <1>1 DEF ShmInit, Processes
  <2>2. Taken = 0
    BY <2>1 DEF Taken
  <2> QED  BY <2>1, <2>2 DEF Fifo!Init
<1>2. BaseInv /\ DataInv /\ PlainInv /\ [ShmNext]_shmVars => [Fifo!Next]_(Fifo!fifoVars)
  BY FifoStep
<1>3. ShmInit => Fifo!Init
  BY <1>1
<1> QED  BY <1>2, <1>3, BaseCorrect, DataCorrect, PlainCorrect, PTL DEF ShmSpec, ImplementsFifo, Fifo!Spec

-----------------------------------------------------------------------------
(***************************************************************************)
(* One publisher, which may drop the oldest message, and any number of     *)
(* Python subscribers, started in order, with accesses in program order.   *)
(* The ring is filled from slot 0 on, so what is between head and tail is  *)
(* a message; and what the publisher writes over a slot is newer than what *)
(* was there, so a slot chosen by an old head holds no older message.      *)
(***************************************************************************)
OnePublisher == \E p : Publishers = {p}

Watched == InOrderStart(Publishers \cup Readers) /\ use.ordered

\* The publisher has made the ring before a Python subscriber opens it.
WatchControl(p) ==
  /\ \A s \in Subscribers : pc[s] = "off"
  /\ pc[p] \notin {"dead", "writeLate", "readLate"}
  /\ pc[p] \in Starting => Fresh /\ \A r \in Readers : pc[r] = "off"
  /\ pc[p] \notin {"off", "open"} => name # Nothing /\ seg[p] = name
  /\ pc[p] \notin {"off", "open", "truncate"} => sized[name]
  /\ pc[p] \notin {"off", "open", "truncate", "initCap"} => cap[name] = Capacity
  /\ (\E r \in Readers : pc[r] \in Starting) => Fresh /\ pc[p] \in Starting \cup {"ready"}

\* ... and so it reads the right capacity and maps all of the slots.
ReaderControl(r) ==
  /\ pc[r] # "dead"
  /\ pc[r] \notin {"off", "open"} => seg[r] = name
  /\ pc[r] \notin {"off", "open", "map"} => peek[r].room = Capacity
  /\ pc[r] \in {"lookHead", "lookTail", "fetch", "print"} => peek[r].cap = Capacity

\* What the publisher has stored.
WatchRing(p) ==
  /\ pushes < Capacity => tail[name] = pushes /\ head[name] <= pushes
  /\ \A i \in Slots : /\ i < pushes => slots[name][i] # Nothing
                      /\ slots[name][i] # Nothing => slots[name][i] <= seq[p]
  /\ pc[p] \in {"pushHead", "full", "write", "storeTail"} => t[p] = tail[name]
  /\ pc[p] \in {"popTail", "empty", "read", "storeHead"} => h[p] = head[name]
  /\ pc[p] \in {"read", "storeHead"} => head[name] # tail[name]
  /\ pc[p] = "storeTail" => slots[name][t[p]] = seq[p]

\* v is a message, and not older than the subscriber's floor.
NotOlder(r, v) == v # Nothing /\ v >= peek[r].floor

\* What a Python subscriber has seen.
ReaderView(p, r) ==
  /\ pc[r] \in {"lookTail", "fetch", "print"} => peek[r].floor \in Nat
  /\ pc[r] = "lookTail" => \/ NotOlder(r, slots[name][h[r]])
                           \/ tail[name] = h[r] /\ peek[r].floor <= seq[p]
  /\ pc[r] = "fetch" => NotOlder(r, slots[name][h[r]])
  /\ pc[r] = "print" => NotOlder(r, out[r])

WatchInv ==
  Watched => \A p \in Publishers :
               /\ WatchControl(p)
               /\ \A r \in Readers : ReaderControl(r)
               /\ name # Nothing => WatchRing(p) /\ \A r \in Readers : ReaderView(p, r)

\* The steps in such use.
MakeStep(p) == Start(p) \/ OpenCreate(p) \/ Truncate(p) \/ InitCapacity(p) \/ InitHead(p) \/ InitTail(p)
WatchStep(r) == Start(r) \/ ReaderOpen(r) \/ ReaderMap(r) \/ ReadCapacity(r) \/ ReadHead(r)
                \/ ReadTail(r) \/ Fetch(r) \/ PrintMessage(r)

LEMMA WatchInit == ShmInit => WatchInv
<1> SUFFICES ASSUME ShmInit, Watched, NEW p \in Publishers
             PROVE  WatchControl(p) /\ name = Nothing /\ \A r \in Readers : ReaderControl(r)
  BY DEF WatchInv
<1>1. \A q \in Processes : pc[q] = "off"
  BY DEF ShmInit
<1>2. name = Nothing /\ Fresh
  BY DEF ShmInit, Fresh
<1> QED  BY <1>1, <1>2 DEF WatchControl, ReaderControl, Starting, Processes

\* The facts that every step of such use starts from.
LEMMA WatchFacts ==
  ASSUME OnePublisher, BaseInv, PeekInv, DataInv, WatchInv, Watched, NEW p \in Publishers
  PROVE  /\ Publishers = {p} /\ p \in Processes /\ p \notin Readers /\ p \notin Subscribers
         /\ use.processes = {p} \cup Readers /\ use.coordinated /\ ~use.mayStop /\ use.ordered
         /\ WatchControl(p) /\ \A r \in Readers : ReaderControl(r)
         /\ name # Nothing => name \in Segments /\ WatchRing(p) /\ \A r \in Readers : ReaderView(p, r)
         /\ pc \in [Processes -> PublisherLabels \cup SubscriberLabels \cup ReaderLabels]
         /\ pc[p] \in PublisherLabels \ {"dead", "writeLate", "readLate"}
         /\ \A r \in Readers : r \in Processes /\ r \notin Publishers /\ r \notin Subscribers
         /\ \A r \in Readers : pc[r] \in ReaderLabels \ {"dead"}
<1>1. Publishers = {p} /\ p \in Processes /\ p \notin Readers /\ p \notin Subscribers
  BY ProcessAssumption DEF OnePublisher, Processes
<1>2. use.processes = {p} \cup Readers /\ use.coordinated /\ ~use.mayStop /\ use.ordered
  BY <1>1 DEF Watched, InOrderStart
<1>3. WatchControl(p) /\ \A r \in Readers : ReaderControl(r)
  BY DEF WatchInv
<1>4. name # Nothing => name \in Segments /\ WatchRing(p) /\ \A r \in Readers : ReaderView(p, r)
  BY DEF WatchInv, BaseInv, ControlInv
<1>5. pc \in [Processes -> PublisherLabels \cup SubscriberLabels \cup ReaderLabels]
  BY DEF BaseInv, ControlInv
<1>6. pc[p] \in PublisherLabels \ {"dead", "writeLate", "readLate"}
  BY <1>3 DEF BaseInv, ControlInv, WatchControl
<1>7. \A r \in Readers : r \in Processes /\ r \notin Publishers /\ r \notin Subscribers
  BY ProcessAssumption DEF Processes
<1>8. \A r \in Readers : pc[r] \in ReaderLabels \ {"dead"}
  BY <1>3 DEF BaseInv, ControlInv, ReaderControl
<1> QED  BY <1>1, <1>2, <1>3, <1>4, <1>5, <1>6, <1>7, <1>8

\* No C++ subscriber runs, nobody stops, no page is missing, no capacity is 0.
LEMMA WatchSteps ==
  ASSUME OnePublisher, BaseInv, PeekInv, DataInv, WatchInv, Watched, NEW p \in Publishers, [ShmNext]_shmVars
  PROVE  MakeStep(p) \/ PushStep(p) \/ PopStep(p) \/ (\E r \in Readers : WatchStep(r)) \/ UNCHANGED shmVars
<1>1. ASSUME NEW s \in Subscribers, Start(s) \/ Construct(s) \/ PushStep(s) \/ PopStep(s) \/ ReaderStep(s) \/ Exit(s) \/ Kill(s)
      PROVE  FALSE
  <2>1. pc[s] = "off" /\ s \notin use.processes /\ s \notin Publishers /\ ~use.mayStop
    BY WatchFacts, ProcessAssumption DEF WatchControl
  <2> QED  BY <1>1, <2>1 DEF Start, Construct, OpenCreate, Truncate, OpenAttach, InitCapacity, InitHead, InitTail, BusError,
       PushStep, PushLoadTail, PushLoadHead, WriteSlot, StoreTail, PushGivesUp, PushDrops,
       PopStep, PopLoadHead, PopLoadTail, PopReturnsFalse, ReadSlot, StoreHead,
       ReaderStep, ReaderOpen, ReaderMap, ReadCapacity, ReadHead, ReadTail, Fetch, DivisionByZero, PrintMessage, Exit, Kill
<1>2. ASSUME Start(p) \/ Construct(p) \/ PushStep(p) \/ PopStep(p) \/ ReaderStep(p) \/ Exit(p) \/ Kill(p)
      PROVE  MakeStep(p) \/ PushStep(p) \/ PopStep(p)
  <2>1. pc[p] = "initCap" => sized[seg[p]]
    BY WatchFacts DEF WatchControl
  <2>2. CASE Start(p) \/ Construct(p)
    BY <2>1, <2>2, WatchFacts DEF MakeStep, Construct, OpenAttach, BusError
  <2>3. CASE ReaderStep(p)
    BY <2>3, WatchFacts DEF PublisherLabels,
       ReaderStep, ReaderOpen, ReaderMap, ReadCapacity, ReadHead, ReadTail, Fetch, DivisionByZero, PrintMessage
  <2>4. CASE Exit(p) \/ Kill(p)
    BY <2>4, WatchFacts DEF Exit, Kill
  <2> QED  BY <1>2, <2>2, <2>3, <2>4
<1>3. ASSUME NEW r \in Readers, Start(r) \/ Construct(r) \/ PushStep(r) \/ PopStep(r) \/ ReaderStep(r) \/ Exit(r) \/ Kill(r)
      PROVE  WatchStep(r)
  <2>1. /\ pc[r] \in ReaderLabels \ {"dead"} /\ r \notin Publishers /\ r \notin Subscribers /\ ~use.mayStop
        /\ pc[r] = "fetch" => peek[r].cap # 0
    BY WatchFacts, CapacityAssumption DEF ReaderControl
  <2>2. CASE Start(r) \/ Construct(r)
    BY <2>1, <2>2 DEF ReaderLabels, WatchStep, Construct, OpenCreate, Truncate, OpenAttach, InitCapacity, InitHead, InitTail, BusError
  <2>3. CASE PushStep(r) \/ PopStep(r) \/ Exit(r) \/ Kill(r)
    BY <2>1, <2>3 DEF ReaderLabels, PushStep, PushLoadTail, PushLoadHead, WriteSlot, StoreTail, PushGivesUp, PushDrops,
       PopStep, PopLoadHead, PopLoadTail, PopReturnsFalse, ReadSlot, StoreHead, Exit, Kill
  <2>4. CASE ReaderStep(r)
    BY <2>1, <2>4 DEF WatchStep, ReaderStep, DivisionByZero
  <2> QED  BY <1>3, <2>2, <2>3, <2>4
<1>4. \A q \in Processes : q = p \/ q \in Subscribers \/ q \in Readers
  BY WatchFacts DEF Processes
<1> QED  BY <1>1, <1>2, <1>3, <1>4 DEF ShmNext

\* While the publisher makes the ring, the Python subscribers are off.
LEMMA MakeWatch ==
  ASSUME OnePublisher, BaseInv, PeekInv, DataInv, WatchInv, Watched, NEW p \in Publishers, MakeStep(p)
  PROVE  /\ WatchControl(p)' /\ \A r \in Readers : ReaderControl(r)'
         /\ name' # Nothing => WatchRing(p)' /\ \A r \in Readers : ReaderView(p, r)'
<1>0. /\ seg \in [Processes -> Segments \cup {Nothing}] /\ name \in Segments \cup {Nothing}
      /\ sized \in [Segments -> BOOLEAN] /\ cap \in [Segments -> {0, Capacity}]
      /\ head \in [Segments -> Slots] /\ tail \in [Segments -> Slots]
      /\ pc[p] \notin {"off", "open"} => seg[p] \in Segments
      /\ created \in Nat
  BY WatchFacts DEF BaseInv, ControlInv, IndexInv, CountInv, PeekInv, DataInv
<1>1. pc[p] \in Starting /\ Fresh /\ \A r \in Readers : pc[r] = "off"
  <2>1. pc[p] \in Starting
    BY DEF MakeStep, Start, OpenCreate, Truncate, InitCapacity, InitHead, InitTail, Starting
  <2> QED  BY <2>1, WatchFacts DEF WatchControl
<1>2. Fresh'
  <2>1. UNCHANGED <<pushed, received, slots>>
    BY DEF MakeStep, Start, OpenCreate, Truncate, InitCapacity, InitHead, InitTail, ringVars, history
  <2>2. \A s \in Segments : head'[s] = 0 /\ tail'[s] = 0
    BY <1>0, <1>1 DEF Fresh, MakeStep, Start, OpenCreate, Truncate, InitCapacity, InitHead, InitTail, ringVars
  <2> QED  BY <1>1, <2>1, <2>2 DEF Fresh
<1>3. pc'[p] \in Starting \cup {"ready"} /\ \A q \in Readers \cup Subscribers : pc'[q] = pc[q]
  <2>1. PICK l : pc' = [pc EXCEPT ![p] = l] /\ l \in Starting \cup {"ready"}
    BY DEF Starting, Goto, MakeStep, Start, OpenCreate, Truncate, InitCapacity, InitHead, InitTail
  <2> QED  BY <2>1, WatchFacts
<1>4. WatchControl(p)'
  <2> USE <1>0, <1>1, <1>2, <1>3, WatchFacts DEF WatchControl, Goto, Starting, PublisherLabels, segVars, ringVars, procVars
  <2>1. CASE Start(p)
    BY <2>1 DEF Start
  <2>2. CASE OpenCreate(p)
    <3>1. name' # Nothing /\ seg'[p] = name'
      BY <2>2, NothingAssumption DEF OpenCreate
    <3>2. pc' = [pc EXCEPT ![p] = "truncate"]
      BY <2>2 DEF OpenCreate
    <3> QED  BY <3>1, <3>2
  <2>3. CASE Truncate(p)
    BY <2>3 DEF Truncate
  <2>4. CASE InitCapacity(p)
    BY <2>4 DEF InitCapacity
  <2>5. CASE InitHead(p) \/ InitTail(p)
    BY <2>5 DEF InitHead, InitTail
  <2> QED  BY <2>1, <2>2, <2>3, <2>4, <2>5 DEF MakeStep
<1>5. \A r \in Readers : ReaderControl(r)'
  BY <1>1, <1>3 DEF ReaderControl
<1>6. ASSUME name' # Nothing  PROVE WatchRing(p)' /\ \A r \in Readers : ReaderView(p, r)'
  <2>1. name' \in Segments
    BY <1>0, <1>6, ControlNext, WatchFacts DEF ControlInv, ShmNext, MakeStep, Construct, BaseInv
  <2>2. WatchRing(p)'
    BY <1>2, <1>3, <2>1, CapacityAssumption DEF WatchRing, Fresh, pushes, Starting, Slots
  <2>3. \A r \in Readers : ReaderView(p, r)'
    BY <1>1, <1>3 DEF ReaderView
  <2> QED  BY <2>2, <2>3
<1> QED  BY <1>4, <1>5, <1>6

\* A step of the publisher that has the ring: who is where.
LEMMA PublishControl ==
  ASSUME OnePublisher, BaseInv, PeekInv, DataInv, WatchInv, Watched, NEW p \in Publishers,
         PushStep(p) \/ PopStep(p)
  PROVE  /\ pc[p] \notin Starting /\ name \in Segments /\ name # Nothing /\ seg[p] = name
         /\ \A r \in Readers : pc[r] \notin Starting
         /\ WatchControl(p)' /\ \A r \in Readers : ReaderControl(r)'
         /\ UNCHANGED <<use, name, peek>>
         /\ \A r \in Readers : pc'[r] = pc[r] /\ h'[r] = h[r] /\ out'[r] = out[r]
<1>0. h \in [Processes -> Slots] /\ out \in [Processes -> Messages \cup {Nothing}]
  BY DEF BaseInv, IndexInv, DataInv
<1>1. pc[p] \notin Starting
  BY WatchFacts DEF Starting, PushStep, PushLoadTail, PushLoadHead, WriteSlot, StoreTail, PushGivesUp, PushDrops,
     PopStep, PopLoadHead, PopLoadTail, PopReturnsFalse, ReadSlot, StoreHead
<1>2. name \in Segments /\ name # Nothing /\ seg[p] = name
  BY <1>1, WatchFacts DEF WatchControl, Starting
<1>3. \A r \in Readers : pc[r] \notin Starting
  <2>1. CASE pc[p] # "ready"
    BY <1>1, <2>1, WatchFacts DEF WatchControl
  <2>2. CASE pc[p] = "ready"
    <3>1. PushLoadTail(p)
      BY <2>2, WatchFacts DEF PushStep, PushLoadTail, PushLoadHead, WriteSlot, StoreTail, PushGivesUp, PushDrops,
         PopStep, PopLoadHead, PopLoadTail, PopReturnsFalse, ReadSlot, StoreHead
    <3> QED  BY <3>1, WatchFacts DEF PushLoadTail
  <2> QED  BY <2>1, <2>2
<1>4. UNCHANGED <<use, name, peek, sized, seg, cap>>
  BY DEF PushStep, PushLoadTail, PushLoadHead, WriteSlot, StoreTail, PushGivesUp, PushDrops,
     PopStep, PopLoadHead, PopLoadTail, PopReturnsFalse, ReadSlot, StoreHead, segVars, ringVars, procVars, localVars
<1>5. PICK l : pc' = [pc EXCEPT ![p] = l]
  BY OtherLabels, WatchFacts DEF BaseInv
<1>6. \A q \in Readers \cup Subscribers : pc'[q] = pc[q]
  BY <1>5, WatchFacts
<1>7. pc'[p] \notin Starting \cup {"dead", "writeLate", "readLate"}
  <2> USE <1>1, WatchFacts DEF Goto, NextMessage, PopReturnsTrue, Starting
  <2>1. CASE PushStep(p)
    BY <2>1 DEF PushStep, PushLoadTail, PushLoadHead, WriteSlot, StoreTail, PushGivesUp, PushDrops
  <2>2. CASE PopStep(p)
    BY <2>2 DEF PopStep, PopLoadHead, PopLoadTail, PopReturnsFalse, ReadSlot, StoreHead
  <2> QED  BY <2>1, <2>2
<1>8. WatchControl(p)'
  BY <1>1, <1>3, <1>4, <1>6, <1>7, WatchFacts DEF WatchControl, Starting
<1>9. \A r \in Readers : ReaderControl(r)'
  BY <1>4, <1>6, WatchFacts DEF ReaderControl
<1>10. \A r \in Readers : h'[r] = h[r] /\ out'[r] = out[r]
  BY <1>0, WatchFacts DEF PushStep, PushLoadTail, PushLoadHead, WriteSlot, StoreTail, PushGivesUp, PushDrops,
     PopStep, PopLoadHead, PopLoadTail, PopReturnsFalse, ReadSlot, StoreHead, localVars
<1> QED  BY <1>1, <1>2, <1>3, <1>4, <1>6, <1>8, <1>9, <1>10

\* Between head and tail there is a message.
LEMMA OldestIsMessage ==
  ASSUME BaseInv, DataInv, NEW p, name \in Segments, WatchRing(p), head[name] # tail[name]
  PROVE  slots[name][head[name]] # Nothing
<1>1. head[name] \in Slots /\ tail[name] \in Slots /\ pushes \in Nat /\ Capacity \in Nat
  BY CapacityAssumption DEF BaseInv, IndexInv, DataInv, pushes
<1>2. head[name] < pushes
  BY <1>1 DEF WatchRing, Slots
<1> QED  BY <1>1, <1>2 DEF WatchRing

\* What a subscriber has seen stays true while slots are only overwritten with
\* the message in hand, and tail leaves a slot only when that is written.
LEMMA ViewKept ==
  ASSUME BaseInv, DataInv, name \in Segments, NEW p \in Processes, NEW r \in Processes, WatchRing(p), ReaderView(p, r),
         UNCHANGED <<name, peek>>, pc'[r] = pc[r], h'[r] = h[r], out'[r] = out[r],
         seq'[p] \in Nat, seq'[p] >= seq[p],
         \A i \in Slots : slots'[name][i] = slots[name][i] \/ slots'[name][i] = seq[p],
         tail'[name] = tail[name] \/ slots'[name][tail[name]] = seq[p]
  PROVE  ReaderView(p, r)'
<1>1. /\ seq[p] \in Nat /\ seq[p] # Nothing /\ h[r] \in Slots
      /\ \A i \in Slots : slots[name][i] # Nothing => slots[name][i] \in Nat /\ slots[name][i] <= seq[p]
  BY NothingAssumption, BoundsAssumption DEF BaseInv, IndexInv, DataInv, Messages, WatchRing
<1>2. ASSUME peek[r].floor \in Nat, NotOlder(r, slots[name][h[r]])  PROVE NotOlder(r, slots[name][h[r]])'
  BY <1>1, <1>2 DEF NotOlder
<1>3. ASSUME peek[r].floor \in Nat, tail[name] = h[r], peek[r].floor <= seq[p]
      PROVE  \/ NotOlder(r, slots[name][h[r]])'
             \/ tail'[name] = h[r] /\ peek[r].floor <= seq'[p]
  <2>1. peek[r].floor <= seq'[p]
    BY <1>1, <1>3
  <2>2. CASE tail'[name] = tail[name]
    BY <1>3, <2>1, <2>2
  <2>3. CASE slots'[name][tail[name]] = seq[p]
    BY <1>1, <1>3, <2>3 DEF NotOlder
  <2> QED  BY <2>2, <2>3
<1>4. pc[r] = "print" => NotOlder(r, out[r])'
  BY DEF ReaderView, NotOlder
<1> QED  BY <1>2, <1>3, <1>4 DEF ReaderView

\* The publisher's steps: pushing, dropping, giving up.
LEMMA PublishRing ==
  ASSUME OnePublisher, BaseInv, PeekInv, DataInv, WatchInv, Watched, NEW p \in Publishers,
         PushStep(p) \/ PopStep(p)
  PROVE  WatchRing(p)' /\ \A r \in Readers : ReaderView(p, r)'
<1>0. /\ pushed \in Seq(Messages) /\ seq \in [Processes -> Messages] /\ seq[p] \in Nat /\ seq[p] # Nothing
      /\ tail \in [Segments -> Slots] /\ head \in [Segments -> Slots]
      /\ t \in [Processes -> Slots] /\ h \in [Processes -> Slots]
      /\ slots \in [Segments -> [Slots -> Messages \cup {Nothing}]]
      /\ pushes \in Nat /\ Capacity \in Nat /\ Capacity >= 1
  BY WatchFacts, BoundsAssumption, CapacityAssumption, NothingAssumption DEF DataInv, BaseInv, IndexInv, Messages, pushes
<1>a. /\ p \in Processes /\ name \in Segments /\ seg[p] = name /\ UNCHANGED <<name, peek>>
      /\ WatchRing(p) /\ use.coordinated /\ use.ordered
      /\ pc \in [Processes -> PublisherLabels \cup SubscriberLabels \cup ReaderLabels]
  BY PublishControl, WatchFacts
<1>b. \A i \in Slots : slots[name][i] # Nothing => slots[name][i] \in Nat /\ slots[name][i] <= seq[p]
  BY <1>0, <1>a, BoundsAssumption DEF WatchRing, Messages
<1>v. ASSUME seq'[p] \in Nat, seq'[p] >= seq[p],
             \A i \in Slots : slots'[name][i] = slots[name][i] \/ slots'[name][i] = seq[p],
             tail'[name] = tail[name] \/ slots'[name][tail[name]] = seq[p]
      PROVE  \A r \in Readers : ReaderView(p, r)'
  <2> TAKE r \in Readers
  <2>1. r \in Processes /\ ReaderView(p, r) /\ pc'[r] = pc[r] /\ h'[r] = h[r] /\ out'[r] = out[r]
    BY <1>a, PublishControl, WatchFacts
  <2> QED  BY <1>a, <1>v, <2>1, ViewKept
<1>k. ASSUME UNCHANGED <<head, tail, slots, pushed>>, seq'[p] \in Nat, seq'[p] >= seq[p],
             pc'[p] \in {"pushHead", "full", "write", "storeTail"} => t'[p] = tail[name],
             pc'[p] \in {"popTail", "empty", "read", "storeHead"} => h'[p] = head[name],
             pc'[p] \in {"read", "storeHead"} => head[name] # tail[name],
             pc'[p] # "storeTail"
      PROVE  WatchRing(p)' /\ \A r \in Readers : ReaderView(p, r)'
  <2>1. \A i \in Slots : slots[name][i] # Nothing => slots[name][i] <= seq'[p]
    BY <1>0, <1>b, <1>k
  <2>2. pushes' = pushes
    BY <1>k DEF pushes
  <2> QED  BY <1>a, <1>k, <1>v, <2>1, <2>2 DEF WatchRing
<1>1. CASE PushLoadTail(p) \/ PushLoadHead(p) \/ PushDrops(p)
  <2>1. /\ UNCHANGED <<head, tail, slots, pushed, seq>>
        /\ pc'[p] \in {"pushHead", "full", "write", "pop"}
        /\ pc'[p] \in {"pushHead", "full", "write"} => t'[p] = tail[name]
    BY <1>0, <1>1, <1>a DEF PushLoadTail, PushLoadHead, PushDrops, Goto, ringVars, history, WatchRing
  <2> QED  BY <1>0, <1>k, <2>1
<1>2. CASE PushGivesUp(p) \/ PopReturnsFalse(p)
  <2>1. /\ UNCHANGED <<head, tail, slots, pushed>> /\ seq'[p] = seq[p] + 1 /\ pc'[p] = "ready"
    BY <1>0, <1>2, <1>a DEF PushGivesUp, PopReturnsFalse, NextMessage, Goto, ringVars, history
  <2> QED  BY <1>0, <1>k, <2>1
<1>3. CASE PopLoadHead(p) \/ PopLoadTail(p)
  <2>1. /\ UNCHANGED <<head, tail, slots, pushed, seq>>
        /\ pc'[p] \in {"popTail", "empty", "read"}
        /\ h'[p] = head[name]
        /\ pc'[p] = "read" => head[name] # tail[name]
    BY <1>0, <1>3, <1>a DEF PopLoadHead, PopLoadTail, Goto, ringVars, history, WatchRing
  <2> QED  BY <1>0, <1>k, <2>1
<1>4. CASE ReadSlot(p)
  <2>1. /\ UNCHANGED <<head, tail, slots, pushed, seq, h>>
        /\ pc'[p] = "storeHead" /\ pc[p] = "read"
    BY <1>4, <1>a, WatchFacts DEF ReadSlot, Goto, ringVars
  <2>2. h[p] = head[name] /\ head[name] # tail[name]
    BY <1>a, <2>1 DEF WatchRing
  <2> QED  BY <1>0, <1>k, <2>1, <2>2
<1>5. CASE StoreHead(p)
  <2>1. /\ UNCHANGED <<tail, slots, pushed, seq>> /\ pc[p] = "storeHead" /\ pc'[p] = "push"
        /\ head' = [head EXCEPT ![name] = Wrap(h[p])]
    BY <1>5, <1>a DEF StoreHead, PopReturnsTrue, Goto, localVars
  <2>2. h[p] = head[name] /\ head[name] # tail[name] /\ head[name] \in Slots
    BY <1>0, <1>a, <2>1 DEF WatchRing
  <2>3. head'[name] = Wrap(head[name]) /\ pushes' = pushes
    BY <1>0, <1>a, <2>1, <2>2 DEF pushes
  <2>4. ASSUME pushes < Capacity  PROVE head'[name] <= pushes
    <3>1. head[name] + 1 \in 0..(Capacity - 1) /\ head[name] + 1 <= pushes
      BY <1>0, <1>a, <2>2, <2>4 DEF WatchRing, Slots
    <3>2. (head[name] + 1) % Capacity = head[name] + 1
      BY <1>0, <3>1, FirstLap, Zenon
    <3> QED  BY <2>3, <3>1, <3>2 DEF Wrap
  <2>5. WatchRing(p)'
    BY <1>a, <2>1, <2>3, <2>4 DEF WatchRing
  <2> QED  BY <1>0, <1>v, <2>1, <2>5
<1>6. CASE WriteSlot(p)
  <2>1. /\ UNCHANGED <<head, tail, pushed, seq, t>> /\ pc[p] = "write" /\ pc'[p] = "storeTail"
        /\ slots' = [slots EXCEPT ![name][t[p]] = seq[p]]
    BY <1>6, <1>a, WatchFacts DEF WriteSlot, Goto, history
  <2>2. t[p] = tail[name] /\ t[p] \in Slots /\ pushes' = pushes
    BY <1>0, <1>a, <2>1 DEF WatchRing, pushes
  <2>3. /\ slots'[name][t[p]] = seq[p]
        /\ \A i \in Slots : i # t[p] => slots'[name][i] = slots[name][i]
    BY <1>0, <1>a, <2>1, <2>2
  <2>4. \A i \in Slots : /\ i < pushes => slots'[name][i] # Nothing
                         /\ slots'[name][i] # Nothing => slots'[name][i] <= seq[p]
    <3> TAKE i \in Slots
    <3>1. CASE i = t[p]
      BY <1>0, <2>3, <3>1
    <3>2. CASE i # t[p]
      BY <1>a, <2>3, <3>2 DEF WatchRing
    <3> QED  BY <3>1, <3>2
  <2>5. WatchRing(p)'
    BY <1>a, <2>1, <2>2, <2>3, <2>4 DEF WatchRing
  <2>6. \A i \in Slots : slots'[name][i] = slots[name][i] \/ slots'[name][i] = seq[p]
    BY <2>3
  <2> QED  BY <1>0, <1>v, <2>1, <2>5, <2>6
<1>7. CASE StoreTail(p)
  <2>1. /\ UNCHANGED <<head, slots, t>> /\ pc[p] = "storeTail" /\ pc'[p] = "ready"
        /\ pushed' = Append(pushed, seq[p]) /\ seq'[p] = seq[p] + 1
        /\ tail' = [tail EXCEPT ![name] = Wrap(t[p])]
    BY <1>0, <1>7, <1>a DEF StoreTail, NextMessage, Goto, Recorded
  <2>2. t[p] = tail[name] /\ slots[name][tail[name]] = seq[p] /\ tail[name] \in Slots /\ pushes' = pushes + 1
    BY <1>0, <1>a, <2>1 DEF WatchRing, pushes
  <2>3. tail'[name] = Wrap(tail[name])
    BY <1>0, <1>a, <2>1, <2>2
  <2>4. ASSUME pushes + 1 < Capacity  PROVE tail'[name] = pushes + 1 /\ head[name] <= pushes + 1
    <3>1. tail[name] = pushes /\ head[name] <= pushes /\ head[name] \in Nat /\ pushes + 1 \in 0..(Capacity - 1)
      BY <1>0, <1>a, <2>4 DEF WatchRing, Slots
    <3>2. (pushes + 1) % Capacity = pushes + 1
      BY <1>0, <3>1, FirstLap, Zenon
    <3> QED  BY <1>0, <2>3, <3>1, <3>2 DEF Wrap
  <2>5. ASSUME NEW i \in Slots, i < pushes + 1  PROVE slots[name][i] # Nothing
    <3>1. CASE i < pushes
      BY <1>a, <3>1 DEF WatchRing
    <3>2. CASE ~(i < pushes)
      <4>1. i = pushes /\ pushes < Capacity
        BY <1>0, <2>5, <3>2 DEF Slots
      <4>2. tail[name] = i
        BY <1>a, <4>1 DEF WatchRing
      <4> QED  BY <1>0, <2>2, <4>2
    <3> QED  BY <3>1, <3>2
  <2>6. \A i \in Slots : slots[name][i] # Nothing => slots[name][i] <= seq[p] + 1
    BY <1>0, <1>b
  <2>7. WatchRing(p)'
    BY <1>a, <2>1, <2>2, <2>4, <2>5, <2>6 DEF WatchRing
  <2> QED  BY <1>0, <1>v, <2>1, <2>2, <2>7
<1> QED  BY <1>1, <1>2, <1>3, <1>4, <1>5, <1>6, <1>7 DEF PushStep, PopStep

\* A Python subscriber's step changes nothing but its own label and locals.
LEMMA WatchFrame ==
  ASSUME OnePublisher, BaseInv, PeekInv, DataInv, WatchInv, Watched, NEW p \in Publishers,
         NEW r \in Readers, WatchStep(r)
  PROVE  /\ UNCHANGED <<use, name, sized, ringVars, seq, pushed, received>>
         /\ \A q \in Processes \ {r} : /\ pc'[q] = pc[q] /\ h'[q] = h[q] /\ t'[q] = t[q]
                                       /\ out'[q] = out[q] /\ peek'[q] = peek[q] /\ seg'[q] = seg[q]
<1>0. /\ h \in [Processes -> Slots] /\ t \in [Processes -> Slots] /\ out \in [Processes -> Messages \cup {Nothing}]
      /\ seg \in [Processes -> Segments \cup {Nothing}] /\ DOMAIN peek = Processes
      /\ pc \in [Processes -> PublisherLabels \cup SubscriberLabels \cup ReaderLabels]
  BY DEF BaseInv, IndexInv, ControlInv, DataInv, PeekInv
<1> USE <1>0 DEF Goto, segVars, ringVars, procVars, localVars, history
<1>1. CASE Start(r) \/ ReaderOpen(r)
  BY <1>1 DEF Start, ReaderOpen
<1>2. CASE ReaderMap(r) \/ ReadCapacity(r)
  BY <1>2 DEF ReaderMap, ReadCapacity
<1>3. CASE ReadHead(r) \/ ReadTail(r)
  BY <1>3 DEF ReadHead, ReadTail
<1>4. CASE Fetch(r) \/ PrintMessage(r)
  BY <1>4 DEF Fetch, PrintMessage
<1> QED  BY <1>1, <1>2, <1>3, <1>4 DEF WatchStep

\* The floor that is noted with head: the oldest message, or the one to come.
LEMMA OldestNoted ==
  ASSUME OnePublisher, BaseInv, PeekInv, DataInv, WatchInv, Watched, NEW p \in Publishers,
         name \in Segments, seg[p] = name
  PROVE  /\ head[name] # tail[name] => Oldest(name) = slots[name][head[name]]
         /\ head[name] = tail[name] => Oldest(name) = seq[p]
<1>1. {q \in Publishers : seg[q] = name} = {p}
  BY WatchFacts
<1>2. {seq[q] : q \in {q \in Publishers : seg[q] = name}} = {seq[p]}
  BY <1>1
<1>3. seq[p] \in Nat
  BY WatchFacts, BoundsAssumption DEF DataInv, Messages
<1>4. (CHOOSE m \in {seq[p]} : \A n \in {seq[p]} : m <= n) = seq[p]
  BY <1>3
<1> QED  BY <1>2, <1>4 DEF Oldest

\* What a Python subscriber's own step makes of its view.
LEMMA WatchOwn ==
  ASSUME OnePublisher, BaseInv, PeekInv, DataInv, WatchInv, Watched, NEW p \in Publishers,
         NEW r \in Readers, WatchStep(r)
  PROVE  ReaderControl(r)' /\ (name # Nothing => ReaderView(p, r)')
<1>0. /\ h \in [Processes -> Slots] /\ out \in [Processes -> Messages \cup {Nothing}]
      /\ seg \in [Processes -> Segments \cup {Nothing}] /\ r \in Processes
      /\ pc \in [Processes -> PublisherLabels \cup SubscriberLabels \cup ReaderLabels]
      /\ pc[r] \in ReaderLabels \ {"dead"}
  BY WatchFacts DEF BaseInv, IndexInv, ControlInv, DataInv
<1>1. PICK F : peek \in [Processes -> Peeks(F)]
  BY DEF PeekInv
<1>2. peek[r] \in Peeks(F)
  BY <1>0, <1>1
<1>3. ASSUME pc[r] # "off"
      PROVE  /\ pc[p] \notin Starting /\ name \in Segments /\ name # Nothing /\ sized[name] /\ cap[name] = Capacity
             /\ seg[p] = name /\ WatchRing(p) /\ ReaderView(p, r)
  <2>1. pc[p] \notin Starting
    BY <1>3, WatchFacts DEF WatchControl
  <2> QED  BY <2>1, WatchFacts DEF WatchControl, Starting
<1>4. ReaderControl(r)
  BY WatchFacts
<1>5. CASE Start(r) \/ ReaderOpen(r)
  <2>1. peek' = peek /\ pc'[r] \in {"off", "open", "map"} /\ (pc'[r] = "map" => seg'[r] = name')
    BY <1>0, <1>5 DEF Start, ReaderOpen, Goto, localVars, segVars
  <2> QED  BY <2>1 DEF ReaderControl, ReaderView
<1>6. CASE ReaderMap(r)
  <2>1. /\ pc[r] = "map" /\ peek' = [peek EXCEPT ![r].room = cap[seg[r]]] /\ seg' = seg /\ name' = name
        /\ pc' = [pc EXCEPT ![r] = IF sized[seg[r]] THEN "look" ELSE "dead"]
    BY <1>6 DEF ReaderMap, Goto, procVars, segVars
  <2>2. seg[r] = name
    BY <1>4, <2>1 DEF ReaderControl
  <2>3. pc'[r] = "look" /\ peek'[r].room = Capacity
    BY <1>0, <1>1, <1>2, <1>3, <2>1, <2>2 DEF Peeks
  <2> QED  BY <2>1, <2>2, <2>3 DEF ReaderControl, ReaderView
<1>7. CASE ReadCapacity(r)
  <2>1. /\ pc[r] = "look" /\ peek' = [peek EXCEPT ![r].cap = cap[seg[r]]] /\ seg' = seg /\ name' = name
        /\ pc'[r] = "lookHead"
    BY <1>0, <1>7 DEF ReadCapacity, Goto, procVars, segVars
  <2>2. seg[r] = name /\ peek[r].room = Capacity
    BY <1>4, <2>1 DEF ReaderControl
  <2>3. peek'[r].cap = Capacity /\ peek'[r].room = Capacity
    BY <1>0, <1>1, <1>2, <1>3, <2>1, <2>2 DEF Peeks
  <2> QED  BY <2>1, <2>2, <2>3 DEF ReaderControl, ReaderView
<1>8. CASE ReadHead(r)
  <2>1. /\ pc[r] = "lookHead" /\ peek' = [peek EXCEPT ![r].floor = Oldest(seg[r])] /\ seg' = seg /\ name' = name
        /\ pc'[r] = "lookTail" /\ h' = [h EXCEPT ![r] = head[seg[r]]] /\ UNCHANGED <<slots, tail, head, seq>>
    BY <1>0, <1>8 DEF ReadHead, Goto, procVars, segVars, ringVars
  <2>2. seg[r] = name /\ peek[r].room = Capacity /\ peek[r].cap = Capacity
    BY <1>4, <2>1 DEF ReaderControl
  <2>3. /\ peek'[r].cap = Capacity /\ peek'[r].room = Capacity /\ peek'[r].floor = Oldest(name)
        /\ h'[r] = head[name]
    BY <1>0, <1>1, <1>2, <1>3, <2>1, <2>2 DEF Peeks
  <2>4. seq[p] \in Nat /\ head[name] \in Slots
    BY <1>3, <2>1, WatchFacts, BoundsAssumption DEF DataInv, Messages, BaseInv, IndexInv
  <2>5. CASE head[name] # tail[name]
    <3>1. slots[name][head[name]] # Nothing /\ slots[name][head[name]] \in Nat
      BY <1>3, <2>1, <2>4, <2>5, OldestIsMessage, BoundsAssumption DEF DataInv, Messages
    <3>2. peek'[r].floor = slots[name][head[name]]
      BY <1>3, <2>1, <2>3, <2>5, OldestNoted
    <3> QED  BY <2>1, <2>2, <2>3, <3>1, <3>2 DEF ReaderControl, ReaderView, NotOlder
  <2>6. CASE head[name] = tail[name]
    <3>1. peek'[r].floor = seq[p]
      BY <1>3, <2>1, <2>3, <2>6, OldestNoted
    <3> QED  BY <2>1, <2>2, <2>3, <2>4, <2>6, <3>1 DEF ReaderControl, ReaderView
  <2> QED  BY <2>5, <2>6
<1>9. CASE ReadTail(r)
  <2>1. /\ pc[r] = "lookTail" /\ UNCHANGED <<peek, seg, name, h, slots>>
        /\ pc'[r] = (IF h[r] = tail[seg[r]] THEN "look" ELSE "fetch")
    BY <1>0, <1>9 DEF ReadTail, Goto, procVars, segVars, ringVars
  <2>2. seg[r] = name
    BY <1>4, <2>1 DEF ReaderControl
  <2>3. ReaderControl(r)'
    BY <1>4, <2>1 DEF ReaderControl
  <2>4. ReaderView(p, r)'
    BY <1>3, <2>1, <2>2 DEF ReaderView, NotOlder
  <2> QED  BY <2>3, <2>4
<1>10. CASE Fetch(r)
  <2>1. pc[r] = "fetch" /\ UNCHANGED <<peek, seg, name, h, slots>>
    BY <1>10 DEF Fetch, procVars, segVars, ringVars
  <2>2. seg[r] = name /\ peek[r].room = Capacity /\ peek[r].cap = Capacity
    BY <1>4, <2>1 DEF ReaderControl
  <2>3. h[r] \in 0..(Capacity - 1) /\ h[r] % Capacity = h[r] /\ h[r] < Capacity
    BY <1>0, FirstLap, CapacityAssumption DEF Slots
  <2>4. out' = [out EXCEPT ![r] = slots[name][h[r]]] /\ pc'[r] = "print"
    BY <1>0, <1>10, <2>2, <2>3 DEF Fetch, Goto
  <2>5. out'[r] = slots[name][h[r]]
    BY <1>0, <2>4
  <2>6. ReaderControl(r)'
    BY <1>4, <2>1, <2>4 DEF ReaderControl
  <2>7. ReaderView(p, r)'
    BY <1>3, <2>1, <2>4, <2>5 DEF ReaderView, NotOlder
  <2> QED  BY <2>6, <2>7
<1>11. CASE PrintMessage(r)
  <2>1. /\ pc[r] = "print" /\ UNCHANGED <<seg, name>> /\ pc'[r] \in {"look", "done"}
        /\ peek' = [peek EXCEPT ![r].count = @ + 1]
    BY <1>0, <1>11 DEF PrintMessage, Goto, procVars, segVars
  <2>2. peek'[r].room = peek[r].room
    BY <1>0, <1>1, <1>2, <2>1 DEF Peeks
  <2> QED  BY <1>4, <2>1, <2>2 DEF ReaderControl, ReaderView
<1> QED  BY <1>5, <1>6, <1>7, <1>8, <1>9, <1>10, <1>11 DEF WatchStep

\* The Python subscribers change nothing for the publisher or for each other.
LEMMA WatchNextReader ==
  ASSUME OnePublisher, BaseInv, PeekInv, DataInv, WatchInv, Watched, NEW p \in Publishers,
         NEW r \in Readers, WatchStep(r)
  PROVE  /\ WatchControl(p)' /\ \A q \in Readers : ReaderControl(q)'
         /\ name' # Nothing => WatchRing(p)' /\ \A q \in Readers : ReaderView(p, q)'
<1>0. p \in Processes \ {r} /\ \A s \in Subscribers : s \in Processes \ {r}
  BY WatchFacts DEF Processes
<1>f. UNCHANGED <<use, name, sized, cap, head, tail, slots, seq, pushed, received>>
  BY WatchFrame DEF ringVars
<1>g. pc'[p] = pc[p] /\ h'[p] = h[p] /\ t'[p] = t[p] /\ seg'[p] = seg[p] /\ \A s \in Subscribers : pc'[s] = pc[s]
  BY <1>0, WatchFrame
<1>1. pc[p] \notin Starting
  <2>1. CASE Start(r)
    BY <2>1, WatchFacts DEF Start, Starting
  <2>2. CASE ~Start(r)
    <3>1. pc[r] # "off"
      BY <2>2 DEF WatchStep, ReaderOpen, ReaderMap, ReadCapacity, ReadHead, ReadTail, Fetch, PrintMessage
    <3> QED  BY <3>1, WatchFacts DEF WatchControl
  <2> QED  BY <2>1, <2>2
<1>2. pc'[r] \in Starting => pc[r] \in Starting
  BY WatchFacts DEF Starting, WatchStep, Start, ReaderOpen, ReaderMap, ReadCapacity, ReadHead, ReadTail, Fetch, PrintMessage, Goto
<1>3. ASSUME NEW q \in Readers, pc'[q] \in Starting  PROVE pc[q] \in Starting
  <2>1. CASE q = r
    BY <1>2, <1>3, <2>1
  <2>2. CASE q # r
    BY <1>3, <2>2, WatchFrame, WatchFacts
  <2> QED  BY <2>1, <2>2
<1>4. Fresh' = Fresh
  BY <1>f DEF Fresh
<1>5. WatchControl(p)'
  BY <1>f, <1>g, <1>1, <1>3, <1>4, WatchFacts DEF WatchControl
<1>6. name # Nothing => WatchRing(p)'
  BY <1>f, <1>g, WatchFacts DEF WatchRing, pushes
<1>7. ASSUME NEW q \in Readers  PROVE ReaderControl(q)' /\ (name # Nothing => ReaderView(p, q)')
  <2>1. CASE q = r
    BY <2>1, WatchOwn
  <2>2. CASE q # r
    <3>1. pc'[q] = pc[q] /\ h'[q] = h[q] /\ out'[q] = out[q] /\ peek'[q] = peek[q] /\ seg'[q] = seg[q]
      BY <2>2, WatchFrame, WatchFacts
    <3>2. ReaderControl(q)'
      BY <1>f, <3>1, WatchFacts DEF ReaderControl
    <3>3. name # Nothing => ReaderView(p, q)'
      BY <1>f, <3>1, WatchFacts DEF ReaderView, NotOlder
    <3> QED  BY <3>2, <3>3
  <2> QED  BY <2>1, <2>2
<1> QED  BY <1>f, <1>5, <1>6, <1>7

LEMMA WatchNext == OnePublisher /\ BaseInv /\ PeekInv /\ DataInv /\ WatchInv /\ [ShmNext]_shmVars => WatchInv'
<1> SUFFICES ASSUME OnePublisher, BaseInv, PeekInv, DataInv, WatchInv, [ShmNext]_shmVars, Watched', NEW p \in Publishers
             PROVE  /\ WatchControl(p)' /\ \A r \in Readers : ReaderControl(r)'
                    /\ name' # Nothing => WatchRing(p)' /\ \A r \in Readers : ReaderView(p, r)'
  BY DEF WatchInv
<1>1. Watched
  BY UseKept DEF Watched, InOrderStart
<1>2. CASE MakeStep(p)
  BY <1>1, <1>2, MakeWatch
<1>3. CASE PushStep(p) \/ PopStep(p)
  BY <1>1, <1>3, PublishControl, PublishRing
<1>4. CASE \E r \in Readers : WatchStep(r)
  BY <1>1, <1>4, WatchNextReader
<1>5. CASE UNCHANGED shmVars
  BY <1>1, <1>5, WatchFacts DEF shmVars, segVars, ringVars, procVars, localVars, history, WatchControl, ReaderControl, WatchRing, ReaderView,
     NotOlder, Fresh, pushes
<1> QED  BY <1>1, <1>2, <1>3, <1>4, <1>5, WatchSteps

\* For every capacity, one publisher that drops the oldest message or not and
\* any number of Python subscribers started after it, accesses in program
\* order: what a subscriber prints is a message, and not older than the oldest
\* one in the ring when it read head.
THEOREM PrintedIsFreshCorrect == ASSUME OnePublisher  PROVE ShmSpec => []PrintedIsFresh
<1>1. ASSUME WatchInv, NEW r \in Readers, Watched, pc[r] = "print"
      PROVE  out[r] # Nothing /\ out[r] >= peek[r].floor
  <2>1. PICK p \in Publishers : TRUE
    BY DEF OnePublisher
  <2>2. pc[p] \notin Starting /\ WatchControl(p)
    BY <1>1 DEF WatchInv, WatchControl
  <2>3. name # Nothing
    BY <2>2 DEF WatchControl, Starting
  <2> QED  BY <1>1, <2>3 DEF WatchInv, ReaderView, NotOlder
<1>2. WatchInv => PrintedIsFresh
  BY <1>1 DEF PrintedIsFresh, Watched
<1>3. BaseInv /\ PeekInv /\ DataInv /\ WatchInv /\ [ShmNext]_shmVars => WatchInv'
  BY WatchNext
<1> QED  BY <1>2, <1>3, WatchInit, BaseCorrect, DataCorrect, PTL DEF ShmSpec
=============================================================================
