SPECIFICATION HugeSpec
CONSTANTS
  a1 = a1
  a2 = a2
  None = None
  Arenas <- TwoArenas
  WordBits = 6
  HeapBases <- TwoBases
  Buffers <- OddBuffer
  RegionSize = 8
  Requests <- FewRequests
  Alignments <- FewAlignments
  PageSize = 4
  HugeSizes <- HugeOrUnknown
  MapArea <- FourPages
  Sizes <- FewSizes
  MaxRegions = 2
SYMMETRY Symmetry
INVARIANTS BlocksSound RegionsOwned RefusalJustified RegionsMapped
