SPECIFICATION Spec
CONSTANTS
  d1 = d1
  d2 = d2
  None = None
  Raw = Raw
  Objects <- TwoObjects
  ChunkElems = 2
  MinMap = 3
  K = 3
  MaxLen = 3
  MaxTotal = 3
  MaxMaps = 8
  MaxChunks = 5
  MaxFaults = 1
SYMMETRY Symmetry
INVARIANTS ActsAsDeque ChunksExact
PROPERTY ElementsStay
CHECK_DEADLOCK FALSE
