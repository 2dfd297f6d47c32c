SPECIFICATION NumaSpec
CONSTANTS
  Count = 4
  Null = Null
  MaskSize = 1
  Preferred <- NodeArguments
INVARIANT PoolInv
PROPERTY ImplementsAllocator
