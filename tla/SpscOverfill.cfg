SPECIFICATION Spec
CONSTANTS
  v1 = v1
  v2 = v2
  Raw = Raw
  Values <- OneValue
  RequestedCapacity = 2
  MaxSize = 8
  WordBits = 4
  MaxBatch = 2
  MaxPushes = 7
  StaleLoads = FALSE
INVARIANT NeverOverfilled
