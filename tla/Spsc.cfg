SPECIFICATION FairSpec
CONSTANTS
  v1 = v1
  v2 = v2
  Raw = Raw
  Values <- TwoValues
  RequestedCapacity = 2
  MaxSize = 8
  WordBits = 4
  MaxBatch = 2
  MaxPushes = 5
  StaleLoads = TRUE
INVARIANTS SlotHandover SlotLifetime
PROPERTIES PushRejection ImplementsFifo EveryElementPopped
