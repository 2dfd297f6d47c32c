SPECIFICATION FairSpec
CONSTANTS
  p1 = p1
  p2 = p2
  c1 = c1
  c2 = c2
  v1 = v1
  v2 = v2
  Raw = Raw
  Producers <- TwoProducers
  Consumers <- TwoConsumers
  RequestedCapacity = 1
  MaxSize = 8
  Values <- TwoValues
  Pushes <- PushCalls
  Pops <- PopCalls
  MaxTickets = 1
  StaleThreads <- StaleOnes
  MayThrow = TRUE
INVARIANTS IInv SlotExclusive SlotLifetime ThrowBlocksRing
PROPERTIES ImplementsFifo EveryElementPopped PushRejectionJustified PopRejectionJustified
