SPECIFICATION FairShmSpec
CONSTANTS
  pub1 = pub1
  sub1 = sub1
  py1 = py1
  Nothing = Nothing
  Publishers <- OnePublisher
  Subscribers <- OneSubscriber
  Readers <- OneReader
  Settings <- Uses
  Capacity = 3
  MaxSeq = 4
  MaxStarts = 3
  MaxPrints = 2
INVARIANTS IndicesInRange WrongByLapOnly PrintedIsFresh
PROPERTIES ImplementsFifo EveryMessageReceived ReaderPrints
CHECK_DEADLOCK FALSE
