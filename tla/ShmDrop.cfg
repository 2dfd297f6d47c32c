SPECIFICATION ShmSpec
CONSTANTS
  pub1 = pub1
  sub1 = sub1
  py1 = py1
  Nothing = Nothing
  Publishers <- OnePublisher
  Subscribers <- OneSubscriber
  Readers <- OneReader
  Settings <- Dropping
  Capacity = 3
  MaxSeq = 8
  MaxStarts = 2
  MaxPrints = 2
INVARIANT InOrder
