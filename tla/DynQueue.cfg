SPECIFICATION Spec
CONSTANTS
  q1 = q1
  q2 = q2
  None = None
  Raw = Raw
  Objects <- TwoObjects
  K = 3
  MaxLen = 4
  MaxBuffers = 3
  MaxSize = 16
  MaxLeaks = 1
SYMMETRY Symmetry
INVARIANTS ActsAsQueue LifetimesExact BuffersOwned
CHECK_DEADLOCK FALSE
