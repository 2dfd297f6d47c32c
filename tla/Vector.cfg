SPECIFICATION Spec
CONSTANTS
  v1 = v1
  v2 = v2
  None = None
  Dead = Dead
  Bad = Bad
  Objects <- TwoVectors
  K = 2
  MaxLen = 4
SYMMETRY Symmetry
INVARIANTS ActsAsVector LifetimesExact
CHECK_DEADLOCK FALSE
