SPECIFICATION Spec
CONSTANTS
  c1 = c1
  c2 = c2
  v1 = v1
  v2 = v2
  None = None
  Dead = Dead
  Bad = Bad
  Moved = Moved
  Objects <- TwoContainers
  Values <- TwoValues
  Capacities <- FewCapacities
  MaxSize = 4
SYMMETRY Symmetry
INVARIANTS ActsAsContainer LifetimesExact
CHECK_DEADLOCK FALSE
