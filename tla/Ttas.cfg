SPECIFICATION FairLockSpec
CONSTANTS
  t1 = t1
  t2 = t2
  t3 = t3
  Threads <- ThreeThreads
  MaxBackoff = 4
  MaxWrites = 3
  StaleTests = TRUE
INVARIANTS LockInv MutualExclusion HolderSeesAll NoLostUpdate
PROPERTY LockProgress
CHECK_DEADLOCK FALSE
