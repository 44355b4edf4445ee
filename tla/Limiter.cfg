SPECIFICATION FairSpec
CONSTANTS
  t1 = t1
  t2 = t2
  t3 = t3
  b1 = b1
  BreakOuts <- OneFlag
  Threads <- ThreeThreads
  MaxCount = 2
CHECK_DEADLOCK FALSE
INVARIANTS
  SleepersHaveAReason
PROPERTIES
  NeverOvergranted
  DeletionFindsAllReturned
  RequestsAreReleased
  DeletionEnds
