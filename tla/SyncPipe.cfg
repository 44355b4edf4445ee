SPECIFICATION FairSpec
CONSTANTS
  t1 = t1
  t2 = t2
  t3 = t3
  NOBODY = NOBODY
  Threads <- ThreeThreads
  Bytes <- TwoBytes
  Data <- NothingLittleMuch
  Sizes <- NoneOrTwo
  MaxCapacities <- NoneOrFour
  MayFail = TRUE
INVARIANTS
  SleepersHaveAReason
PROPERTIES
  ImplementsByteStream
  ZeroMeansClosedOrFailed
  CloseReleasesWaiters
