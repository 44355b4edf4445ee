SPECIFICATION FairSpec
CONSTANTS
  t1 = t1
  t2 = t2
  t3 = t3
  t4 = t4
  v1 = v1
  v2 = v2
  NULL = NULL
  UNBOUNDED = 9
  Threads <- ThreeThreads
  Values <- TwoValues
  MaxCapacities <- OneOrTwo
  MayResize = TRUE
  Growth <- OrFailing
  MaxItems = 2
PROPERTIES
  ImplementsClosableQueue
  CloseReleasesWaiters
