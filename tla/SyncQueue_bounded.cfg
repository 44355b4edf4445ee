SPECIFICATION Spec
CONSTANTS
  t1 = t1
  t2 = t2
  t3 = t3
  t4 = t4
  v1 = v1
  v2 = v2
  NULL = NULL
  UNBOUNDED = 9
  Threads <- FourThreads
  Values <- OneValue
  MaxCapacities <- TwoOrUnbounded
  MayResize = FALSE
  Growth <- Overshooting
  MaxItems = 5
SYMMETRY Symmetry
INVARIANTS
  CountsMatchWaiters
  CapacityBound
  NoStrandedConsumer
  NoStrandedProducer
