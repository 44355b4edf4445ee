SPECIFICATION Spec
CONSTANTS
  t1 = t1
  t2 = t2
  t3 = t3
  t4 = t4
  v1 = v1
  v2 = v2
  NULL = NULL
  Threads <- FourThreads
  Values <- TwoValues
INVARIANTS
  NoStrandedConsumer
PROPERTIES
  ImplementsClosableQueue
