SPECIFICATION Spec
CONSTANTS
  s1 = s1
  s2 = s2
  c1 = c1
  c2 = c2
  w1 = w1
  w2 = w2
  j1 = j1
  j2 = j2
  j3 = j3
  NULL = NULL
  UNBOUNDED = 9
  Submitters <- TwoSubmitters
  Controllers <- TwoControllers
  Workers <- TwoWorkers
  Jobs <- ThreeJobs
  type = "CACHED"
  worker_count_limit = 2
  QueueCapacities <- OneOrLinkedList
  Growth <- FailsOrGrows
  MayFail = TRUE
SYMMETRY Symmetry
INVARIANTS
  CountsAccounted
  JobsHaveOneOwner
  QuietAfterShutdown
  FreedWhenDeserted
PROPERTIES
  ImplementsJobService
