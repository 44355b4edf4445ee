SPECIFICATION Spec
CONSTANTS
  s1 = s1
  s2 = s2
  c1 = c1
  c2 = c2
  w1 = w1
  w2 = w2
  j1 = j1
  j2 = j2
  j3 = j3
  NULL = NULL
  UNBOUNDED = 9
  Submitters <- TwoSubmitters
  Controllers <- OneController
  Workers <- OneWorker
  Jobs <- TwoJobs
  type = "CACHED"
  worker_count_limit = 1
  QueueCapacities <- TwoOrLinkedList
  Growth <- ByOne
  MayFail = FALSE
INVARIANTS
  DeleteFindsNoJobs
