SPECIFICATION FairJobSpec
CONSTANTS
  Owner = owner
  Runner = runner
  p1 = p1
  p2 = p2
  Output = output
  cb1 = cb1
  completion_callback = push_promise
  NULL = NULL
  UNBOUNDED = 9
  Threads <- TwoPeers
  Results <- OutputOrNull
  Callbacks <- TwoCallbacks
  QueueSizes <- OneSlotOrEnough
  Growth <- FailsOrGrows
  MayFail = TRUE
CHECK_DEADLOCK FALSE
INVARIANTS
  CallbackRunsOnce
  NobodySleepsOnAResult
  NothingUsedAfterFree
PROPERTIES
  ImplementsFuture
  OwnerIsTold
