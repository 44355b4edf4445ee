SPECIFICATION FairSpec
CONSTANTS
  t1 = t1
  t2 = t2
  Threads <- TwoThreads
  Periods <- UpToThree
CHECK_DEADLOCK FALSE
INVARIANTS
  SleepsForAReason
  StoppedIsQuiet
  FreedWhenEnded
PROPERTIES
  StopsAreHonoured
  WaitersReturn
