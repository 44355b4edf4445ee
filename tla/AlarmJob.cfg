SPECIFICATION FairSpec
CONSTANTS
  t1 = t1
  t2 = t2
  Threads <- TwoThreads
  Alarms <- AtOnceLaterNever
  BLOCKING = 9
CHECK_DEADLOCK FALSE
INVARIANTS
  NoWakeUpMissed
  SleepsForAReason
  StoppedIsQuiet
  FreedWhenEnded
PROPERTIES
  AlarmRings
