SPECIFICATION FairSpec
CONSTANTS
  Threads = {t1, t2}
  CPUs = {c0, c1}
  CPU0 = c0
  ListenerCount = 3
  TimeInc = 5
  TimeSlice = 10
  MaxMsecs = 7
  Durations <- MCDurations
INVARIANTS
  TypeOK
  DueInRange
  GoneHasNoEntry
  SleeperHasEntry
PROPERTIES
  TimersCountDown
  SleepReturns
CHECK_DEADLOCK TRUE
