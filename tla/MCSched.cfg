CONSTANTS
  t1 = t1
  t2 = t2
  t3 = t3
  c1 = c1
  c2 = c2
  Threads = {t1, t2}
  CPUs = {c1, c2}
  Events = {1}
  Objects = {0, 1}
  AnyObject = 0
  MAX_PRIO = 1
  PRIO_FORGIVE_CNT = 2
  InitThread = t1
  BootCPU = c1
  NoThread = NoThread
  NoCPU = NoCPU
  NoEvent = NoEvent
SPECIFICATION Spec
INVARIANTS
  TypeOK
  ReadyQueuesConsistent
  EventListsConsistent
  RunningOnce
  NoLostWakeup
  PendingBlock
  NoMissedSignal
PROPERTY
  HighestPriorityRuns
