\* Three process ids, four threads and the terminator.
SPECIFICATION Spec
CONSTANTS
  Procs <- MCProcs
  Init0 = 0
  Threads <- MCThreads
  ProcOf <- MCProcOf
  Main <- MCMain
  Terminator = Terminator
  Any = Any
  Calls <- MCCalls
  Awaited <- MCAwaited
  None = None
INVARIANTS
  TypeOK
  RefsExact
  ChildWakeupNotLost
  JoinWakeupNotLost
  KilledOnce
  ReleasesAlone
PROPERTIES
  ProcessesEnd
CONSTRAINT
  LockReturned
CHECK_DEADLOCK FALSE
