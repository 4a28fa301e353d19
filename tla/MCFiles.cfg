\* Two processes, three threads, two files and up to two descriptors each.
SPECIFICATION Spec
CONSTANTS
  Procs = {1, 2}
  First = 1
  Threads <- MCThreads
  ProcOf <- MCProcOf
  FileSlots = {f1, f2}
  InitFds = 1
  MaxFds = 2
  Addrs = {1}
  Calls <- MCCalls
  Null = Null
INVARIANTS
  TypeOK
  RefsCounted
  NotFreedInUse
PROPERTIES
  ClosedIsFreed
CONSTRAINT
  NothingTorn
