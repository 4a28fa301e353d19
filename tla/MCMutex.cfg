CONSTANTS
  t1 = t1
  t2 = t2
  t3 = t3
  Threads = {t1, t2, t3}
  NCPU = 2
  InitValue = 1
  AllowSigs = {FALSE}
  MaxSignals = 0
  MaxDepth = 2
  Null = Null
SPECIFICATION MutexFairSpec
INVARIANTS
  MutexTypeOK
  ListsIntact
  UnitsMatchWaiters
  AcquiredMeansUnit
  MutexAssert
PROPERTY
  MutexDownReturns
