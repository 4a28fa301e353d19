CONSTANTS
  t1 = t1
  t2 = t2
  t3 = t3
  Threads = {t1, t2, t3}
  NCPU = 1
  InitValue = 1
  AllowSigs = {TRUE, FALSE}
  MaxSignals = 2
  Null = Null
SPECIFICATION Spec
INVARIANTS
  TypeOK
  UnitsConserved
  SignalEndsWait
SYMMETRY Symmetry
CHECK_DEADLOCK FALSE
