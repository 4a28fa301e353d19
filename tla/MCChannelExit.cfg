CONSTANTS
  a = a
  b = b
  Clients = {a, b}
  Driver = Driver
  Input = Input
  Null = Null
  NCPU = 1
  Noblock = {}
  DevOps = {"OPEN", "READ", "WRITE", "CANCEL"}
  DriverDies = TRUE
  RidCount = 7
SPECIFICATION Spec
INVARIANTS
  NodesOutliveFiles
CHECK_DEADLOCK FALSE
