CONSTANTS
  a = a
  b = b
  Clients = {a, b}
  Driver = Driver
  Input = Input
  Null = Null
  NCPU = 2
  Noblock = {}
  DevOps = {"OPEN", "READ", "WRITE", "CANCEL"}
  DriverDies = FALSE
  RidCount = 7
SPECIFICATION Spec
INVARIANTS
  MsgCountExact
