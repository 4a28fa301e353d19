CONSTANTS
  a = a
  b = b
  Clients = {a, b}
  Driver = Driver
  Input = Input
  Null = Null
  NCPU = 1
  Noblock = {b}
  DevOps = {"OPEN", "READ", "WRITE", "CANCEL"}
  DriverDies = TRUE
  RidCount = 7
SPECIFICATION FairSpec
INVARIANTS
  TypeOK
  MsgCountExact
  NoLostWakeup
  ChannelConsistent
PROPERTY
  Served
CHECK_DEADLOCK FALSE
