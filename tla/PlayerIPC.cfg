CONSTANTS
  Callers = {"sync", "cursor"}
  MaxCalls = 3
  SocketRoom = 1
  MayHang = FALSE
  None = None
SPECIFICATION Spec
CHECK_DEADLOCK FALSE
INVARIANTS
  TypeOK
  OwnAnswer
  ChannelHasRoom
  PendingOwned
PROPERTIES
  CallsReturn
  CloseReturns
