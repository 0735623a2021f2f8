CONSTANTS
  Callers = {"sync", "cursor"}
  MaxCalls = 3
  SocketRoom = 1
  MayHang = TRUE
  None = None
SPECIFICATION Spec
CHECK_DEADLOCK FALSE
PROPERTY CallsReturn
