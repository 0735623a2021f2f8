CONSTANTS
  Callers = {"sync", "cursor"}
  MaxCalls = 2
  SocketRoom = 1
  MayHang = FALSE
  None = None
SPECIFICATION Safe
CHECK_DEADLOCK FALSE
INVARIANT QuitBeforeKill
