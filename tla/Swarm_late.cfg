CONSTANTS
  Conns = {"a1"}
  Ids = {"a", "b"}
  IdOf <- Joiner
  Broadcasters = {"bitfield"}
  QueueCap = 1
  MaxPieces = 1
  Failing = {}
  Stalling = {}
  NoPeer = NoPeer
SPECIFICATION Safe
INVARIANT ClosedForAll
CHECK_DEADLOCK FALSE
