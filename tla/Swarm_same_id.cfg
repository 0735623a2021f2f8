CONSTANTS
  Conns = {"a1", "a2"}
  Ids = {"a", "b"}
  IdOf <- Joiner
  Broadcasters = {"bitfield"}
  QueueCap = 1
  MaxPieces = 1
  Failing = {"a1"}
  Stalling = {}
  NoPeer = NoPeer
SPECIFICATION Safe
INVARIANT Reachable
CHECK_DEADLOCK FALSE
