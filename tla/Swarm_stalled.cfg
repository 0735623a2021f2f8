CONSTANTS
  Conns = {"a1"}
  Ids = {"a", "b"}
  IdOf <- Joiner
  Broadcasters = {"bitfield"}
  QueueCap = 1
  MaxPieces = 1
  Failing = {}
  Stalling = {"a1"}
  NoPeer = NoPeer
SPECIFICATION Spec
PROPERTY SendReturns
CHECK_DEADLOCK FALSE
