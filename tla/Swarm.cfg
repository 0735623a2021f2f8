CONSTANTS
  Conns = {"a1", "b1"}
  Ids = {"a", "b"}
  IdOf <- Joiner
  Broadcasters = {"bitfield"}
  QueueCap = 1
  MaxPieces = 1
  Failing = {"a1"}
  Stalling = {}
  NoPeer = NoPeer
SPECIFICATION Spec
INVARIANTS
  TypeOK
  Reachable
  StableBroadcast
PROPERTIES
  SendReturns
  LockGranted
  AllForgotten
CHECK_DEADLOCK FALSE
