CONSTANTS
  ChunkCount = 1
  Conns = {"h1"}
  Ids = {"host"}
  Host = "host"
  IdOf <- ConnIds
  RemoteHas <- AllChunks
  Closable = {}
  Faults = {"disk"}
  MaxTotalInFlight = 1
  MaxInFlightPerPeer = 1
  MaxOwed = 1
  NoPeer = NoPeer
SPECIFICATION Spec
PROPERTY EveryRequestEnds
