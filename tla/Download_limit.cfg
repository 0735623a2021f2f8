CONSTANTS
  ChunkCount = 2
  Conns = {"h1"}
  Ids = {"host"}
  Host = "host"
  IdOf <- ConnIds
  RemoteHas <- AllChunks
  Closable = {}
  Faults = {}
  MaxTotalInFlight = 2
  MaxInFlightPerPeer = 1
  MaxOwed = 1
  NoPeer = NoPeer
SPECIFICATION Safe
INVARIANT PerPeerLimit
