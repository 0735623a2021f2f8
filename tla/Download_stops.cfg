CONSTANTS
  ChunkCount = 2
  Conns = {"h1", "p1"}
  Ids = {"host", "peer"}
  Host = "host"
  IdOf <- ConnIds
  RemoteHas <- AllChunks
  Closable = {}
  Faults = {}
  MaxTotalInFlight = 1
  MaxInFlightPerPeer = 1
  MaxOwed = 2
  NoPeer = NoPeer
SPECIFICATION Safe
INVARIANT StopsWhenComplete
