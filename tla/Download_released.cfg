CONSTANTS
  ChunkCount = 1
  Conns = {"h1", "h2"}
  Ids = {"host"}
  Host = "host"
  IdOf <- ConnIds
  RemoteHas <- AllChunks
  Closable = {"h1"}
  Faults = {}
  MaxTotalInFlight = 1
  MaxInFlightPerPeer = 1
  MaxOwed = 1
  NoPeer = NoPeer
SPECIFICATION Safe
INVARIANT InFlightCovers
