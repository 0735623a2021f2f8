CONSTANTS
  ChunkCount = 3
  Conns = {"h1", "p1"}
  Ids = {"host", "peer"}
  Host = "host"
  IdOf <- ConnIds
  RemoteHas <- FirstOnly
  Closable = {}
  Faults = {"serve"}
  MaxTotalInFlight = 2
  MaxInFlightPerPeer = 1
  MaxOwed = 2
  NoPeer = NoPeer
SPECIFICATION Safe
INVARIANTS
  Limits
  Accounted
  InFlightCovers
  NoDuplicateRequest
