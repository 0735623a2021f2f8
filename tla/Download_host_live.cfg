CONSTANTS
  ChunkCount = 2
  Conns = {"h1"}
  Ids = {"host"}
  Host = "host"
  IdOf <- ConnIds
  RemoteHas <- AllChunks
  Closable = {}
  Faults = {"serve"}
  MaxTotalInFlight = 2
  MaxInFlightPerPeer = 2
  MaxOwed = 2
  NoPeer = NoPeer
SPECIFICATION Spec
INVARIANT StopsWhenComplete
PROPERTIES
  Downloaded
  EveryRequestEnds
