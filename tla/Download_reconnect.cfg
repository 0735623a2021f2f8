CONSTANTS
  ChunkCount = 2
  Conns = {"h1", "h2"}
  Ids = {"host"}
  Host = "host"
  IdOf <- ConnIds
  RemoteHas <- AllChunks
  Closable = {"h1"}
  Faults = {"disk", "serve"}
  MaxTotalInFlight = 1
  MaxInFlightPerPeer = 1
  MaxOwed = 1
  NoPeer = NoPeer
SPECIFICATION Spec
INVARIANT TypeOK
PROPERTIES
  StrandedOnlyBy
  Recovers
