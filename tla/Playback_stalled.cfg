CONSTANTS
  ChunkCount = 2
  Conns = {"h1", "p1"}
  Ids = {"host", "peer"}
  Host = "host"
  IdOf <- ConnIds
  RemoteHas <- AllChunks
  Closable = {}
  Faults = {"serve"}
  MaxTotalInFlight = 1
  MaxInFlightPerPeer = 1
  MaxOwed = 1
  NoPeer = NoPeer
  FileSize = 5
  ChunkSize = 3
  PlaybackWindow = 1
  Readers = {}
  Requests <- Ranges
  Buffer = 2
  MaxSpeed = 1
  DefaultSpeed = 2
  Unresponsive = {"p1"}
SPECIFICATION PSpec
PROPERTY StalledIsAvoided
