CONSTANTS
  ChunkCount = 3
  Conns = {"h1"}
  Ids = {"host"}
  Host = "host"
  IdOf <- ConnIds
  RemoteHas <- AllChunks
  Closable = {}
  Faults = {"serve"}
  MaxTotalInFlight = 2
  MaxInFlightPerPeer = 1
  MaxOwed = 1
  NoPeer = NoPeer
  FileSize = 8
  ChunkSize = 3
  PlaybackWindow = 1
  Readers = {"r"}
  Requests <- Ranges
  Buffer = 2
  MaxSpeed = 1
  DefaultSpeed = 1
  Unresponsive = {}
SPECIFICATION PSpec
INVARIANTS
  PTypeOK
  StopsWhenComplete
  BodyRight
  WaitedIsUrgent
PROPERTY PlayerFirst
