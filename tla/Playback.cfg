CONSTANTS
  ChunkCount = 2
  Conns = {"h1"}
  Ids = {"host"}
  Host = "host"
  IdOf <- ConnIds
  RemoteHas <- AllChunks
  Closable = {"h1"}
  Faults = {"serve"}
  MaxTotalInFlight = 1
  MaxInFlightPerPeer = 1
  MaxOwed = 1
  NoPeer = NoPeer
  FileSize = 5
  ChunkSize = 3
  PlaybackWindow = 1
  Readers = {"r"}
  Requests <- ToEnd
  Buffer = 2
  MaxSpeed = 1
  DefaultSpeed = 1
  Unresponsive = {}
SPECIFICATION PSpec
INVARIANTS
  BodyRight
  WaitedIsUrgent
PROPERTIES
  PlayerFirst
  DownloadedUnlessCut
  ResponsesEnd
