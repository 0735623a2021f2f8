SPECIFICATION Spec
CONSTANTS
  host = host
  joiner = joiner
  Sides <- TwoSides
  Host = host
  Id <- Ids
  Manifest <- Movie
  PeerAddrs <- Addrs
  Known = {}
  Store <- HostOnly
  Bits <- TwoBits
  Rejoins = TRUE
  Plan <- OneWay
  QueueCap = 1
  SocketRoom = 30
  MayBreak = TRUE
  Silent = {}
  ByteBits = 4
  IdLen = 1
  HashLen = 1
  MaxMessageSize = 60
INVARIANTS Faithful NeverRefused JoinedRight
PROPERTIES DialReturns RequestsAnswered
CHECK_DEADLOCK FALSE
