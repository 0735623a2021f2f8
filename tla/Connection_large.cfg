SPECIFICATION Spec
CONSTANTS
  host = host
  joiner = joiner
  Sides <- TwoSides
  Host = host
  Id <- Ids
  Manifest <- Movie
  PeerAddrs <- Addrs
  Known = {}
  Store <- HostOnly
  Bits <- TwoBits
  Rejoins = TRUE
  Plan <- Nobody
  QueueCap = 1
  SocketRoom = 30
  MayBreak = FALSE
  Silent = {}
  ByteBits = 4
  IdLen = 1
  HashLen = 1
  MaxMessageSize = 40
INVARIANT NeverRefused
CHECK_DEADLOCK FALSE
