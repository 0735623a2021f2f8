SPECIFICATION Spec
CONSTANTS
  Disturbances <- LateSeek
  MaxDisturbances = 1
  MaxSwitches = 1
  Jump = 32
  Far = 120
  MaxDelay = 20
  Skew = 0
PROPERTY MatchesPaused
CHECK_DEADLOCK FALSE
