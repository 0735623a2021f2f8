SPECIFICATION Spec
CONSTANTS
  Disturbances = {}
  MaxDisturbances = 0
  MaxSwitches = 3
  Jump = 32
  Far = 120
  MaxDelay = 20
  Skew = 0
PROPERTY MatchesPaused
CHECK_DEADLOCK FALSE
