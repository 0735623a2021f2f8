SPECIFICATION Spec
CONSTANTS
  Disturbances <- Everything
  MaxDisturbances = 1
  MaxSwitches = 1
  Jump = 32
  Far = 120
  MaxDelay = 60
  Skew = 0
PROPERTY KeepsUp
CHECK_DEADLOCK FALSE
