SPECIFICATION Spec
CONSTANTS
  Disturbances <- Everything
  MaxDisturbances = 3
  MaxSwitches = 2
  Jump = 32
  Far = 120
  MaxDelay = 40
  Skew = 3
INVARIANT TypeOK
CHECK_DEADLOCK FALSE
