SPECIFICATION Spec
CONSTANTS
  Disturbances <- Everything
  MaxDisturbances = 2
  MaxSwitches = 3
  Jump = 32
  Far = 80
  MaxDelay = 20
  Skew = 3
PROPERTIES KeepsUp PausedTogether
CHECK_DEADLOCK FALSE
