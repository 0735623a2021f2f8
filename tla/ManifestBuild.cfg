CONSTANTS
  Count = 6
  NumCPU = 2
  MayFail = {1, 3}
SPECIFICATION Spec
CHECK_DEADLOCK FALSE
INVARIANTS
  TypeOK
  Outcome
  FileClosedLast
PROPERTY EverybodyEnds
