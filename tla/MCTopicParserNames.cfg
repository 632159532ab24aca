SPECIFICATION Spec
CONSTANTS
  MaxFree = 5
  MaxRest = 6
INVARIANTS
  EveryNameParsed
CHECK_DEADLOCK FALSE
