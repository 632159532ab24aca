SPECIFICATION Spec
CONSTANTS
  MaxBreaks = 3
  MaxRestarts = 2
INVARIANTS
  TypeOK
  OnlineIsBacked
PROPERTIES
  LossIsForGood
  EndIsNoticed
CHECK_DEADLOCK FALSE
