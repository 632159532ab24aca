SPECIFICATION Spec
CONSTANTS
  MaxBreaks = 1
  MaxRestarts = 0
PROPERTY ReconnectRestores
CHECK_DEADLOCK FALSE
