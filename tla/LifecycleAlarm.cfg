SPECIFICATION Spec
CONSTANTS
  WatchdogTimeout = 1
  MaxSignals = 0
  SignalsWhileLogging = FALSE
PROPERTY AlarmForcesRestart
CHECK_DEADLOCK FALSE
