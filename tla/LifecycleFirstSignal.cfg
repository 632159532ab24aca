SPECIFICATION Spec
CONSTANTS
  WatchdogTimeout = 1
  MaxSignals = 1
  SignalsWhileLogging = TRUE
PROPERTY FirstSignalHandled
CHECK_DEADLOCK FALSE
