SPECIFICATION Spec
CONSTANTS
  WatchdogTimeout = 1
  MaxSignals = 2
  SignalsWhileLogging = FALSE
INVARIANTS
  TypeOK
  KilledOnlyWithCause
  HungEndsByForce
  SignalsHeard
PROPERTIES
  HangNoticed
  SignalStops
  ForcedExitEnds
CHECK_DEADLOCK FALSE
