SPECIFICATION Spec
CONSTANTS
  Buttons <- MCButtons
  Relays <- MCRelays
  CoilOf <- MCCoilOf
  Names <- MCNames
  Arriving <- MCArriving
  RefreshInterval = 1
  MaxQueue = 2
INVARIANTS
  TypeOK
  OnlyHandledCleared
PROPERTIES
  CommandsInOrder
  OnlyLossFrees
  ButtonsReachBroker
  CommandsPerformed
  SignalEnds
CHECK_DEADLOCK FALSE
