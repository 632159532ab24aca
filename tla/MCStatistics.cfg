SPECIFICATION Spec
CONSTANTS
  Slaves <- MCSlaves
  Addresses = {0}
  Ids <- MCIds
  ValidIds <- MCValidIds
  Retries <- MCRetries
  MaxCalls = 2
  MaxPublishes = 1
  MaxMessages = 1
  MaxPrints = 2
INVARIANTS
  TypeOK
  ConfirmedWriteMade
  MainCountsExact
  OnlyMissedInBetween
PROPERTIES
  PortImplemented
  CallsReturn
CHECK_DEADLOCK FALSE
