SPECIFICATION Spec
CONSTANTS
  Buttons <- MCButtons
  Relays <- MCRelays
  CoilOf <- MCCoilOf
  Names <- MCNames
  Arriving <- MCArriving
  RefreshInterval = 1
  MaxQueue = 2
PROPERTIES
  AnnouncementEnds
CHECK_DEADLOCK FALSE
