SPECIFICATION Spec
CONSTANTS
  NumInputs = 0
  SlaveOf <- MCSlaveOf
  AddressOf <- MCAddressOf
  InputTopic <- MCInputTopic
  Relays <- MCRelayNames
  CoilOf <- MCCoilOf
  RelayTopic <- MCRelayTopic
  Limits <- MCLimits
  RefreshInterval = 1
  Topics <- MCTopics
  Payloads = {"ON", "OFF"}
  MaxQueue = 2
  MaxInflight = 1
INVARIANTS
  RelayViewTruthful
PROPERTIES
  RelayServiceImplemented
  CommandsServed
  PollingGoesOn
CHECK_DEADLOCK FALSE
