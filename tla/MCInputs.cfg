SPECIFICATION Spec
CONSTANTS
  NumInputs = 2
  SlaveOf <- MCSlaveOf
  AddressOf <- MCAddressOf
  InputTopic <- MCInputTopic
  Relays = {}
  CoilOf <- MCNothing
  RelayTopic <- MCNothing
  Limits = {0}
  RefreshInterval = 1
  Topics = {}
  Payloads = {}
  MaxQueue = 0
  MaxInflight = 2
INVARIANTS
  TypeOK
  InputViewCurrent
PROPERTIES
  InputsReachBroker
CHECK_DEADLOCK FALSE
