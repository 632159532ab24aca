SPECIFICATION Spec
CONSTANTS
  MaxFree = 5
  MaxRest = 6
INVARIANTS
  LevelsParsed
  NeverMisrouted
  SavedConfigReloads
  CommandTopicsFit
CHECK_DEADLOCK FALSE
