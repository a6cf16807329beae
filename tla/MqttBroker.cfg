SPECIFICATION LiveSpec
CONSTANTS
  Configs <- TwoConfigs
  Capacity = 2
  EventCap = 1
  MaxForwards = 1
INVARIANTS TypeOK StatusCurrent NewestCredentials
PROPERTY StatusReported
