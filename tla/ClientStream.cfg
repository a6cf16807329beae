SPECIFICATION Spec
CONSTANTS
  EventCap = 2
  SocketCap = 1
  UiCap = 1
  CmdCap = 1
  JobCap = 1
  LogCap = 2
  MaxShown = 3
  MaxNumber = 2
  MaxPackets = 2
  MaxKeys = 2
INVARIANTS UpToDateAtRest OwnChangeShown PacketsListed StopsOnlyAtRest
CHECK_DEADLOCK FALSE
