CONSTANTS
  a = a
  b = b
  c = c
  Repeaters   = {a, b, c}
  Registered  = {a, b}
  Passwords   = {a}
  Heard       = {c}
  Commands    <- ACommands
  UpdateSlots = 4
  SocketSlots = 1
  MaxRequests = 2
  MaxChanges  = 1
  None        = None
SPECIFICATION MCSpec
INVARIANTS MeshNeverWaits PopupSettles SessionsClosed ReportTruthful
CHECK_DEADLOCK FALSE
