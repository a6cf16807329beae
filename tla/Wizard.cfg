CONSTANTS
  x = x
  y = y
  z = z
  r1 = r1
  Names      = {x, y, z}
  Blank      = Blank
  Repeaters  = {r1}
  Files      <- AFiles
  MaxRegions = 4
  MaxDepth   = 3
  MaxBrokers = 1
  MaxSaves   = 1
  None       = None
  Unreadable = Unreadable
SPECIFICATION MCSpec
INVARIANTS WizardTypeOK SavedAsShown
PROPERTIES DeletePromotes SaveKeepsUnasked
CHECK_DEADLOCK FALSE
