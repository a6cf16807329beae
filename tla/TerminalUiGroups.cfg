CONSTANTS
  Snapshots  <- TwoViews
  Keys       <- AllKeys
  FilterRows <- ThreeRows
  Neighbours = {2}
  Undecoded  = undecoded
  Payloads   = {p, undecoded}
  Times      = {0, 1}
  Window     = 0
  MaxShown   = 3
  LogCapacity = 2
  FeedSlots  = 2
  MaxPackets = 3
  MaxBoots   = 2
  None       = None
SPECIFICATION MCSpec
INVARIANT NewestGroupFirst
CHECK_DEADLOCK FALSE
