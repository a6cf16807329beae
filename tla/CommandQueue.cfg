CONSTANTS
  Clients = {c1}
  Brokers = {b1}
  Reloader = reload
  Capacity = 1
  MaxRequests = 2
  NoCommand = NoCommand
SPECIFICATION FairSpec
INVARIANTS TypeOK NothingLost
PROPERTIES ServiceSpec ServedWhenNodeReturns
