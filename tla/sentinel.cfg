SPECIFICATION FairSpec
CONSTANTS
  Calls = {c1, c2, c3}
  MaxProbes = 2
  MinRequests = 2
  ErrorPercent = 30
  SlowPercent = 50
  MaxWindow = 2
  Administrators = TRUE
INVARIANTS TypeOK ProbesInFlight
PROPERTIES ProbesDecide OrdersReopen
CHECK_DEADLOCK FALSE
