SPECIFICATION FairSpec
CONSTANTS
  Jobs = {"j1", "j2"}
  MaxSaves = 2
  MaxOrders = 1
  MaxEdits = 1
  MaxCrashes = 1
INVARIANTS TypeOK
PROPERTIES OrdersKept PageCatchesUp RateCatchesUp
CHECK_DEADLOCK FALSE
