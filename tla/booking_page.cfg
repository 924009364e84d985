SPECIFICATION FairSpec
CONSTANTS
  MaxOrders = 2
  Jobs = {j1, j2}
  MaxLosses = 1
PROPERTIES AutoCancelsOverdue ListCatchesUp
CHECK_DEADLOCK FALSE
