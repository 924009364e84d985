SPECIFICATION Spec
CONSTANTS
  Orders = {o1, o2}
  Calls = {c1, c2}
  Seats = {a, b}
  Nobody = Nobody
  MaxSeats = 2
  Redis = TRUE
  ZooKeeper = TRUE
  Faults = {"redis"}
SYMMETRY Symmetric
VIEW LiveState
INVARIANTS TypeOK NoDoubleSale ClosedHoldsNoLock LockAccountedFor
PROPERTY ImplementsSeatSale
CHECK_DEADLOCK FALSE
