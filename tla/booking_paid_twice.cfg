SPECIFICATION Spec
CONSTANTS
  Orders = {o1}
  Calls = {c1, c2}
  Seats = {a}
  Nobody = Nobody
  MaxSeats = 1
  Redis = TRUE
  ZooKeeper = TRUE
  Faults = {}
SYMMETRY Symmetric
INVARIANT PaidOnce
CHECK_DEADLOCK FALSE
