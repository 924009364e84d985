SPECIFICATION Spec
CONSTANTS
  Orders = {o1, o2}
  Calls = {c1, c2}
  Seats = {a}
  Nobody = Nobody
  MaxSeats = 2
  Redis = TRUE
  ZooKeeper = TRUE
  Faults = {"zookeeper"}
SYMMETRY Symmetric
INVARIANT NoDoubleSale
CHECK_DEADLOCK FALSE
