SPECIFICATION FairSpec
CONSTANTS
  Orders = {o1, o2}
  Calls = {c1}
  Seats = {a}
  Nobody = Nobody
  MaxSeats = 2
  Redis = TRUE
  ZooKeeper = TRUE
  Faults = {"restart", "redis", "zookeeper"}
INVARIANTS PaidSeatsSold AnnouncedSeatsSold
PROPERTY RequestsEnd
CHECK_DEADLOCK FALSE
