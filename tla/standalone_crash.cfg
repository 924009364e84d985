SPECIFICATION Spec
CONSTANTS
  Orders = {o1, o2}
  Seats = {a, b}
  Nobody = Nobody
  MaxSeats = 2
  TTL = 2
  Delay = 1
  MaxTime = 3
  Crashes = TRUE
SYMMETRY Symmetric
INVARIANTS TypeOK NoDoubleSale PaidSeatsSold SoldSeatUnlocked LockHasOrder OverdueHoldsNothing RecordedHappened
PROPERTY ImplementsSale
CHECK_DEADLOCK FALSE
