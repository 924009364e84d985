SPECIFICATION Spec
CONSTANTS
  Users = {u1, u2}
  Tokens = {k1, k2}
  Capacity = 4
  Rate = 1
  Cost = 1
  UserLimit = 2
  Window = 2
  Ages = {2, 3}
  Lifetime = 3
  Nobody = Nobody
  MaxTime = 5
SYMMETRY Symmetric
INVARIANTS TypeOK TakenBounded UserBounded LoggedOutStaysOut
CHECK_DEADLOCK FALSE
