SPECIFICATION Spec
CONSTANTS
  Types = {"movies", "hot_movies", "search"}
  Readers = {r1}
  Elastic = TRUE
  MaxWrites = 2
  MaxRestarts = 1
INVARIANTS TypeOK ClearHolds
CHECK_DEADLOCK FALSE
