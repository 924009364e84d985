SPECIFICATION FairSpec
CONSTANTS
  Events = {e1, e2}
  Runs = {r1}
  MaxFailures = 1
INVARIANTS TypeOK SentWasPublished EventKeptAlone
PROPERTY PendingResolved
CHECK_DEADLOCK FALSE
