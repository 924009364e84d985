SPECIFICATION BusySpec
CONSTANTS
  Calls = {c1, c2}
  MaxProbes = 2
  MinRequests = 2
  ErrorPercent = 30
  SlowPercent = 50
  MaxWindow = 2
  Administrators = FALSE
PROPERTY OpenRecovers
CHECK_DEADLOCK FALSE
