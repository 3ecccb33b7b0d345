SPECIFICATION RouteSpec
CONSTANTS
  Posts = {1, 2, 3}
  Drift = 0
  Overlap = 1
  PollLag = 1
  HeardLimit = 3
  HeardMost = 9
  PageSize = 3
  MaxPages = 1
  BatchSize = 1
  MaxClock = 2
  MaxUpsets = 2
INVARIANTS GivenOnce
CHECK_DEADLOCK FALSE
