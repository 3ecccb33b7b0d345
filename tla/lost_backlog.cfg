SPECIFICATION PolledSpec
CONSTANTS
  Posts = {1, 2}
  Drift = 1
  Overlap = 2
  PollLag = 1
  HeardLimit = 3
  HeardMost = 9
  PageSize = 1
  MaxPages = 2
  BatchSize = 2
  MaxClock = 3
  MaxUpsets = 1
INVARIANTS DeliveredOrSkipped
CHECK_DEADLOCK FALSE
