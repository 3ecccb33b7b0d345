SPECIFICATION OnceSpec
CONSTANTS
  m1 = m1
  m2 = m2
  k1 = k1
  NoId = NoId
  NoKey = NoKey
  Ids = {m1, m2}
  Keys = {k1}
  Invites = {m1}
  Creations = {}
  Workflows = {}
  Held = {}
  Readable = {}
  MaxInflight = 1
  MaxPending = 2
  MaxConfirmed = 2
  MaxJobs = 2
  Calls <- ReceiptCalls
  Posts = {1, 2}
  Drift = 1
  Overlap = 2
  PollLag = 1
  HeardLimit = 1
  HeardMost = 9
  PageSize = 1
  MaxPages = 2
  BatchSize = 2
  MaxClock = 3
  MaxUpsets = 1
INVARIANTS DismissedStaysGone WorkIsOpen GivenOnce NothingPassedOver
PROPERTIES DismissalSparesReceipts
CHECK_DEADLOCK FALSE
