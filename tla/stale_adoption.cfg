SPECIFICATION Spec
CONSTANTS
  m1 = m1
  m2 = m2
  m3 = m3
  k1 = k1
  NoId = NoId
  NoKey = NoKey
  Ids = {m1}
  Keys = {k1}
  Invites = {}
  Creations = {}
  Workflows = {}
  Held = {}
  Readable = {}
  MaxInflight = 1
  MaxPending = 1
  MaxConfirmed = 2
  MaxJobs = 2
  Calls <- RecoverCalls
INVARIANTS FailedMeansUndelivered
CHECK_DEADLOCK FALSE
