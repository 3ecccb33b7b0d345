SPECIFICATION Spec
CONSTANTS
  m1 = m1
  m2 = m2
  m3 = m3
  k1 = k1
  NoId = NoId
  NoKey = NoKey
  Ids = {m1, m2, m3}
  Keys = {k1}
  Invites = {m1, m2}
  Creations = {}
  Workflows = {}
  Held = {}
  Readable = {}
  MaxInflight = 1
  MaxPending = 3
  MaxConfirmed = 2
  MaxJobs = 2
  Calls <- RosterCalls
INVARIANTS OneOwnerPerKey
CHECK_DEADLOCK FALSE
