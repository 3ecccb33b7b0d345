SPECIFICATION FairSpec
CONSTANTS
  m1 = m1
  m2 = m2
  m3 = m3
  k1 = k1
  NoId = NoId
  NoKey = NoKey
  Ids = {m1, m2}
  Keys = {}
  Invites = {}
  Creations = {}
  Workflows = {}
  Held = {m1}
  Readable = {}
  MaxInflight = 1
  MaxPending = 2
  MaxConfirmed = 2
  MaxJobs = 2
  Calls <- EvidenceCalls
INVARIANTS TypeOK FailedMeansUndelivered EvidenceIsReal DurableBeforeDispatch
  SlotsInUse
PROPERTIES ImplementsEvidence EverySendSettles
CHECK_DEADLOCK FALSE
