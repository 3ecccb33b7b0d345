SPECIFICATION Spec
CONSTANTS
  m1 = m1
  m2 = m2
  m3 = m3
  k1 = k1
  NoId = NoId
  NoKey = NoKey
  Ids = {m1, m2, m3}
  Keys = {k1}
  Invites = {m1, m2}
  Creations = {}
  Workflows = {m3}
  Held = {}
  Readable = {}
  MaxInflight = 1
  MaxPending = 2
  MaxConfirmed = 2
  MaxJobs = 2
  Calls <- OutcomeCalls
INVARIANTS OneOwnerPerKey EvidenceInv
PROPERTIES RecoveryReleasedDurably OneReceiptPerCommand PolicyOutlivesRestart
CONSTRAINT Outcomes
SYMMETRY AdditionsAlike
CHECK_DEADLOCK FALSE
