SPECIFICATION Spec
CONSTANTS
  m1 = m1
  m2 = m2
  m3 = m3
  k1 = k1
  NoId = NoId
  NoKey = NoKey
  Ids = {m1, m2, m3}
  Keys = {k1}
  Invites = {}
  Creations = {m1}
  Workflows = {}
  Held = {}
  Readable = {m1}
  MaxInflight = 1
  MaxPending = 2
  MaxConfirmed = 1
  MaxJobs = 2
  Calls <- SessionCalls
INVARIANTS DismissedStaysGone
PROPERTIES UndeliveredIntentKept RevokedStaysHidden
CONSTRAINT Apart
CHECK_DEADLOCK FALSE
