SPECIFICATION RelaySpec
CONSTANTS
  f1 = f1
  f2 = f2
  b1 = b1
  b2 = b2
  b3 = b3
  Requests = {f1, f2, b1, b2, b3}
  Foreground = {f1, f2}
  MaxActive = 2
  MaxQueue = 2
  MaxPreparing = 4
  MaxLead = 2
  MaxOwnLead = 5
  MaxTime = 6
  MaxSends = 4
  MaxBack = 6
  Sources = {"live", "catalog", "prefs"}
  Live = "live"
  Reauthorizing = {"catalog"}
  MaxAttempt = 2
  MaxReauthorized = 2
INVARIANTS RelayTypeOK EveryTicketCounted WaitsOnlyForSlots LeadIsEarned OwnerAgrees
PROPERTIES ForegroundAnswered SendsInOrder RepliesSortAfter DelaysGrow NeverGivesUp
  ReadsWithNewCredentials
CHECK_DEADLOCK FALSE
