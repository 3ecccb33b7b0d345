SPECIFICATION SharedSpec
CONSTANTS
  i1 = i1
  i2 = i2
  k1 = k1
  w1 = w1
  w2 = w2
  Windows = {w1, w2}
  Ids = {i1, i2}
  Keys = {k1}
  NoKey = NoKey
  Released = Released
  NoId = NoId
  NoWindow = NoWindow
  Legacy <- MCLegacy
  May <- MCMay
  MaxAsked = 1
  a1 = a1
  a2 = a2
  near = near
  away = away
  Attempts = {a1, a2}
  Phones = {near, away}
  Mine = near
  None = None
  Principals = {"bot", "owner", "guest", "relay"}
  Agents = {"bot"}
  Communities = {"home", "away"}
  Channels = {"general", "team", "dm", "far"}
  Kind <- MCKind
  CommunityOf <- MCCommunityOf
  OwnerOf <- MCOwnerOf
  System = "relay"
  NoOne = "none"
  Requests = {{}, {"owner"}, {"guest", "owner"}, {"relay"}, {"guest"}}
  Operations = {"read", "reply", "delete"}
  BotPolicy <- MCBotPolicy
  ConversationPolicy <- MCConversationPolicy
  MaxSessions = 2
  MaxSaved = 1
  MaxChanges = 1
  channel = channel
  thread = thread
  Markers = {channel, thread}
  MaxSlots = 3
  Room = 1
  MaxValue = 2
  MaxRevision = 2
  MaxVersion = 2
  MaxFloor = 1
  MaxRestores = 1
  NoOperation = NoOperation
INVARIANTS PublicationsAuthorised MemoryStaysInContext PayloadForConfirmedPhone StatusIsTrue
  NothingLost AcceptedIsPublished
PROPERTIES StoppedMeansUnsent DeletesOnlyItsOwn NeverRewound
SYMMETRY AttemptSymmetry
CHECK_DEADLOCK FALSE
