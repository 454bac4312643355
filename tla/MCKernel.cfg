SPECIFICATION Spec
CONSTANTS
  Attempts = 2
  MaxChunks = 2
  Deltas <- MCDeltas
  Collections <- MCCollections
  Requests <- MCRequests
  HugeBuffer = 6
  GuardMode = "repair"
  OrphanPolicy = "downgrade"
  CompactorMode = "enforce"
  CompactBytes = 10
  CompactTokens = 10
  TargetBytes = 9
  TargetTokens = 9
  UpstreamLimit = 12
  Chunk = 2
  PreserveRecent = 2
  StreamPolicy <- MCStreamPolicy
  HugePolicy <- MCHugePolicy
  MidSizedAt = 5
  MidMessages = 4
  MidLargest = 2
  MidLatestUser = 2
  FoldTokens = 5
  FoldMessages = 5
  FoldKeeps = 3
  Names <- MCNames
  NoName = NoName
  Numbered <- MCNumbered
  Suffixed <- MCSuffixed
INVARIANTS TypeOK HistorySent OneAttempt WholeCalls AnnouncementNotFinal MarkupWithheld
PROPERTIES FollowsMessage AnswerEnds
CHECK_DEADLOCK FALSE
