SPECIFICATION MCSpec
CONSTANTS
  h1 = h1
  w1 = w1
  w2 = w2
  p1 = p1
  p2 = p2
  NoId = NoId
  NoPath = NoPath
  Hooks <- OneHook
  Peers <- NoPeer
  Silent <- NoPeer
  Paths <- TwoPaths
  Ids <- TwoIds
  Registered <- OneRegistered
  BackendOf <- FirstBackend
  MaxTries = 2
  MaxFailures = 2
  BacklogSize = 1
  Base = 6
  NotUtf8 = 5
  Messages <- MCMessages
  Frames <- MCFrames
  PayloadCap = 8
  BodyCap = 10
  PathCap = 3
  Absent = Absent
  Failure = Failure
  Pending = Pending
INVARIANTS NothingElseDecodes WholeMessageIsRead
PROPERTIES ServiceSpec ImplementsChannel
CHECK_DEADLOCK FALSE
