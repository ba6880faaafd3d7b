SPECIFICATION FairSpec
CONSTANTS
  h1 = h1
  w1 = w1
  w2 = w2
  p1 = p1
  p2 = p2
  NoId = NoId
  NoPath = NoPath
  Hooks <- OneHook
  Peers <- TwoPeers
  Silent <- OneSilent
  Paths <- OnePath
  Ids <- ThreeIds
  Registered <- TwoIds
  BackendOf <- SecondBackend
  MaxTries = 1
  MaxFailures = 1
  BacklogSize = 1
INVARIANTS TypeOK RunsWhatWasAsked AnswersTheRequest OnePlace KilledOnlyByFailure NoHangUp
PROPERTIES ResponseIsFinal ExecveReturns EveryClientReleased
CHECK_DEADLOCK FALSE
