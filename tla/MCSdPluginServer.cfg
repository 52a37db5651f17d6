CONSTANTS
  s1 = s1
  s2 = s2
  s3 = s3
  clock = clock
  timer = timer
  keyDot = keyDot
  keyHash = keyHash
  clean = clean
  broken = broken
  foreign = foreign
  None = None
  Pending = Pending
  Sockets <- MCSockets
  PluginUuids <- MCPluginUuids
  Contexts <- MCContexts
  Canon <- MCCanon
  MaxAttempts = 2
  Orderly = TRUE
  MaxSalt = 2
  Here <- HereOf
  Broken = {broken}
  Socket = {foreign}
  MaxLate = 2
  MaxCalls = 6
SPECIFICATION MCSpec
SYMMETRY MCSymmetry
CHECK_DEADLOCK FALSE
INVARIANTS TypeOK ConnectionsAgree ChallengesHold FramesAreAttributed AnswersAreOfTheirCall
