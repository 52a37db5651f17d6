CONSTANTS
  Plugins = {"clock", "web"}
  Uuids <- MCUuids
  Reg <- MCReg
  Owner <- MCOwner
  Nobody = "nobody"
  Kind <- MCNodeKind
  Window = 1
  Threshold = 3
  MaxNow = 2
  MaxCredits = 4
SPECIFICATION FairSpec
INVARIANTS
  TypeOK
  EntriesAgree
  RestartsAreRationed
PROPERTIES
  FailureSettles
  NothingIsResurrected
  StopIsAnnounced
