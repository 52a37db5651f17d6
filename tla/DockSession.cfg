SPECIFICATION FairSpec
CONSTANTS
  None = None
  Docks = {akp05, akp815}
  Native = {akp815}
  Boards = {keyboard}
  Keys = {k1}
  Backends = {b1, b2, b3}
  Orderly = TRUE
  MaxPlugs = 2
INVARIANTS TypeOK HandlesAgree SettledIsFresh BaseIsOfActiveDock
PROPERTIES UnpluggedDockIsReleased
