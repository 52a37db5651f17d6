SPECIFICATION FairSpec
CONSTANTS
    A = A  B = B  k1 = k1  run = run  go = go  f = f  root = root  none = none
    NoChain = NoChain  NoProfile = NoProfile
    NoArg = none  Root = root
    Args <- MCArgs  Chains <- MCChains  Chain <- MCChain  Inner <- MCInner
    Profiles = {A, B}  FirstProfile = A
    Keys <- MCKeys  NumEnc = 1
    Binding <- MCBinding  Toggles <- MCToggles  States = 2
    Folders <- MCFolders  Stateful <- MCStateful  SwitchTo <- MCSwitchTo
    WireRelease = TRUE
    MaxRuns = 2  MaxTurn = 1
INVARIANTS TypeOK ChainsAreWalked RotationIsKept DialUpPerPress
PROPERTIES DestroyedIsSilent InputIsDealtWith
CHECK_DEADLOCK FALSE
