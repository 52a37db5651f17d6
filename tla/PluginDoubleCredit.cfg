CONSTANTS
  Plugins = {"clock"}
  Uuids <- MCUuids
  Reg <- MCReg
  Owner <- MCOwner
  Nobody = "nobody"
  Kind <- MCNativeKind
  Window = 1
  Threshold = 3
  MaxNow = 1
  MaxCredits = 6
SPECIFICATION UnattendedSpec
INVARIANT DisabledAfterThreeDeaths
