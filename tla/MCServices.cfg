SPECIFICATION MCSpec
CONSTANTS
  Rows = {"kb", "dock"}
  Pairs <- KeysOfRow
  FirstPair <- FirstOfRow
  Docks = {"dock"}
  Strangers = {}
  MaxPlugs = 2
  Stable <- Releases
  Nightlies <- Nights
  Current <- ThisBuild
  Sandboxed = FALSE
  Devices = {"old", "new", "dock"}
  Core <- Families
  Old = {"old"}
  FamiliesRegistered = {"keyboard", "mouseAj199"}
  FamiliesGuessed = {"streamDock"}
  MaxRequests = 3
  Models = {"kb", "tw"}
  Codename <- NameOf
  FirstModel <- FirstNamed
  Clocks = {"kb", "tw"}
  Batteries = {"kb"}
  Lights = {"kb"}
  Boards = {"kb"}
  Announced = {"kb"}
  Requests = {9}
  MaxArrivals = 1
  Transports = {"x", "y"}
  WantedInterface <- InterfaceOf
  Interfaces <- Enumerated
  Prefixed = {"x"}
  MaxCalls = 5
  Positions <- ViaPositions
  Codes = {1027, 4}
  Macros <- ViaMacros
  Chunk = 4
  Room = 3
  Percents = {50, 120}
  Version = 9
  MaxCommands = 3
  Passwords = {"a", "b"}
  NoPassword = "-"
  MaxFrames = 2
  Serials = {"a", "n"}
  HostedModel <- HostedModels
  HostedKeys = 15
  DrawnKeys <- LastKey
  DrawnZones <- LastZone
  PressedSlots = {3, 6}
  ReadCodes = {64}
  MaxPlugged = 2
  MaxLines = 1
  MaxWrites = 1
  Panels = {"a", "n"}
  NoDock = "-"
  SurfaceTags <- TagsOfDock
  Screens <- ScreensOfDock
  PanelsHosted = {"a"}
  FaceProfiles <- DockProfiles
  Art = "art"
  Black = "dark"
  DimLevels = {10}
  DimDeltas = {95}
INVARIANTS PromisesAreKept ListKeepsUp ReportsAreTrue
CHECK_DEADLOCK FALSE
