SPECIFICATION MCSpec
CONSTANTS
    a = a  b = b  A = A  B = B  x = x  k0 = k0  k1 = k1  d0 = d0  z0 = z0  f1 = f1
    pa = pa  qa = qa  p = p  q = q  v = v  s0 = s0  s1 = s1
    Root = Root  Volume = Volume  Toggle = Toggle  GoBack = GoBack  Plain = Plain
    Keys = {k0, k1}  FirstKey = k0  Dials = {d0}  Zones = {z0}  Folders = {f1}
    Actions = {pa, qa}  Owner <- OwnerOf  Controllers <- ControllersOf
    Looks = {v}  Settings = {s0, s1}  MaxEdits = 3
    Directories = {"a", "n7"}  Rows = {"r", "m"}  Source <- SourceOf  Base <- BaseOf
    Packages <- MCPackages  Bundled = {}  Verifiers = {"works"}  MaxJobs = 1  MaxDrops = 1
    Writers = {d1, d2}  Pieces = 2  MaxAttempts = 2  Missing = Missing
    Ids = {a, b, dflt}  Default = dflt  Unnamed = Unnamed  Devices = {A, B}  NoDevice = NoDevice
    Names = {1, 2}  NoName = 0  Apps = {x}  Plugins = {p}  None = None  MaxFails = 1
    Scenes = {"install"}
INVARIANT RemovedIsStopped
CHECK_DEADLOCK FALSE
