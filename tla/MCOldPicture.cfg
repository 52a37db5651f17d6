SPECIFICATION MCSpec
CONSTANTS
    k1 = k1  d1 = d1  p = p  q = q  pa = pa  qa = qa  akp05e = akp05e  akp03 = akp03
    None = None  Glyph = Glyph
    Docks = {akp05e, akp03}  Fallback = akp05e
    Slots <- MCSlots  Kind <- MCKind  Segment <- MCSegment
    Plugins = {p, q}  Actions = {pa, qa}  Owner <- MCOwner
    Declared = {pa}  Cycling = {qa}  Bindings <- MCBindings
    Values = {"v0", "v1"}  Manifest = "v0"  Empty = ""  MaxFrames = 2  MaxFails = 1
    MaxFlashes = 0  Scenes = {"pictures"}
INVARIANT PictureIsOfTheAction
CHECK_DEADLOCK FALSE
