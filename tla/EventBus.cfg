CONSTANTS
  Threads = {gui, hid}
  Depth = 2
  MaxToken = 3
SPECIFICATION Spec
INVARIANT BusIsWellFormed
PROPERTY KeepsThePromise
