SPECIFICATION Spec
CONSTANTS
  x = x
  y = y
  z = z
  Path = {a}
  Content = {x, y}
  Size <- Sizes
  Job = {j1, j2}
  NoHash = NoHash
  NoSummary = NoSummary
  MaxWrites = 2
  MaxClock = 2
  MaxQueue = 2
  MaxFailures = 1
INVARIANT EveryWriteSeen
SYMMETRY Interchange
CHECK_DEADLOCK FALSE
