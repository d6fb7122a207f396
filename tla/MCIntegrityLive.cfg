SPECIFICATION FairSpec
CONSTANTS
  x = x
  y = y
  z = z
  Path = {a, b}
  Content = {x, z}
  Size <- Sizes
  Job = {j1}
  NoHash = NoHash
  NoSummary = NoSummary
  MaxWrites = 1
  MaxClock = 2
  MaxQueue = 1
  MaxFailures = 1
PROPERTY ScanCatchesUp
CHECK_DEADLOCK FALSE
