SPECIFICATION Spec
CONSTANTS
  Path = {1, 2}
  Content = {x, y}
  None = None
  Torn = Torn
  Runner = {r1, r2}
  Modes <- AllModes
  Retain = 1
  MaxMinute = 3
  MaxWrites <- Writes
  MaxFailures = 1
INVARIANTS TypeOK CompleteWhole LastKept SkippedIsStored
PROPERTIES PruneKeepsNewest
CHECK_DEADLOCK FALSE
SYMMETRY Interchange
