SPECIFICATION Spec
CONSTANTS
  Path = {p1, p2}
  Local = {p1}
  NoPath = NoPath
  Worker = {w1, w2}
  MaxUuid = 2
  MaxVersion = 2
  MaxInode = 3
  MaxKey = 2
  MaxCrash = 1
  MayDisable = TRUE
  KeyReadFails = FALSE
SYMMETRY Symmetry
INVARIANT RestoredReadable
CHECK_DEADLOCK FALSE
CONSTRAINT Uncontested
