SPECIFICATION Spec
CONSTANTS
  Path = {p}
  Content = {x, y}
  None = None
  DeepScan = {g1, g2}
  Cooldown = 3
  MaxMailers = 2
  Setups <- Configurations
  Key = {k}
  Never = Never
  BeaconThreshold = 3
  Minute = 2
  SeenTTL = 3
  Gaps = {1, 2}
  MaxConns = 2
  MaxPolls = 5
  Canary = {c1, c2, c3}
  Threshold = 2
  Window = 2
  MaxQueue = 5
INVARIANT AccessAlerted
CHECK_DEADLOCK FALSE
SYMMETRY Interchange
