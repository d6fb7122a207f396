SPECIFICATION FairSpec
CONSTANTS
  guard = guard
  patrol = patrol
  g1 = g1
  p1 = p1
  Daemon = {guard, patrol}
  Guard = guard
  Patrol = patrol
  Writer = {g1, p1}
  Home <- Homes
  Lookback = 1
  MaxTokens = 1
  MaxEnds = 0
  MaxEvents = 2
  MaxClock = 3
  MaxFailures = 1
  MaxPolls = 1
PROPERTY ReadReturns
CHECK_DEADLOCK FALSE
