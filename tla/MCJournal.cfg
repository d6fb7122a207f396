SPECIFICATION Spec
CONSTANTS
  guard = guard
  patrol = patrol
  g1 = g1
  p1 = p1
  Daemon = {guard, patrol}
  Guard = guard
  Patrol = patrol
  Writer = {g1, p1}
  Home <- Homes
  Lookback = 1
  MaxTokens = 2
  MaxEnds = 1
  MaxEvents = 2
  MaxClock = 4
  MaxFailures = 1
  MaxPolls = 2
INVARIANTS TypeOK TokenShared TailExact
CHECK_DEADLOCK FALSE
