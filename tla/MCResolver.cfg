SPECIFICATION FairSpec
CONSTANTS
  evil = evil
  www = www
  shop = shop
  Host = {evil, www, shop}
  Allowed = {evil, shop}
  Strip <- NoWww
  Feeds = {{www}, {www, shop}, {}}
  Questions <- Asked
  IP = {a}
  Query = {q1}
  None = None
INVARIANTS TypeOK SteadyRefused RestartSame OneLookup KnownRefused
PROPERTIES QueryAnswered
CHECK_DEADLOCK FALSE
