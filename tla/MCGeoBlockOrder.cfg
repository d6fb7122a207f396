SPECIFICATION Spec
CONSTANTS
  c1 = c1
  c2 = c2
  cn = cn
  ru = ru
  Cidr = {c1, c2}
  AllowIPs = {c1}
  Country = {cn}
  NoCountry = NoCountry
  Order <- OneCountry
  Feed <- ShrinkingFeed
  Client = {w1}
  Backends = {"iptables"}
  Policies = {"deny"}
  MaxCalls <- Calls
  MaxStarts = 2
  MaxRules = 2
  MaxFailures = 0
INVARIANT GeoFirst
CHECK_DEADLOCK FALSE
