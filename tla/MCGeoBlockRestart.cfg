SPECIFICATION Spec
CONSTANTS
  c1 = c1
  c2 = c2
  cn = cn
  ru = ru
  Cidr = {c1, c2}
  AllowIPs = {c1}
  Country = {cn}
  NoCountry = NoCountry
  Order <- OneCountry
  Feed <- ShrinkingFeed
  Client = {w1}
  Backends = {"nftables"}
  Policies = {"deny"}
  MaxCalls <- Calls
  MaxStarts = 2
  MaxRules = 2
  MaxFailures = 0
INVARIANT ListedInForce
CHECK_DEADLOCK FALSE
