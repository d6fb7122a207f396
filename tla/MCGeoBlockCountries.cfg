SPECIFICATION Spec
CONSTANTS
  c1 = c1
  c2 = c2
  cn = cn
  ru = ru
  Cidr = {c1, c2}
  AllowIPs = {c1}
  Country = {cn, ru}
  NoCountry = NoCountry
  Order <- TwoCountries
  Feed <- TwoFeeds
  Client = {w1}
  Backends = {"nftables"}
  Policies = {"deny"}
  MaxCalls <- Calls
  MaxStarts = 2
  MaxRules = 2
  MaxFailures = 0
INVARIANT GeoInForce
CHECK_DEADLOCK FALSE
