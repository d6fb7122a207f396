SPECIFICATION FairSpec
CONSTANTS
  c1 = c1
  c2 = c2
  cn = cn
  ru = ru
  Cidr = {c1, c2}
  AllowIPs = {c1}
  Country = {cn}
  NoCountry = NoCountry
  Order <- OneCountry
  Feed <- OneFeed
  Client = {w1}
  Backends = {"nftables"}
  Policies = {"deny", "allow"}
  MaxCalls <- Calls
  MaxStarts = 2
  MaxRules = 2
  MaxFailures = 1
PROPERTIES CallsReturn GeoReturns
CHECK_DEADLOCK FALSE
