SPECIFICATION Spec
CONSTANTS
  c1 = c1
  c2 = c2
  cn = cn
  ru = ru
  Cidr = {c1, c2}
  AllowIPs = {c1}
  Country = {cn}
  NoCountry = NoCountry
  Order <- OneCountry
  Feed <- ShrinkingFeed
  Client = {w1, w2}
  Backends = {"iptables", "nftables", "netsh"}
  Policies = {"deny", "allow"}
  MaxCalls <- Calls
  MaxStarts = 2
  MaxRules = 2
  MaxFailures = 1
INVARIANTS TypeOK DenyInForce WantedInForce GeoInForce
SYMMETRY Clients
CHECK_DEADLOCK FALSE
