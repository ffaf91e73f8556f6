SPECIFICATION FairSpec
CONSTANTS
  a = a
  b = b
  c = c
  w1 = w1
  w2 = w2
  x = x
  cut = cut
  hx = hx
  hcut = hcut
  Nil = Nil
  Nodes = {a, b, c}
  Workers = {w1, w2}
  Home <- HomeShared
  Bytes = {x, cut}
  Cut = cut
  Checksums = {hx, hcut}
  Sha256 <- MCSha256
  Preference <- MCPreference
  ReplicationFactor = 3
  WriteQuorum = 2
  ReadQuorum = 2
  CacheCapacity = 1
  MaxCalls = 1
  MaxFaults = 0
  MaxCuts = 0
  MaxCrashes = 0
  MaxFailures = 0
INVARIANTS
  HandoffComplete
PROPERTIES
  HandoffDelivered
