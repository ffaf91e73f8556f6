SPECIFICATION Spec
CONSTANTS
  a = a
  b = b
  c = c
  w1 = w1
  w2 = w2
  x = x
  cut = cut
  hx = hx
  hcut = hcut
  Nil = Nil
  Nodes = {a, b, c}
  Workers = {w1, w2}
  Home <- HomeApart
  Bytes = {x, cut}
  Cut = cut
  Checksums = {hx, hcut}
  Sha256 <- MCSha256
  Preference <- MCPreference
  ReplicationFactor = 3
  WriteQuorum = 2
  ReadQuorum = 2
  CacheCapacity = 1
  MaxCalls = 2
  MaxFaults = 1
  MaxCuts = 1
  MaxCrashes = 1
  MaxFailures = 1
INVARIANTS
  TypeOK
  AckedOnQuorum
  HandoffComplete
  CacheVerified
  ReadsVerified
  HintsServable
  DamageContained
PROPERTIES
  ImplementsService
