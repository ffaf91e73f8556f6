SPECIFICATION Spec
CONSTANTS
  a = a
  w1 = w1
  w2 = w2
  c1 = c1
  c2 = c2
  Nodes = {a}
  Workers = {w1, w2}
  Home <- HomeShared
  Keys = {k1, k2}
  Checksums = {c1, c2}
  Contents <- MCContents
  Damaged = Damaged
  Torn = Torn
  Nil = Nil
  MaxCalls = 3
  MaxFaults = 0
  MaxCrashes = 0
SYMMETRY Symmetry
CHECK_DEADLOCK FALSE
INVARIANTS
  NoDangling
