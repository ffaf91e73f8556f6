SPECIFICATION Spec
CONSTANTS
  a = a
  b = b
  c = c
  x = x
  y = y
  Nodes = {a, b, c}
  PeerList <- MCPeerList
  Keys = {x, y}
  RingSize = 7
  Place <- MCPlace
  HashOf <- MCHashOf
  ReplicationFactor = 2
  MaxCrashes = 2
INVARIANTS
  PlacementExcludesStale
