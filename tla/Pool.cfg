SPECIFICATION Spec
CONSTANTS
  a = a
  b = b
  c = c
  r1 = r1
  r2 = r2
  r3 = r3
  r4 = r4
  Nodes = {a, b, c}
  Requests = {r1, r2, r3, r4}
  Entry <- MCEntry
  Plan <- MCPlan
  PoolSize = 2
  MaxThrows = 1
CHECK_DEADLOCK FALSE
INVARIANTS
  ServedOnce
PROPERTIES
  RequestsAnswered
