SPECIFICATION Spec
CONSTANTS
  Nodes = {n1, n2, n3}
  Commands = {cmd}
  Nil = Nil
  MaxTerm = 2
  MaxLog = 2
SYMMETRY NodeSymmetry
CHECK_DEADLOCK FALSE
INVARIANTS
  MajorityCommit
