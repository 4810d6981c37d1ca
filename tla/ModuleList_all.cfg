SPECIFICATION Spec
CONSTANTS
  m1 = m1
  m2 = m2
  m3 = m3
  r1 = r1
  n1 = n1
  n2 = n2
  n3 = n3
  NULL = NULL
  Module <- MCPair
  Reader = {r1}
  Node = {n1, n2}
  Hazards = {"writers", "readers", "oom"}
SYMMETRY MCTwoNodeSymmetry
INVARIANTS TypeOK NoDoubleFree
CHECK_DEADLOCK FALSE
