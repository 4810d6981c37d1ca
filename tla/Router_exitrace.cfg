SPECIFICATION Spec
CONSTANTS
  t1 = t1
  t2 = t2
  t3 = t3
  m1 = m1
  m2 = m2
  a1 = a1
  a2 = a2
  a3 = a3
  open = open
  close = close
  None = None
  Task <- MCPair
  Setter <- MCSetter
  Module = {m1, m2}
  Call <- MCCall
  Vector <- MCVector
  Addr = {a1, a2, a3}
  Hazards = {"target"}
SYMMETRY MCSymmetry
INVARIANTS LsmodCount
