SPECIFICATION Spec
CONSTANTS
  m1 = m1
  m2 = m2
  m3 = m3
  r1 = r1
  n1 = n1
  n2 = n2
  n3 = n3
  NULL = NULL
  Module <- MCModules
  Reader = {r1}
  Node = {n1, n2, n3}
  Hazards = {}
SYMMETRY MCSymmetry
INVARIANTS NoOops ListIsOrder LookupExact NoLeak
