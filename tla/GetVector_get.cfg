SPECIFICATION GetSpec
CONSTANTS
  t1 = t1
  t2 = t2
  m1 = m1
  m2 = m2
  a1 = a1
  a2 = a2
  open = open
  None = None
  Getter = Getter
  Task <- MCTask
  Setter <- MCTask
  Module = {m1, m2}
  Call <- MCCall
  Vector <- MCVector
  Addr = {a1, a2}
  Hazards = {"kill", "oom"}
  Room = 5
  Stale = {0}
SYMMETRY MCModSymmetry
INVARIANTS GetTypeOK  GetSafe LockInside
CHECK_DEADLOCK FALSE
