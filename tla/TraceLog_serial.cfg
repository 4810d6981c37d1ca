SPECIFICATION Spec
CONSTANTS
  Task = {t1, t2}
  Size = 4
  Length = {1, 2, 3}
  MaxCalls = 4
  Hazards = {"early", "oom", "nofile"}
INVARIANTS TypeOK InPage NothingLost InOrder
CHECK_DEADLOCK FALSE
