SPECIFICATION Spec
CONSTANTS
  Proc = {p1, p2}
  Failures = {"region", "class", "devices", "cdev", "node", "kzalloc", "version", "alloc", "open", "absent"}
INVARIANTS TypeOK WrappersReach AllOrNothing DestroysWithClass NothingLeft ReleasesHeld
CHECK_DEADLOCK FALSE
