SPECIFICATION OpenFairSpec
CONSTANTS
  Page = 7
  Byte = {"a", "b"}
  Line <- MCLine
  MaxSize = 7
  MaxList = 9
  Hazards = {}
  Flags <- MCFlags
  Kinds = {"regular", "device", "dir"}
INVARIANTS OpenTypeOK VerdictExact ScanExact NoOops
PROPERTIES OpensAsUsualButExcl OpenEnds
CHECK_DEADLOCK FALSE
