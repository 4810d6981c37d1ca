SPECIFICATION OpenSpec
CONSTANTS
  Page = 7
  Byte = {"a", "b"}
  Line <- MCLine
  MaxSize = 7
  MaxList = 9
  Hazards = {}
  Flags <- MCFlags
  Kinds = {"regular", "device", "dir"}
PROPERTIES OpensAsUsual
CHECK_DEADLOCK FALSE
