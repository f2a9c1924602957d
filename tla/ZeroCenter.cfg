SPECIFICATION Spec
CONSTANTS
  Responses <- Singles
  Settings <- NoSetting
  NaN = NaN
  Undefined = Undefined
CHECK_DEADLOCK FALSE
INVARIANTS
  CentersAreComplete
