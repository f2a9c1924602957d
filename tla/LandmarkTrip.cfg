SPECIFICATION Spec
CONSTANTS
  Responses <- PairsAndTriples
  Settings <- AllSettings
  NaN = NaN
  Undefined = Undefined
CHECK_DEADLOCK FALSE
INVARIANTS
  TypeOK
  GivesUpAfterRetries
  LandmarksAreBest
