SPECIFICATION Spec
CONSTANTS
  Contexts <- Two
  Relays <- OneRelay
  MultiPath <- SeveralPaths
  MAX_RECORDS = 2
  MaxErrors = 2
  MaxCrashes = 2
INVARIANTS
  NoBirthLeft
CHECK_DEADLOCK FALSE
