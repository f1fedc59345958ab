SPECIFICATION FairSpec
CONSTANTS
  Contexts <- Two
  Relays <- OneRelay
  MultiPath <- SeveralPaths
  MAX_RECORDS = 2
  MaxErrors = 2
  MaxCrashes = 2
INVARIANTS
  MemoryIsDurable
  OpenGateIsCertain
  RefusalExplained
  CleanStop
PROPERTIES
  ClaimedWhileHeld
  SettledOrFenced
CHECK_DEADLOCK FALSE
