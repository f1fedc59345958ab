SPECIFICATION FairSpec
CONSTANTS
  c = c
  a = a
  b = b
  e = e
  Control = c
  DataRelays = {a, b}
  Exit = e
INVARIANT ReleasedMeansUnowned
PROPERTIES NothingComesBack RetirementEnds
CHECK_DEADLOCK FALSE
