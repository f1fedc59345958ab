SPECIFICATION Spec
CONSTANTS
  c = c
  a = a
  b = b
  e = e
  Control = c
  DataRelays = {a, b}
  Exit = e
INVARIANT ReleasedMeansDestroyed
CHECK_DEADLOCK FALSE
