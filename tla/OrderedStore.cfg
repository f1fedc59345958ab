SPECIFICATION Spec
CONSTANTS
  Supply <- MCSupply
  Blocks <- MCBlocks
  Handles = {h1, h2}
  MAX_OPERATIONS = 4
  MAX_UNITS = 3
  MAX_BLOCK_COMMANDS = 2
INVARIANTS
  TypeOK
  NoFatalVerdict
  AnnouncedIsCommitted
  AlwaysReopens
  CompletionAlwaysAdmitted
  RetryIsHarmless
  CompletedOnce
PROPERTIES
  WholeBlocksInOrder
CHECK_DEADLOCK FALSE
