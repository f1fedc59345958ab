SPECIFICATION FairAbciSpec
CONSTANTS
  Supply <- MCSupply
  Blocks <- MCBlocks
  App = app
  Handles = {app}
  MaxHeight = 3
  MaxCrashes = 3
  MaxErrors = 2
  MAX_OPERATIONS = 4
  MAX_UNITS = 3
  MAX_BLOCK_COMMANDS = 2
INVARIANTS
  LedgerIsChain
  DecidedIsTaken
  EngineRefusedOnlyAtGenesis
PROPERTIES
  EveryDecisionIsCommitted
CHECK_DEADLOCK FALSE
