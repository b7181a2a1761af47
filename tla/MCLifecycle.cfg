SPECIFICATION Spec
CONSTANTS
  Files <- AllFiles
  MaxPools = 2
  MaxEdits = 1
  MaxRestarts = 1
  MaxTyped = 1
  Jobs = {j1}
  MaxLedger = 1
  Stuck <- OnlyStdin
INVARIANTS NoDanglingUse RunsWhatTheFileSays
PROPERTIES ExitCompletes
CHECK_DEADLOCK FALSE
