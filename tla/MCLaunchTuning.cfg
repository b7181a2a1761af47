SPECIFICATION Spec
CONSTANTS
  NumSlots = 2
  MinThreads = 1
  StartTpb = 2
  MaxTpb = 8
  MaxThreads = 4
  MaxBatch = 5
  Configs <- MCConfigs
  NoProfile = NoProfile
  MaxRestarts = 1
INVARIANTS HolesOnlyFromMoves
PROPERTIES OverBudgetNeverGrows ShrinksToBudget GrowsToBudget
