\* One property at a time: each has its own counterexample.
SPECIFICATION Spec
CONSTANTS
  NumSlots = 2
  MinThreads = 1
  StartTpb = 2
  MaxTpb = 8
  MaxThreads = 4
  MaxBatch = 5
  Configs <- MCConfigs
  NoProfile = NoProfile
  MaxRestarts = 0
PROPERTY FastLaunchGrows
\* PROPERTY EstimateExact
\* INVARIANT SameNonceAcrossJobs
