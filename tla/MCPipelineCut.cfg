SPECIFICATION Spec
CONSTANTS
  Hit <- MCHit
  Junk = Junk
  Word = 2
  Epochs = {2, 3}
  Faults = {"tear"}
  Sources = {1, 2}
  Stratum = {1}
  JobsOf <- DisjointJobs
  Winners <- MCWinners
  CpuRejects <- MCRejects
  BlockHits <- MCBlocks
  HasGbtSubmitter = TRUE
  Span = 1
  DrainMax = 1
  MaxBase = 2
  ReplayMax = 1
  MaxFileCells = 6
  RotateInterval = 5
  RotateOnStart = {FALSE}
  TicksPerSec = 2
  ClockStart = 4
  MaxClock = 6
  MaxCrashes = 1
INVARIANTS NoSilentLoss
