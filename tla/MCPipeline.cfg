SPECIFICATION Spec
CONSTANTS
  Hit <- MCHit
  Junk = Junk
  Word = 2
  Epochs = {2, 3}
  Faults = {"rename"}
  Sources = {1, 2}
  Stratum = {1}
  JobsOf <- DisjointJobs
  Winners <- MCWinners
  CpuRejects <- MCRejects
  BlockHits <- MCBlocks
  HasGbtSubmitter = TRUE
  Span = 1
  DrainMax = 1
  MaxBase = 2
  ReplayMax = 2
  MaxFileCells = 12
  RotateInterval = 5
  RotateOnStart = {FALSE, TRUE}
  TicksPerSec = 2
  ClockStart = 5
  MaxClock = 6
  MaxCrashes = 2
INVARIANTS NoSilentLoss ReplayOnce ReplayOldestFirst RoutedToOrigin
