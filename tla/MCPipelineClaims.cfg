\* One property at a time: each has its own counterexample.
SPECIFICATION Spec
CONSTANTS
  Hit <- MCHit
  Junk = Junk
  Word = 2
  Epochs = {2, 3}
  Faults = {"rename"}
  Sources = {1, 2}
  Stratum = {1}
  JobsOf <- DisjointJobs
  Winners <- MCWinners
  CpuRejects <- MCRejects
  BlockHits <- MCBlocks
  HasGbtSubmitter = TRUE
  Span = 1
  DrainMax = 1
  MaxBase = 3
  ReplayMax = 1
  MaxFileCells = 6
  RotateInterval = 0
  RotateOnStart = {FALSE}
  TicksPerSec = 2
  ClockStart = 5
  MaxClock = 6
  MaxCrashes = 2
INVARIANT BlockNotDropped
\* INVARIANT ReplayHasDestination
