\* One property at a time: each has its own counterexample.
SPECIFICATION Spec
CONSTANTS
  JobIds = {1, 2}
  Diffs = {1, 2}
  NoJob = NoJob
  MaxSessions = 2
  MaxNotifies = 2
  MaxDiffs = 2
  MaxShares = 1
  MaxAttempt = 1
  LossyTimeouts = FALSE
  Tls = FALSE
  Answers = {"whole", "noSize", "noExtranonce"}
INVARIANT ShareUnderItsJob
\* INVARIANT AcceptedReported
\* INVARIANT SocketAliveDuringSend
\* INVARIANT VarDiffApplied
