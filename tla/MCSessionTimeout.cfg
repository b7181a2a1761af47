SPECIFICATION Spec
CONSTANTS
  JobIds = {1, 2}
  Diffs = {1}
  NoJob = NoJob
  MaxSessions = 2
  MaxNotifies = 2
  MaxDiffs = 1
  MaxShares = 1
  MaxAttempt = 1
  LossyTimeouts = TRUE
  Tls = FALSE
  Answers = {"whole"}
INVARIANT TimeoutKeepsSession
