\* StopJoinsTls has a counterexample: a TLS pool that stays silent after stop(),
\* which is also where the system as a whole may stand still.
SPECIFICATION Spec
CONSTANTS
  JobIds = {1}
  Diffs = {1}
  NoJob = NoJob
  MaxSessions = 2
  MaxNotifies = 1
  MaxDiffs = 0
  MaxShares = 1
  MaxAttempt = 1
  LossyTimeouts = FALSE
  Tls = TRUE
  Answers = {"whole"}
CHECK_DEADLOCK FALSE
PROPERTY StopJoinsTls
