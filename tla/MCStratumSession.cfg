SPECIFICATION Spec
CONSTANTS
  JobIds = {1}
  Diffs = {2}
  NoJob = NoJob
  MaxSessions = 2
  MaxNotifies = 2
  MaxDiffs = 1
  MaxShares = 1
  MaxAttempt = 1
  LossyTimeouts = TRUE
  Tls = FALSE
  Answers = {"whole", "noExtranonce"}
INVARIANTS JobsBuiltForTheirSession JobsHandedOverInOrder AnswersWithinShares ShareNotUnderOlderJob
PROPERTIES StopJoins Reconnects
