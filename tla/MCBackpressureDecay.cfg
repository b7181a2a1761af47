SPECIFICATION SchedSpec
CONSTANTS
  Sources = {0, 1}
  Stratum = {0}
  Weight <- MCWeight
  Cap = 2
  MaxIds = 4
  MaxAnswers = 1
  MaxFailures = 1
  MaxDisconnects = 1
PROPERTY PenaltyRecovers
