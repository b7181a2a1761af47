SPECIFICATION SchedSpec
CONSTANTS
  Sources = {0, 1}
  Stratum = {0}
  Weight <- MCWeight
  Cap = 2
  MaxIds = 4
  MaxAnswers = 2
  MaxFailures = 8
  MaxDisconnects = 4
PROPERTIES SelectsEverySource RecoversUnlessDisconnected
