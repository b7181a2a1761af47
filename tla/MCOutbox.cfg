SPECIFICATION MCOutboxSpec
CONSTANTS
  Hit <- MCHit
  Junk = Junk
  Word = 2
  Epochs = {0}
  Faults = {"rename", "copy"}
  MaxCells = 6
  MaxQueue = 3
INVARIANTS OutboxTypeOK QueueDeduped RewriteFramed LoadComplete
