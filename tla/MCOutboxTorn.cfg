SPECIFICATION MCOutboxSpec
CONSTANTS
  Hit <- MCHit
  Junk = Junk
  Word = 2
  Epochs = {}
  Faults = {"tear"}
  MaxCells = 6
  MaxQueue = 2
INVARIANTS QueueDeduped LoadComplete
