SPECIFICATION RingSpec
CONSTANTS
  HitRecords = {h1, h2, h3}
  Capacity = 3
  Blank = Blank
INVARIANT RingOK
PROPERTY FifoSpec
