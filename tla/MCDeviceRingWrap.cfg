SPECIFICATION Spec
CONSTANTS
  Blocks = {b1, b2}
  Cap = 3
  Modulus = 8
  LocalCap = 1
  MaxOut = 3
  MaxHits = 1
  Launches = 6
  Ids = 6
  Garbage = Garbage
INVARIANT DrainedInOrder
