SPECIFICATION Spec
CONSTANTS
  Blocks = {b1, b2}
  Cap = 4
  Modulus = 8
  LocalCap = 1
  MaxOut = 3
  MaxHits = 2
  Launches = 2
  Ids = 6
  Garbage = Garbage
INVARIANT OnlyFoundHits
