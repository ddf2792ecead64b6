\* Two threads writing extents that touch, two attempts per chunk.
CONSTANTS
  w1 = w1
  w2 = w2
  Writers = {w1, w2}
  First <- TwoFirst
  Length <- TwoLength
  Tries = 2
  Direct = TRUE
SPECIFICATION FairSpec
INVARIANTS
  SuccessMeansWritten
  FailsForCause
PROPERTIES
  CallsReturn
