\* Three workers, uneven split, chunk not a multiple of the sector.
CONSTANTS
  Threads = 3
  Total = 11
  Sector = 2
  Chunk = 5
SPECIFICATION FairSpec
INVARIANTS
  RangesPartition
  ProgressIsHonest
  FailureIsNamed
  StopsAfterFailure
PROPERTIES
  KeepsPromise
  PassEnds
