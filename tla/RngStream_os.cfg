\* The random source of the system fails under os-chunk; and a stream is longer
\* than the block counter (tlc -continue shows both).
CONSTANTS
  Streams = {1, 2}
  Piece = 5
  ChunkSizes = {3}
  Edge = 1
  Wrap = 4
  LastPass = 2
  MaxFailures = 2
SPECIFICATION Spec
CHECK_DEADLOCK FALSE
INVARIANTS
  OsChunkIsRandom
  NeverTwice
