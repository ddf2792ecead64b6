\* Two threads and two passes of five blocks, a counter that wraps at four.
CONSTANTS
  Streams = {1, 2}
  Piece = 5
  ChunkSizes = {3}
  Edge = 1
  Wrap = 4
  LastPass = 2
  MaxFailures = 2
SPECIFICATION Spec
CHECK_DEADLOCK FALSE
INVARIANTS
  FilledOnce
  NoBlockTwice
