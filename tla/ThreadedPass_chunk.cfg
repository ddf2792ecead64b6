\* A chunk size below the sector size, which -c accepts.
CONSTANTS
  Threads = 2
  Total = 8
  Sector = 2
  Chunk = 1
SPECIFICATION Spec
INVARIANTS
  SuccessIsComplete
