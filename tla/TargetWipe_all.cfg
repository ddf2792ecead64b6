\* Sectors of 4 bytes, chunks of two and a half, a disk of six and a quarter;
\* files from nothing to two clusters and a bit; clusters of unknown size, of
\* less than a sector, and of no power of two.
CONSTANTS
  Sector = 4
  Chunk = 10
  Capacity = 25
  Tables <- MCTables
  Sizes = {0, 3, 9, 17}
  Clusters = {0, 2, 12}
  DefaultCluster = 8
SPECIFICATION FairTarget
INVARIANTS
  OnlyWantedWritten
  OkLeavesNoSector
  GapsComplete
  InOrder
PROPERTIES
  KeepsPromise
  WipeEnds
