\* An image with one partition, and --unallocated with any profile.
CONSTANTS
  Sector = 4
  Chunk = 10
  Capacity = 25
  Tables <- OnePartition
  Sizes = {9}
  Clusters = {8}
  DefaultCluster = 8
SPECIFICATION TargetSpec
INVARIANTS
  GapsOnly
