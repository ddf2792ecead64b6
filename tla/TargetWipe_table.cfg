\* The gap before the first partition.
CONSTANTS
  Sector = 4
  Chunk = 10
  Capacity = 25
  Tables <- OnePartition
  Sizes = {9}
  Clusters = {8}
  DefaultCluster = 8
SPECIFICATION TargetSpec
INVARIANTS
  TableSpared
