\* A pass that fails without raising the shared flag.
CONSTANTS
  MaxPasses = 0
  Geometries <- SomeDisks
SPECIFICATION Spec
INVARIANTS
  SuccessMeansAllPasses
