\* The SSD secure erase of a wipe of the partition gaps.
CONSTANTS
  MaxPasses = 0
  Geometries <- SomeDisks
SPECIFICATION Spec
INVARIANTS
  EraseOnlyWholeDisk
