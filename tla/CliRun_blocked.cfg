\* --yes without --force on a system disk.
SPECIFICATION Spec
INVARIANTS
  BlockedNeedsForce
