\* --free-space on Windows.
SPECIFICATION Spec
INVARIANTS
  FillerRemoved
