\* filesystem-shadow on Windows.
SPECIFICATION Spec
INVARIANTS
  ShadowDeletes
