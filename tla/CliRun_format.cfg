\* --format-after on Windows.
SPECIFICATION Spec
INVARIANTS
  FormatsWhatWasWiped
