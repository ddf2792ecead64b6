\* A dry run of --free-space or slack-hunter.
SPECIFICATION Spec
INVARIANTS
  DryRunWritesNothing
