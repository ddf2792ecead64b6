\* wipe_execute in both builds; --passes is absent (0), 1 or 2, spectrum has two.
CONSTANTS
  MaxPasses = 2
  Geometries <- SomeDisks
SPECIFICATION FairSpec
INVARIANTS
  DiskBackOnline
  WritesOnlyWhenPrepared
  SuccessUnlessSilent
  TrimAfterFlush
  MonitorGone
  ReturnsAsPromised
PROPERTIES
  Finishes
