\* Every command line and every form of target, in both builds.
SPECIFICATION LineSpec
INVARIANTS
  TargetAsNamed
  WipedAsAsked
  ConsentFirst
  NoHandleLeft
  FilesRemoved
