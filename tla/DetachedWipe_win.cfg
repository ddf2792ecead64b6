\* Two volumes, one of them with a drive letter, on a USB disk and on an SSD.
CONSTANTS
  Volumes = {1, 2}
  Lettered = {1}
  GptIds = {2}
  MaxPasses = 0
  Geometries <- SomeDisks
  Requests <- SomeRequests
SPECIFICATION FairWipe
INVARIANTS
  OkMeansDismounted
  LettersOutliveRetries
  WritesSpareMounted
PROPERTIES
  ImplementsExecute
  DetachEnds
