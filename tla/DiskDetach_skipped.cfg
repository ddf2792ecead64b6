\* A volume without a drive letter that cannot be opened.
CONSTANTS
  Volumes = {1, 2}
  Lettered = {1}
  GptIds = {2}
SPECIFICATION Spec
INVARIANTS
  AllVolumesDismounted
