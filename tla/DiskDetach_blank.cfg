\* A disk without any volume, as after a wipe.
CONSTANTS
  Volumes = {}
  Lettered = {}
  GptIds = {}
SPECIFICATION Spec
INVARIANTS
  ErrorIsTrue
