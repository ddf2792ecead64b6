\* A volume that is in use during the first pass and free in the second.
CONSTANTS
  Volumes = {1, 2}
  Lettered = {1}
  GptIds = {2}
SPECIFICATION Spec
INVARIANTS
  RetryCanSucceed
