\* A list refreshed during a wipe.
CONSTANTS
  Ops = {"whole"}
  Targets = {"A"}
  Slots = 2
SPECIFICATION WizardSpec
INVARIANTS
  ProgressAppears
