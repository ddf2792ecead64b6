\* An operation changed after its confirmation.
CONSTANTS
  Ops = {"whole", "unallocated"}
  Targets = {"A"}
  Slots = 1
SPECIFICATION WizardSpec
INVARIANTS
  ConfirmedAsRun
