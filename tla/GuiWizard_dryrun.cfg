\* The dry-run button with the reboot operation.
CONSTANTS
  Ops = {"whole", "android_reboot"}
  Targets = {"A"}
  Slots = 1
SPECIFICATION WizardSpec
INVARIANTS
  DryRunOnlyValidates
