\* What the plan says, and what a dry run says; with -continue TLC shows both.
CONSTANTS
  Phones = {p1}
  NoSerial = NoSerial
  AnySerial = AnySerial
SPECIFICATION Spec
INVARIANTS
  OnlyPlanned
  DryRunSendsNothing
