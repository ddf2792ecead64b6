\* Two processes at a time, or one and the unread end of another, or two ends.
CONSTANTS
  Ops = {"whole", "android"}
  Targets = {"A"}
  Slots = 2
SPECIFICATION FairWizard
INVARIANTS
  ConfirmedTarget
  PreviewIsRun
PROPERTIES
  StripSettles
