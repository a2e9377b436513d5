\* One record, two drains, two versions.
SPECIFICATION Spec
CONSTANTS
  Events = {e1}
  Drains = {d1, d2}
  MaxVersion = 2
  MaxEdits = 2
  MaxSlow = 0
  None = None
INVARIANTS
  QuietIndexIsCurrent
CHECK_DEADLOCK FALSE
