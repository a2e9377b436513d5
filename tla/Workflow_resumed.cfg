\* A worker that dies after it has handed over the unit of the second stage.
SPECIFICATION CutSpec
CONSTANTS
  NStages = 2
  Gated = {}
  Pool = None
  Bots = {b1}
  MaxTickets = 1
  MaxSteps = 2
  MaxMessages = 0
  Faults = {"crash"}
  None = None
PROPERTIES
  ActiveUnitsResume
