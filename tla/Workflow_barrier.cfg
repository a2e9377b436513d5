\* A worker that gives the group up while a transition waits to be written.
SPECIFICATION FairSpec
CONSTANTS
  NStages = 2
  Gated = {}
  Pool = None
  Bots = {b1}
  MaxTickets = 1
  MaxSteps = 2
  MaxMessages = 1
  Faults = {"release"}
  None = None
PROPERTIES
  TakeoverIsCurrent
