\* A stage, a gated stage and a pool of two bots, with every fault.
SPECIFICATION FairSpec
CONSTANTS
  NStages = 3
  Gated = {1}
  Pool = 2
  Bots = {b1, b2}
  MaxTickets = 3
  MaxSteps = 5
  MaxMessages = 1
  Faults = {"fail", "abort", "release", "crash"}
  None = None
INVARIANTS
  TypeOK
  EffectsAreDurable
  RowFollowsMemory
  GatesNeedHumans
PROPERTIES
  WorkDrains
