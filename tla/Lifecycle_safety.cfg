\* The coroutines of a worker, its frame loop, the startup hydration and the
\* sweep, with three groups in two slots.
SPECIFICATION Spec
CONSTANTS
  Groups = {g1, g2, g3}
  Callers = {frames, startup}
  FrameLoops = {frames}
  Sweeper = Sweeper
  MaxGroups = 2
  None = None
SYMMETRY GroupSymmetry
INVARIANTS
  TypeOK
  OnePhase
  LeaseFollowsUse
  LeaseReleased
PROPERTIES
  IdleEvictionsOnly
  SweepSparesUsedGroups
  OverCapacityOnlyWhenBusy
