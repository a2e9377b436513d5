\* The coroutines of a worker, its frame loop, a second hydrating coroutine and
\* the sweep, with two groups in one slot.
SPECIFICATION FairSpec
CONSTANTS
  Groups = {g1, g2}
  Callers = {c1, c2}
  FrameLoops = {c1}
  Sweeper = Sweeper
  MaxGroups = 1
  None = None
INVARIANTS
  TypeOK
  OnePhase
  LeaseFollowsUse
  LeaseReleased
PROPERTIES
  IdleEvictionsOnly
  SweepSparesUsedGroups
  OverCapacityOnlyWhenBusy
  CallsReturn
