\* Tasks that outlive the lease of their group.
SPECIFICATION Spec
CONSTANTS
  Groups = {g1}
  Callers = {frames}
  FrameLoops = {frames}
  Sweeper = Sweeper
  MaxGroups = 1
  None = None
INVARIANT TasksUnderLease
