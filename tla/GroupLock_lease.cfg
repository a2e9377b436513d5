\* Acquires and releases kept apart by the hand-over.
SPECIFICATION DisciplinedSpec
CONSTANTS
  Procs = {p1, p2, p3, p4}
  Inodes = {i1, i2, i3, i4, i5}
  None = None
INVARIANT TypeOK
PROPERTY ImplementsLease
