\* One record, two drains, two versions; one lease lapses under a slow drain.
SPECIFICATION FairSpec
CONSTANTS
  Events = {e1}
  Drains = {d1, d2}
  MaxVersion = 2
  MaxEdits = 3
  MaxSlow = 1
  None = None
INVARIANTS
  TypeOK
  AckIsCurrent
  StaleMeansOvertaken
PROPERTIES
  Drained
\* When every row is completed and no edit is left, nothing is left to do.
CHECK_DEADLOCK FALSE
