\* Two workers and one job of three attempts, crashes and lost leases anywhere.
SPECIFICATION FairSpec
CONSTANTS
  Jobs = {j1}
  Workers = {w1, w2}
  Tokens = {t1, t2, t3}
  MaxAttempts = 3
  MaxDefers = 2
  None = None
INVARIANTS
  TypeOK
  DeadMeansExhausted
PROPERTIES
  ImplementsFencedWork
  JobsEnd
\* When the job is dead and every worker idle, nothing is left to do.
CHECK_DEADLOCK FALSE
