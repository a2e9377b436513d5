\* Two workers, two jobs of two attempts, one deferral, crashes at any claim.
SPECIFICATION Spec
CONSTANTS
  Jobs = {j1, j2}
  Workers = {w1, w2}
  Tokens = {t1, t2, t3, t4}
  MaxAttempts = 2
  MaxDefers = 1
  None = None
SYMMETRY Symmetry
INVARIANTS
  TypeOK
  LeasesFence
  DeadMeansExhausted
PROPERTIES
  ImplementsFencedWork
\* When every job is dead and every worker idle, nothing is left to do.
CHECK_DEADLOCK FALSE
