\* A worker that disconnects while the database is written.
SPECIFICATION Spec
CONSTANTS
  Workers = {w1, w2}
  Calls = {c1, c2}
  Senders = {s1}
  DefaultWorker = w1
  MaxLinks = 1
  Faults = {"crash"}
  None = None
SYMMETRY Symmetry
INVARIANTS
  CleanWhenQuiet
