\* A lookup that overlaps a reassign.
SPECIFICATION Spec
CONSTANTS
  Workers = {w1, w2}
  Calls = {c1}
  Senders = {s1}
  DefaultWorker = w1
  MaxLinks = 1
  Faults = {}
  None = None
SYMMETRY Symmetry
INVARIANTS
  RouteFollowsAssignment
