\* A reassign whose send hangs while two others run.
SPECIFICATION Spec
CONSTANTS
  Workers = {w1, w2}
  Calls = {c1, c2, c3}
  Senders = {}
  DefaultWorker = w1
  MaxLinks = 1
  Faults = {"send"}
  None = None
SYMMETRY Symmetry
PROPERTIES
  StaleNeverRoutes
