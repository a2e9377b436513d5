\* A frame that follows RELEASE_LEASE to the old worker.
SPECIFICATION Spec
CONSTANTS
  Workers = {w1, w2}
  Calls = {c1}
  Senders = {s1}
  DefaultWorker = w1
  MaxLinks = 1
  Faults = {}
  None = None
SYMMETRY Symmetry
PROPERTIES
  AckMeansReleased
