\* A reassign of a group that its worker has listed at startup.
SPECIFICATION Spec
CONSTANTS
  Workers = {w1, w2}
  Calls = {c1}
  Senders = {}
  DefaultWorker = w1
  MaxLinks = 1
  Faults = {}
  None = None
SYMMETRY Symmetry
PROPERTIES
  AckMeansReleased
