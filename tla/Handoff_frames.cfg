\* Two reassigns and a routed frame, with every fault but a reconnection.
SPECIFICATION Spec
CONSTANTS
  Workers = {w1, w2}
  Calls = {c1, c2}
  Senders = {s1}
  DefaultWorker = w1
  MaxLinks = 1
  Faults = {"send", "db", "crash"}
  None = None
SYMMETRY Symmetry
INVARIANTS
  TypeOK
  OneWriter
  WaitIsReachable
PROPERTIES
  AckMeansLetGo
