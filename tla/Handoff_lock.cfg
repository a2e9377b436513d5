\* Three reassigns contend for the lock objects, with every fault.
SPECIFICATION Spec
CONSTANTS
  Workers = {w1, w2}
  Calls = {c1, c2, c3}
  Senders = {}
  DefaultWorker = w1
  MaxLinks = 1
  Faults = {"db", "send", "crash"}
  None = None
SYMMETRY Symmetry
INVARIANTS
  TypeOK
  OneWriter
  WaitIsReachable
