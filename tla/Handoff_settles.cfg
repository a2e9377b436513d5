\* Two reassigns, a worker that dies and comes back, sends that fail.
SPECIFICATION FairSpec
CONSTANTS
  Workers = {w1, w2}
  Calls = {c1, c2}
  Senders = {}
  DefaultWorker = w1
  MaxLinks = 2
  Faults = {"send", "crash"}
  None = None
INVARIANTS
  HandoffSettles
PROPERTIES
  StaleNeverRoutes
  HandoffsReturn
