\* An operator with two requests, a detector with one retry, one fault.
SPECIFICATION FairSpec
CONSTANTS
  Users = {u1}
  Detector = Detector
  Creator = Creator
  Outcomes = {"completed", "failed"}
  MaxAutoRetries = 1
  MaxRequests = 2
  MaxFaults = 1
  None = None
INVARIANTS
  TypeOK
  OneRun
  RowTellsTheRun
PROPERTIES
  RetriesGiveBack
  Settles
CHECK_DEADLOCK FALSE
