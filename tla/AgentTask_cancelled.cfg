\* A run that ends while the detector's retry waits for its claim to be committed.
SPECIFICATION FairSpec
CONSTANTS
  Users = {u1}
  Detector = Detector
  Creator = Creator
  Outcomes = {"completed"}
  MaxAutoRetries = 1
  MaxRequests = 0
  MaxFaults = 0
  None = None
PROPERTY OldNewsIgnored
CHECK_DEADLOCK FALSE
