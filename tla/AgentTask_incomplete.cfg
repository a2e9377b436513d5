\* A run that ends without its pull request, retried by an operator.
SPECIFICATION FairSpec
CONSTANTS
  Users = {u1}
  Detector = Detector
  Creator = Creator
  Outcomes = {"incomplete"}
  MaxAutoRetries = 1
  MaxRequests = 1
  MaxFaults = 1
  None = None
PROPERTY RetriesGiveBack
CHECK_DEADLOCK FALSE
