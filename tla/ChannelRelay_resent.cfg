\* One event for one binding, nobody fails but the platform's answers.
SPECIFICATION Spec
CONSTANTS
  Events = {e1}
  Bindings = {b1}
  ProjTries = 2
  OutTries = 2
  ChanTries = 2
  MaxFaults = 0
  MaxReplays = 0
  None = None
INVARIANTS
  NeverResent
