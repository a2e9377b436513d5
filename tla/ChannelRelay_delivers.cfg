\* One event for one binding, two tries in every stage, two faults, one replay.
SPECIFICATION FairSpec
CONSTANTS
  Events = {e1}
  Bindings = {b1}
  ProjTries = 2
  OutTries = 2
  ChanTries = 2
  MaxFaults = 2
  MaxReplays = 1
  None = None
INVARIANTS
  TypeOK
  HandOver
  DuplicatesExcused
  AttemptsBound
PROPERTIES
  EveryEventEnds
