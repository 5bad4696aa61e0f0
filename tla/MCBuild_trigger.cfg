SPECIFICATION Spec
CONSTANTS
  Builds = {b1}
  Specs <- PlainOrAbort
  ChainStates <- AlwaysReady
  Outcomes <- OneOutcome
  ChanCap = 1
  MaxEdits = 2
  MaxFaults = 0
  MaxStale = 0
INVARIANTS
  AtMostOneTrigger
CHECK_DEADLOCK FALSE
