SPECIFICATION FairSpec
CONSTANTS
  Builds = {b1}
  Specs <- PlainOrAbort
  ChainStates <- AllChains
  Outcomes <- OneOutcome
  ChanCap = 1
  MaxEdits = 2
  MaxFaults = 1
  MaxStale = 0
INVARIANTS
  NeverForgotten
PROPERTIES
  EventuallyServed
  EventuallyAborted
CHECK_DEADLOCK FALSE
