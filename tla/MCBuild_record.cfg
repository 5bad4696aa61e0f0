SPECIFICATION Spec
CONSTANTS
  Builds = {b1}
  Specs <- PlainOrNoJobRef
  ChainStates <- ReadyOrNot
  Outcomes <- OneOutcome
  ChanCap = 1
  MaxEdits = 3
  MaxFaults = 0
  MaxStale = 1
INVARIANTS
  TypeOK
  OneWatcherPerBuild
PROPERTIES
  TruthfulRecord
CHECK_DEADLOCK FALSE
