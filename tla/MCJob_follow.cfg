SPECIFICATION FairSpec
CONSTANTS
  Specs <- TriggerOrPause
  ChainStates = {TRUE, FALSE}
  Results = {"succeeded"}
  MaxEdits = 3
  MaxFaults = 1
  MaxCrashes = 1
  MaxStale = 1
INVARIANTS
  TypeOK
  ObservedMeansAttempted
  RepeatsHaveACause
PROPERTIES
  EventuallyTracked
CHECK_DEADLOCK FALSE
