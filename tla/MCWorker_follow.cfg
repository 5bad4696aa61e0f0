SPECIFICATION FairSpec
CONSTANTS
  Specs <- AllDesired
  InstanceStates <- AllFound
  MaxEdits = 3
  MaxFaults = 1
  MaxCrashes = 1
INVARIANTS
  TypeOK
PROPERTIES
  EventuallyLanded
  EventuallyPruned
  EventuallyShown
  PollingEnds
CHECK_DEADLOCK FALSE
