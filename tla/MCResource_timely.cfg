SPECIFICATION Spec
CONSTANTS
  Specs <- NoneZeroOrThree
  Pipelines <- AllFound
  Poll = 4
  Retry = 1
  Sec = 2
  MaxEdits = 3
  MaxFaults = 1
  MaxCrashes = 1
  MaxTime = 6
INVARIANTS
  TypeOK
  CheckedInTime
  NotTooOften
  CurrentInTime
PROPERTIES
  StatusNeverGoesBack
CHECK_DEADLOCK FALSE
