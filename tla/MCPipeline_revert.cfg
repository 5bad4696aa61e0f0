SPECIFICATION Spec
CONSTANTS
  n1 = n1
  n2 = n2
  c1 = c1
  c2 = c2
  c3 = c3
  Names = {n1, n2}
  Configs = {c1, c2, c3}
  Specs <- Inline
  ChainStates = {TRUE}
  Reverts = TRUE
  MaxEdits = 3
  MaxFaults = 0
  MaxCrashes = 0
INVARIANTS
  InSyncWhenReady
CHECK_DEADLOCK FALSE
