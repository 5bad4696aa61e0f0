SPECIFICATION FairSpec
CONSTANTS
  n1 = n1
  n2 = n2
  c1 = c1
  c2 = c2
  c3 = c3
  Names = {n1, n2}
  Configs = {c1, c2, c3}
  Specs <- InlineOrRef
  ChainStates = {TRUE, FALSE}
  Reverts = FALSE
  MaxEdits = 3
  MaxFaults = 1
  MaxCrashes = 1
INVARIANTS
  TypeOK
  NothingElseLeftBehind
  InSyncWhenReady
PROPERTIES
  EventuallyInSync
  DeletionCompletes
CHECK_DEADLOCK FALSE
