SPECIFICATION FairSpec
CONSTANTS
  n1 = n1
  n2 = n2
  u1 = u1
  u2 = u2
  Names = {n1, n2}
  Members = {u1, u2}
  Specs <- TeamSpecs
  MaxEdits = 3
  MaxFaults = 1
  MaxCrashes = 1
  MaxTime = 2
INVARIANTS
  TypeOK
  GrantedWhenReady
  NothingElseLeftBehind
PROPERTIES
  EventuallyGranted
  DeletionCompletes
CHECK_DEADLOCK FALSE
