SPECIFICATION Spec
CONSTANTS
  Instances = {i1}
  Resolvers = {r1}
  Worker = w
  Urls = {u1}
  Creds = {c1}
  UserSteps <- UrlAndDeletion
  MaxEdits = 2
  MaxFaults = 0
INVARIANTS
  NoClientAfterDeletion
CHECK_DEADLOCK FALSE
