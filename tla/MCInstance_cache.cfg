SPECIFICATION Spec
CONSTANTS
  Instances = {i1}
  Resolvers = {r1}
  Worker = w
  Urls = {u1, u2}
  Creds = {c1}
  UserSteps <- UrlAndDeletion
  MaxEdits = 4
  MaxFaults = 1
INVARIANTS
  TypeOK
  ClientOfTheSpecRead
  OneClientPerInstance
CHECK_DEADLOCK FALSE
