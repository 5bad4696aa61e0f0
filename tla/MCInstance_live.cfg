SPECIFICATION FairSpec
CONSTANTS
  Instances = {i1}
  Resolvers = {}
  Worker = w
  Urls = {u1}
  Creds = {c1, c2}
  UserSteps <- AllButUrl
  MaxEdits = 4
  MaxFaults = 1
PROPERTIES
  DeletionCompletes
  StallIsReported
  RenewalHeals
CHECK_DEADLOCK FALSE
