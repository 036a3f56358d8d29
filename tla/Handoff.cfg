CONSTANTS
  Shards = {1, 2}
  RegionCount = 2
  None = None
  Clients = {c1, c2}
  Deployments <- MCDeployments
SPECIFICATION FairSpec
INVARIANTS SequentialSingleResident 
PROPERTIES PresenceConverges RedirectedLeave
CHECK_DEADLOCK FALSE
