SPECIFICATION Spec
CONSTANTS
  Shards = {1, 2}
  RegionCount = 4
  None = None
  Matchmaker = matchmaker
  HeartbeatTtl = 2
  MaxFaults = 1
  SettleTime = 3
  SteadyTime = 3
INVARIANTS
  SteadyKnown
  OwnersAgree
CHECK_DEADLOCK FALSE
