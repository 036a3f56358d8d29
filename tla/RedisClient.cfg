SPECIFICATION FairSpec
CONSTANTS
  MaxCommands = 4
  MaxSockets = 4
  MaxFaults = 3
  None = None
INVARIANTS
  RepliesMatch
  OrderKept
  SurvivesRestart
PROPERTIES
  FlushReturns
CHECK_DEADLOCK FALSE
