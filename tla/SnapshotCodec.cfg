SPECIFICATION Spec
CONSTANTS
  ByteBits = 4
  VarintBytes = 2
  Ids = {1, 2, 20}
  Viewer = 2
  States <- MCStates
  Budgets = {5, 7, 12, 14, 20, 27}
  WordBits = 4
  kUpdateCountBits = 4
  kPositionBits = 4
  kVelocityBits = 2
  kKindBits = 2
  kSmallDeltaMin <- MCSmallDeltaMin
  kSmallDeltaMax = 3
  None = None
INVARIANTS
  DecodesAsRecorded
  NeverMidway
CHECK_DEADLOCK FALSE
