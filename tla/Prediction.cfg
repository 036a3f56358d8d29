SPECIFICATION Spec
CONSTANTS
  InputRedundancy = 2
  MaxQueuedInputs = 2
  InputRepeatTicks = 1
  InputHistory = 3
  StartTicks = {0, 3}
  MaxInputs = 4
  MaxTick = 5
  MaxInFlight = 2
  MaxMoves = 2
INVARIANTS
  AppliedOnce
  ReplayedOnce
  LossTolerated
  RepeatsEnd
CHECK_DEADLOCK FALSE
