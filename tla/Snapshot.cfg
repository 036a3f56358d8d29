SPECIFICATION Spec
CONSTANTS
  Scenarios <- MCScenarios
  Viewer = me
  e1 = e1
  e2 = e2
  e3 = e3
  BaselineHistory = 2
  SnapshotHistory = 2
  Unit = 10
  InterpolationDelay = 2
  RenderClockSnap = 3
  CatchupPercent = 8
  Jitter = 2
  FrameTimes = {4, 10}
  CalmBound = 4
  WaitBound = 6
  None = None
INVARIANTS
  FramesAgree
  Converges
  NoStarvation
  RidesOutOneLoss
CHECK_DEADLOCK FALSE
