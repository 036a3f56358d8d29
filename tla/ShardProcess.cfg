SPECIFICATION FairSpec
CONSTANTS
  TickUs = 2
  TimeoutUs = 3
  BatchSize = 2
  QueueSize = 2
  CounterBits = 1
  MaxSends = 3
  MaxArrivals = 6
  MaxOpens = 2
  MaxLate = 13
  Tick = Tick
  Peer = Peer
  Recorders <- MCRecorders
  BucketCount = 3
  NoMinimum = 5
  Scraper = Scraper
  Slow = Slow
  Silent = Silent
  HttpClients <- MCHttpClients
  Prompt = {Scraper}
  Deaf = {Silent}
  RequestParts = 2
  NoClient = NoClient
  KeenViewer = KeenViewer
  SlowViewer = SlowViewer
  Viewers <- MCViewers
  Keen = {KeenViewer}
  MaxClients = 2
  MaxQueuedFrames = 2
  MaxOutgoing = 3
  MaxFrames = 4
  BigFrames = {2, 4}
  Scenarios <- MCScenarios
INVARIANTS
  SentInOrder
  SendsAccounted
  DropsSinceFirst
  BoundedBurst
  NoSampleLost
  QuantileIsSampled
  NoSilentLoss
PROPERTIES
  HeardIsKept
  Answered
  NeverStalls
CHECK_DEADLOCK FALSE
