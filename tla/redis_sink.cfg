SPECIFICATION MCSpec
CONSTANTS
  Codes = {c1, c2}
  c1 = c1
  c2 = c2
  MaxRa = 2
  QueueSize = 1
  BatchSize = 2
  MaxEvents = 2
  MaxRuns = 2
  SmokeEvents <- MCSmokeEvents
INVARIANTS
  SinkKeepsItsLedger
  AtMostOnceInOrder
  GuardCoversServer
  SmokeToldTrue
  SmokeLeavesNothing
PROPERTY
  StopEnds
CHECK_DEADLOCK FALSE
