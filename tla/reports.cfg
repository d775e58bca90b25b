SPECIFICATION Spec
CONSTANTS
  Residual = 1
  Depth = 1
  Period = 5
  HoleAt = 10
  SessionGap = 15
  RejectAt = 0
  FailPart = 10000
  BigGap = 2
  TolPercent = 25
  Day = 20
  QueueSize = 2
  BatchSize = 2
  LateSlot = 3
  Lateness = 1
  MaxSlots <- SlotsKept
  MaxUnsync = 1
  MaxSnaps = 2
  MaxRuns = 2
INVARIANTS
  ReportTellsTheLoss
  LossCheckIsSound
  MarkersToldTrue
CHECK_DEADLOCK FALSE
