SPECIFICATION Spec
CONSTANTS
  None = None
  Window = 3
  Burst = 2
  Stride = 3
  KnownShapes = {"assistant"}
  Aliases <- MCAliases
  BlindWindow = 1
  StopHits <- MCStopHits
  LoopHits <- MCLoopHits
  StopWarn = 1
  StopCritical = 3
  RecentCap = 2
  MinLoopCalls = 1
  LoopWarn = 10
  LoopCritical = 2000
  EmptyText = ""
  Files <- MCFiles
  Sizes = {2, 3}
  HealthWindow = 2
  HealthNum = 9
  HealthDen = 10
  MaxLines = 4
  MaxResumes = 1
INVARIANTS TypeOK EachMessageOnce ConfidenceIsRecent RatioOfTheWindow BlindIsUnread MaxBurstIsLongest RecentHitsAreLast TurnsCoverTheSession
PROPERTIES DriftLeavesATrace
CHECK_DEADLOCK FALSE
