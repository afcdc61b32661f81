SPECIFICATION SafeSpec
CONSTANTS
  Sides <- LeftRight
  Scenes <- OneScene
  MinDt = 3
  Timeout = 4
  MaxFrameAge = 0
  DangerZone = 3
  RecoveryTimeout = 1
  ControlPeriod = 1
  MaxBasis = 18
  QueueDepth = 10
  MaxFailures = 3
  None = none
INVARIANTS
  TypeOK
  NeverStarves
  RequestAgeBounded
