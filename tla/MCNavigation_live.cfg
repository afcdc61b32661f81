SPECIFICATION NavSpec
CONSTANTS
  Sides <- LeftRight
  Scenes <- ComeAndGo
  MinDt = 1
  Timeout = 1
  MaxFrameAge = 0
  DangerZone = 3
  RecoveryTimeout = 1
  ControlPeriod = 1
  MaxBasis = 0
  QueueDepth = 10
  MaxFailures = 0
  None = none
PROPERTIES
  ClearMeansCruise
  BlockedMeansSpin
