SPECIFICATION Spec
CONSTANTS
  Messages <- AnyMessages
  DangerZone = 3
  RecoveryTimeout = 3
  ControlPeriod = 2
  QueueDepth = 1
  MaxBasis = 0
  None = none
INVARIANTS
  SteeringEnds
PROPERTY
  CruiseThenAvoid
