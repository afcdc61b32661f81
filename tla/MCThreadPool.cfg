SPECIFICATION Spec
CONSTANTS
  Workers = {w1, w2}
  Calls = {c1, c2, c3}
  Owner = owner
  None = none
  MaxShutdowns = 2
INVARIANTS
  TypeOK
  EachTaskOnce
  ShutdownDrains
  NoLostWakeup
  NoIdleWorkerBesideTask
  NoSleeperAfterStop
PROPERTIES
  AcceptedIsAnswered
  ShutdownReturns
  ImplementsTaskQueue
