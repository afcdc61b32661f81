SPECIFICATION Spec
CONSTANTS
  Handlers = {h1, h2}
  Workers = {w1, w2}
  Others = {o1}
  MaxSignals = 3
  None = none
INVARIANTS
  CallsEndFirst
  CrashTakesRace
PROPERTIES
  SignalEnds
CHECK_DEADLOCK FALSE
