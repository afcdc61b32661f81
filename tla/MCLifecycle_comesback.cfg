SPECIFICATION Spec
CONSTANTS
  Handlers = {h1}
  Workers = {}
  Others = {}
  MaxSignals = 2
  None = none
PROPERTIES
  ShutdownComesBack
CHECK_DEADLOCK FALSE
