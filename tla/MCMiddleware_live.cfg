SPECIFICATION Spec
CONSTANTS
  Unary = {u1}
  Streams = {s1}
  MaxFrames = 2
  Workers = {w1, w2}
  None = none
PROPERTIES
  ImplementsService
  HandlersEnd
  ShutdownEnds
