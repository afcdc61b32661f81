SPECIFICATION Spec
CONSTANTS
  Unary = {u1}
  Streams = {s1, s2}
  MaxFrames = 2
INVARIANTS
  RepliesWereCounted
PROPERTIES
  ImplementsService
  HandlersEnd
