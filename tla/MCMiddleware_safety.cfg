SPECIFICATION SafeSpec
CONSTANTS
  Unary = {u1, u2}
  Streams = {s1}
  MaxFrames = 2
  Workers = {w1, w2}
  None = none
SYMMETRY Symmetry
INVARIANTS
  TypeOK
  RequestAlive
  RepliesMatch
  CountersAgree
  NeverRefused
  IdleWhenStopped
