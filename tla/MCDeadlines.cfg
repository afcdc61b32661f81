SPECIFICATION Spec
CONSTANTS
  Robots = {r1, r2}
  Workers = 4
  Timeout = 5
  Deadline = 5
  Latency = 1
  Copies = 3
SYMMETRY Symmetry
INVARIANTS
  NeverWaits
  TwoUnderWay
  BlameUpstream
