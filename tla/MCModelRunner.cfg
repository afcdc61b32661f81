SPECIFICATION Spec
CONSTANTS
  Anchors = {a1, a2, a3}
  Boxes <- SomeBoxes
  Scores = {4, 5, 6}
  ConfThresh = 5
  IouNum = 1
  IouDen = 2
  NetW = 9
  NetH = 2
  Width = 3
  Height = 1
  Unit = 512
  HalfCol = 85
  HalfRow = 128
  Round <- FloatRound
  MaxPart = 2048
  Precision = 128
  Depths <- SomeReadings
  NotFinite = notfinite
  NoDepth = nodepth
SYMMETRY Symmetry
INVARIANTS
  TypeOK
  KeptDisjoint
  DroppedForBetter
  LookupInside
  
  DistanceIsRead
