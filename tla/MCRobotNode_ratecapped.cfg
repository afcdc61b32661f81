SPECIFICATION Spec
CONSTANTS
  Sides = {"ahead"}
  Scenes <- OneScene
  MinDt = 3
  Timeout = 5
  MaxFrameAge = 2
  None = none
PROPERTY
  RateCapped
