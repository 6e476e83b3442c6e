SPECIFICATION Spec
CONSTANTS
  NumAllowed = 2
  MaxFrame = 5
  MaxRuns = 1024
INVARIANTS
  FramesAgree
  LoopLasts
  Interpolable
CHECK_DEADLOCK FALSE
