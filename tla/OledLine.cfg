CONSTANTS
  WIDTH = 128
  HEIGHT = 64
  MaxDrawings = 3
  MaxLosses = 0
  Scrambled <- Nothing
SPECIFICATION Spec
INVARIANT PictureStraight
CHECK_DEADLOCK FALSE
