SPECIFICATION Spec
CONSTANTS
  Names = {f, g}
  f = f
  g = g
  Absent = Absent
  Whiteout = Whiteout
  Contents = {v, w}
  v = v
  w = w
  Days = {0}
  MaxLayers = 2
  MaxTokens = 0
CHECK_DEADLOCK FALSE
INVARIANT BottomFirstShowsImage
