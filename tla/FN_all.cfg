SPECIFICATION Spec
CONSTANTS
  Names = {f, g}
  f = f
  g = g
  Absent = Absent
  Whiteout = Whiteout
  Contents = {v, w}
  v = v
  w = w
  Days <- MCDays
  MaxLayers = 0
  MaxTokens = 7
CHECK_DEADLOCK FALSE
INVARIANTS CalendarExact ParsedAsMeant DisplayParses
