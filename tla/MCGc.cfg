CONSTANTS
  M = 3
  Y = 1
  F = 1
  Root = {r1, r2}
  GrayMax = 2
  MaxWeak = 2
  MaxFinal = 1
  Room = 2
  Programs <- Alone
SPECIFICATION Spec
SYMMETRY Symmetry
INVARIANTS NothingDangles WorkIsFound
PROPERTIES OnlyDeadAreDropped
CHECK_DEADLOCK FALSE
