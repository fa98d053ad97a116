CONSTANTS
  M = 2
  Y = 1
  F = 1
  Root = {r1, r2}
  GrayMax = 2
  MaxWeak = 1
  MaxFinal = 1
  Room = 2
  Programs <- WeakAndFinal
SPECIFICATION Spec
SYMMETRY Symmetry
INVARIANTS WeakIsSound
CHECK_DEADLOCK FALSE
