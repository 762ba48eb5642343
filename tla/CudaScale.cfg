SPECIFICATION Spec
CONSTANTS
  BlockBits = 3
  LaneBits = 1
  SpanBits = 2
  Vector = 2
  MaxGrid = 3
  MaxAutoGrid = 2
  Counts = {1, 7, 8, 9, 21, 33, 44, 67}
  Grids = {0, 1, 2, 3}
CHECK_DEADLOCK FALSE
INVARIANTS
  ScaleIsScalar
  NoRace
