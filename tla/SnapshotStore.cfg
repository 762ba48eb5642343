SPECIFICATION FairSpec
CONSTANTS
  Runs = {r1, r2}
  Reports = {p1, p2}
  Names = {n1, n2}
  Nobody = Nobody
  NumFiles = 2
  RenameReplaces = TRUE
CHECK_DEADLOCK FALSE
INVARIANTS
  TypeOK
  NoHalfSnapshot
  NoMixedPartial
  RenameFindsNameFree
  FiguresMatchRaw
  RegisteredIsOwn
PROPERTIES
  WriteOnce
  LedgerSpec
  ReservationResolves
