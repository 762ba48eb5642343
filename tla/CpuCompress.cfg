SPECIFICATION FairSpec
CONSTANTS
  BlockBits = 2
  Threads = 3
  ChunkWords = 8
  NonFinite = 3
  Inputs <- MCInputs
  OldCounts = {0, 3, 24}
CHECK_DEADLOCK FALSE
INVARIANTS
  MatchesScalar
  NoSharedWrite
PROPERTY CallReturns
