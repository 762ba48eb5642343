SPECIFICATION Spec
CONSTANTS
  W32 = 4
  W64 = 16
  DEFAULT_COMPRESSION_SEED = 7
  DEFAULT_PROCESSES = 2
  MIN_WARMUPS = 1
  K1Samples <- MCK1Samples
  Differ <- MCDiffer
  Scenarios <- MCCrossover
CHECK_DEADLOCK FALSE
INVARIANTS
  CrossoverIsAdjacent
