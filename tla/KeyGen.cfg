SPECIFICATION Spec
CONSTANTS
  SeedLen = 3
  W = 4
  Words = 4
  Q = 277
  max_fg_bits = 5
  max_FG_bits = 5
  Fs <- MCFs
  Gs <- MCGs
  Stale = Stale
INVARIANTS
  TypeOK
  Coefficients
  FactorsBounded
  Result
  SeedWritten
  NeverRefused
  KeyPair
  SolverExact
PROPERTIES
  Shrinks
CHECK_DEADLOCK FALSE
