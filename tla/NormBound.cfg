SPECIFICATION NormSpec
CONSTANTS
  Half = 32
  N = 4
  Squares <- MCSquares
  L2Bound = 10
  Slack = 3
INVARIANTS
  NormTypeOK
  VerdictExact
CHECK_DEADLOCK FALSE
