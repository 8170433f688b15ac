SPECIFICATION Spec
CONSTANTS
  logn = 2
  Cases <- MCCases
  Null = Null
INVARIANTS
  TypeOK
  VerdictOfEquation
  OneEncoding
  Arrives
  KeyRecovered
CHECK_DEADLOCK FALSE
