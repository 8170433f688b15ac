SPECIFICATION Spec
CONSTANTS
  BufLen = 42
  MaxRefill = 5
  ByteLens = {}
  n = 2
  Steps <- MCSteps
  Bytes <- MCBytes
  Signs <- MCSigns
  NoVal = NoVal
PROPERTIES
  StoresSample
CHECK_DEADLOCK FALSE
