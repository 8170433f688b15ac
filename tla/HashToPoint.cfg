SPECIFICATION Spec
CONSTANTS
  Rate = 3
  Pieces <- MCPieces
  MaxIn = 7
  MaxOut = 16
  n = 2
  over = 6
  Words <- MCWords
  Hashed <- MCHashed
INVARIANTS
  TypeOK
  SamePoint
  OrderKept
  FreeDestination
PROPERTIES
  ImplementsSponge
CHECK_DEADLOCK FALSE
