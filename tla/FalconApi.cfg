SPECIFICATION Spec
CONSTANTS
  Logn = 9
  Nonces = {r1, r2}
  Chunks = {a, b}
  MaxChunks = 1
  CompSizes <- MCCompSizes
  Caps <- MCCaps
  Lens <- MCLens
  Finishers = {"dyn", "tree", "lazy"}
  Null = Null
INVARIANTS
  TypeOK
PROPERTIES
  SignedMessage
  DocumentedLengths
  RoundTrip
  Canonical
  EveryCallReturns
