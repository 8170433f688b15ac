SPECIFICATION Spec
CONSTANTS
  Logn = 9
  Nonces = {r1, r2}
  Chunks = {a, b}
  MaxChunks = 1
  CompSizes <- MCCompSizes
  Caps <- MCCaps
  Lens <- MCLens
  Finishers = {"lazy"}
  Null = Null
PROPERTIES
  LazySignedMessage
