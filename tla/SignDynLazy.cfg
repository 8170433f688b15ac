SPECIFICATION DynSpec
CONSTANTS
  Q = 12289
  L2Bound = 101498
  Slack = 3
  Hashes <- MCHashes
  Samples <- MCSamples
  Key <- MCKey
  MaxTry = 128
  Overlap = FALSE
  None = None
INVARIANTS
  DynTypeOK
  ReturnedVerifies
  GivesUpLast
PROPERTIES
  ImplementsSigner
