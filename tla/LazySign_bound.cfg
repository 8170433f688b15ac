SPECIFICATION Spec
CONSTANTS
  Q = 12289
  L2Bound = 101498
  Slack = 3
  Tokens = {t1, t2}
  Hashes <- MCHashes
  Samples <- MCSamples
  Key <- MCKey
  MaxUse = 2
  NoTok = NoTok
  NoSig = NoSig
INVARIANTS
  SameBoundAsVerifier
