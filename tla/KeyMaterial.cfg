SPECIFICATION Spec
CONSTANTS
  N = 3
  Group <- MCGroup
  NoNode = NoNode
  Order = 257
  Degree = 1
  SeedLists <- MCSeedLists
  KeyPolys <- MCKeyPolys
  NoncePolys <- MCNoncePolys
  Hashes <- MCHashes
INVARIANTS TypeOK SeedsSurvive SharesMatchKey SignatureVerifies TooFewSharesTellNothing
