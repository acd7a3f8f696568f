SPECIFICATION Spec
CONSTANTS
  N = 50
  Group <- DefaultGroup
  NoNode = NoNode
  Order = 257
  Degree = 1
  SeedLists <- DefaultSeedLists
  KeyPolys <- DefaultPolys
  NoncePolys <- DefaultPolys
  Hashes <- MCHashes
INVARIANTS SeedsSurvive
