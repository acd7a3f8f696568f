SPECIFICATION FairSpec
CONSTANTS
  Nodes = {n1, n2, n3}
  Leader = n1
  Thr = 2
  NoKey = NoKey
  Faults = {"timeout", "io", "crash"}
INVARIANTS TypeOK SuccessMeansAllStored KeystoresAgree NoEarlyDrop Lockstep
PROPERTIES ImplementsKeyCreation EndsWithoutTimeout FailureHasCause
