SPECIFICATION FairSpec
CONSTANTS
  Nodes = {n1, n2, n3}
  Leader = n1
  Thr = 1
  NoVal = NoVal
  MaxFired = 2
  Faults = {"late", "refuse"}
INVARIANTS SignedDespiteRefusals
PROPERTIES EveryContextEnds
CHECK_DEADLOCK FALSE
