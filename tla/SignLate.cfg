SPECIFICATION Spec
CONSTANTS
  Nodes = {n1, n2, n3, n4, n5}
  Leader = n1
  Thr = 3
  NoVal = NoVal
  MaxFired = 2
  Faults = {"late"}
SYMMETRY PeerSymmetry
INVARIANTS SamePolyValue
