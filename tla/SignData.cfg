SPECIFICATION Spec
CONSTANTS
  Nodes = {n1, n2, n3}
  Leader = n1
  Thr = 2
  NoVal = NoVal
  MaxFired = 2
  Faults = {"timeout", "late"}
SYMMETRY PeerSymmetry
INVARIANTS TypeOK OneSignature
PROPERTIES ImplementsSigning
