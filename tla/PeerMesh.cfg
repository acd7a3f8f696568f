SPECIFICATION Spec
CONSTANTS
  Nodes = {l, a, b}
  Leader = l
  NoDiscovery = TRUE
  None = None
  MaxFaults = 1
INVARIANTS TypeOK NobodyIsLost
PROPERTIES MeshForms AddressesSettle
