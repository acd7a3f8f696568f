SPECIFICATION FairSpec
CONSTANTS
  Nodes = {self, a}
  Self = self
  StoremanNodes = {a}
  Leader = a
  MaxDialed = 1
  Conns = {c1}
  TrustedNodes = {}
  MaxPeers = 2
  MaxPendingPeers = 2
  maxActiveDialTasks = 1
  None = None
PROPERTY StopTerminates
CHECK_DEADLOCK FALSE
