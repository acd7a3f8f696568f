SPECIFICATION Spec
CONSTANTS
  Nodes = {self, a, b}
  Self = self
  StoremanNodes = {a}
  Leader = a
  MaxDialed = 1
  Conns = {c1, c2}
  TrustedNodes = {}
  MaxPeers = 2
  MaxPendingPeers = 2
  maxActiveDialTasks = 1
  None = None
INVARIANTS TypeOK PeersAreKnown LimitsHold DialerTicks
CHECK_DEADLOCK FALSE
