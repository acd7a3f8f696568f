SPECIFICATION Spec
CONSTANTS
  Procs = {c1, c2}
  Keys = {k1, k2}
  Exts = {x1, x2}
  None = None
  MaxCalls = 1
  Faults = {}
SYMMETRY Symmetry
INVARIANTS ReceivedIsPolled
