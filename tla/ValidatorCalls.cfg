SPECIFICATION Spec
CONSTANTS
  Procs = {c1, c2, c3}
  Keys = {k1, k2}
  Exts = {x1, x2}
  None = None
  MaxCalls = 1
  Faults = {"io", "crash"}
SYMMETRY Symmetry
INVARIANTS TypeOK ListedIsRecorded WaitedKeyIsThere FailedAddIsApproved
PROPERTIES ImplementsApprovals
