SPECIFICATION FairSpec
CONSTANTS
  Peers = {p1, p2, p3}
  Leader = p1
  Self = p2
  NSteps = 3
  WaitAll = TRUE
  NilMsg = NilMsg
  Wait <- GpkWait
  Senders <- GpkSenders
INVARIANTS TypeOK SendsNeverBlock PassedStepIsComplete QuitWakesEveryStep
PROPERTIES PassedStepIsFrozen ContextEnds ReadersEnd QuitErrorSurfaces
CHECK_DEADLOCK FALSE
