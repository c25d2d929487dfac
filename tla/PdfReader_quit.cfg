SPECIFICATION Spec
CONSTANTS
  d1 = d1
  d2 = d2
  Doc = {d1, d2}
  None = None
  LaterWork = {}
  MaxAttempts = 2
  MaxDisposals = 1
INVARIANTS
  DrainedBeforeReject
CHECK_DEADLOCK FALSE
