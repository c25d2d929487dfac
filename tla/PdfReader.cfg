SPECIFICATION FairSpec
CONSTANTS
  d1 = d1
  d2 = d2
  Doc = {d1, d2}
  None = None
  LaterWork = {"print"}
  MaxAttempts = 2
  MaxDisposals = 1
CHECK_DEADLOCK FALSE
CONSTRAINT SecondIsShort
INVARIANTS
  ClosingIsOrderly
  NothingForgotten
PROPERTIES
  PasswordIsAwaited
  LateCleanupCompletes
