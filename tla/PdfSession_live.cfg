SPECIFICATION FairSpec
CONSTANTS
  s1 = s1
  s2 = s2
  s3 = s3
  c1 = c1
  c2 = c2
  c3 = c3
  Session = {s1, s2}
  Label = {w1}
  MaxOwnerGeneration = 1
  Caller = {c1}
  LateCommands = FALSE
  MaxSessions = 2
  MaxOpening = 2
  MaxSessionQueue = 1
  MaxSessionInFlight = 2
  MaxProcessQueue = 1
  MaxProcessInFlight = 1
  MaxSessionLinks = 0
  MaxProcessLinks = 0
  MaxTombstones = 2
  MaxOwnerFences = 1
PROPERTIES
  DestroyedIsDisposed
  CommandsReturn
CONSTRAINT OneWindow
CHECK_DEADLOCK FALSE
