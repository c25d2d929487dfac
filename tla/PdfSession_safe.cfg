SPECIFICATION Spec
CONSTANTS
  s1 = s1
  s2 = s2
  s3 = s3
  c1 = c1
  c2 = c2
  c3 = c3
  Session = {s1, s2, s3}
  Label = {w1}
  MaxOwnerGeneration = 2
  Caller = {c1, c2, c3}
  LateCommands = TRUE
  MaxSessions = 2
  MaxOpening = 2
  MaxSessionQueue = 1
  MaxSessionInFlight = 2
  MaxProcessQueue = 1
  MaxProcessInFlight = 1
  MaxSessionLinks = 2
  MaxProcessLinks = 2
  MaxTombstones = 1
  MaxOwnerFences = 1
CONSTRAINT Scenarios
CHECK_DEADLOCK FALSE
INVARIANTS
  HandleQuota
  CountersAgree
  CleanupIsDrained
  NoForgottenSession
  ReportsAreTrue
  OwnersAreRespected
