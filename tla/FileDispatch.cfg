SPECIFICATION Spec
CONSTANTS
  s1 = s1
  s2 = s2
  s3 = s3
  c1 = c1
  c2 = c2
  j1 = j1
  j2 = j2
  j3 = j3
  j4 = j4
  None = None
  Session = {s1, s2, s3}
  Client = {c1, c2}
  Job = {j1, j2, j3, j4}
  MaxOpens = 2
  MaxSessionQueue = 2
  MaxSessionInFlight = 2
  MaxProcessQueue = 3
  MaxProcessInFlight = 2
CHECK_DEADLOCK FALSE
SYMMETRY Interchangeable
INVARIANTS
  QueuesAreSound
  NoStrandedJob
PROPERTY
  CountersImplemented
