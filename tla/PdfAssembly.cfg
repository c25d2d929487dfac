SPECIFICATION FairSpec
CONSTANTS
  d1 = d1
  d2 = d2
  d3 = d3
  w1 = w1
  w2 = w2
  Doc = {d1, d2, d3}
  Owner = {w1, w2}
  OwnerOf <- TwoWindows
  MaxBytes = 2
  Sizes = {1, 2}
  MaxSequence = 1
  MaxLease = 2
  MaxReleased = 1
  MaxClosed = 2
CONSTRAINT Competing
INVARIANTS
  LedgerIsExact
PROPERTIES
  NoBypass
  ShadowImplemented
  WaitingIsServed
