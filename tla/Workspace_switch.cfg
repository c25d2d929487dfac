SPECIFICATION Spec
CONSTANTS
  Requests <- ThreeRequests
  MaxCloses = 0
  MaximumTabs = 3
  NormalLimit = 1
  OwnershipLimit = 2
  Conditions <- Restless
INVARIANTS
  AtMostOneActive
