CONSTANTS
  Workers = {w1, w2, w3}
  NoRow = NoRow
  MaxVersions = 3
  MaxRequests = 5
  MaxFaults = 1
SYMMETRY Alike
SPECIFICATION Spec
INVARIANTS TypeOK CurrentIsNewest 
CHECK_DEADLOCK FALSE
