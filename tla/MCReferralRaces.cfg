CONSTANTS
  NoReferral = NoReferral
  NoRow = NoRow
  Capabilities <- MCCapabilities
  Registered <- AllKinds
  GrantCaps <- MCGrantCaps
  Ids = {r1}
  Groups = {g1}
  Workers = {w1, w2}
  MaxRows = 2
  AdminRows <- Reopened
  AdminGrants <- Manage
  Deletes = TRUE
  MaxCrashes = 1
SYMMETRY MCSymmetry
SPECIFICATION RequestsSpec
INVARIANT TimelineComplete
 
CHECK_DEADLOCK FALSE
