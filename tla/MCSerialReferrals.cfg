CONSTANTS
  NoReferral = NoReferral
  NoRow = NoRow
  Capabilities <- MCCapabilities
  Registered <- SomeKinds
  GrantCaps <- MCGrantCaps
  Ids = {r1, r2}
  Groups = {g1, g2}
  Workers = {w1}
  MaxRows = 3
  AdminRows <- MCAdminRows
  AdminGrants <- NoAdmin
  Deletes = TRUE
  MaxCrashes = 0
SYMMETRY MCSymmetry
SPECIFICATION SerialSpec
INVARIANT OneRowPerGroup
PROPERTY ImplementsReferrals
CHECK_DEADLOCK FALSE
