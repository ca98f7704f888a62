CONSTANTS
  Groups = {g1, g2}
  Ids = {r1, r2}
  NoReferral = NoReferral
  NoRow = NoRow
  Capabilities <- MCCapabilities
  Registered <- AllKinds
  ReferralsIn <- Both
  GrantCaps <- MCGrantCaps
  AdminRows <- MCAdminRows
  GrantsDuringReferral = FALSE
SYMMETRY MCSymmetry
SPECIFICATION Spec
INVARIANTS TypeOK GrantsInStep OrganicGrantKept
PROPERTY ReferralMovesOnlyItsOwn
