CONSTANTS
  draft = draft
  committee = committee
  closed = closed
  withdrawn = withdrawn
  report = report
  States <- MCStates
  Initial = draft
  AllowsReferrals <- MCAllowsReferrals
  Edges <- MCEdges
  From <- MCFrom
  To <- MCTo
  Required <- MCRequired
  Conditions <- MCConditions
  NeedsComment <- MCNeedsComment
  EventTypes <- MCEventTypes
  Referrals = {r1}
  Children = {c1}
  FormsMoveState = FALSE
  AdminRefers = TRUE
  MaxLog = 2
  NoEdge = NoEdge
  Workers = {w1, w2}
  Crashes = TRUE
SYMMETRY MCSymmetry
SPECIFICATION RequestsSpec
INVARIANTS MovesHaveEvidence AlertsAreLogged
CHECK_DEADLOCK FALSE
