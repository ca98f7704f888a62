CONSTANTS
  draft = draft
  committee = committee
  closed = closed
  withdrawn = withdrawn
  report = report
  atc = atc
  States <- MCStates
  Initial = draft
  AllowsReferrals <- MCAllowsReferrals
  Edges <- MCEdges
  From <- MCFrom
  To <- MCTo
  Required <- MCRequired
  Conditions <- MCConditions
  NeedsComment <- MCNeedsComment
  EventTypes <- MCEventTypes
  Referrals = {r1, r2}
  Children = {c1, c2}
  FormsMoveState = FALSE
  AdminRefers = FALSE
  MaxLog = 4
  NoEdge = NoEdge
  Workers = {w1}
  Crashes = FALSE
SYMMETRY MCSymmetry
SPECIFICATION SerialSpec
INVARIANTS TypeOK SealedStaysSettled LogTellsStateAtRest
PROPERTY ImplementsStateMachine
CHECK_DEADLOCK FALSE
