CONSTANTS
  NoRecord = NoRecord
  NoRow = NoRow
  OldRow = OldRow
  rep1 = rep1
  rep2 = rep2
  res1 = res1
  res2 = res2
  Records = {rep1, rep2, res1, res2}
  Kinds = {contains}
  Allows <- ReportsOverResolutions
  Requests = {q1, q2}
  Deletes = TRUE
SYMMETRY MCSymmetry
SPECIFICATION RequestsSpec
INVARIANTS  AcceptedStays
CHECK_DEADLOCK FALSE
