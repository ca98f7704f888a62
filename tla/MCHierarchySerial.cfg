CONSTANTS
  NoRecord = NoRecord
  NoRow = NoRow
  OldRow = OldRow
  rep1 = rep1
  rep2 = rep2
  res1 = res1
  res2 = res2
  Records = {rep1, rep2, res1}
  Kinds = {contains}
  Allows <- AnyPair
  Requests = {q1}
  Deletes = TRUE
SPECIFICATION SerialSpec
INVARIANT TypeOK
PROPERTY ImplementsHierarchy
CHECK_DEADLOCK FALSE
