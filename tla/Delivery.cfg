CONSTANTS
  NoWorker = NoWorker
  NoTask = NoTask
  Mails = {m1, m2}
  Workers = {w1, w2}
  MaxAttempts = 3
  MaxFaults = 1
  RequestsDie = TRUE
SPECIFICATION FairSpec
INVARIANTS TypeOK PendingIsQueued StatusTellsOutcome DuplicatesNeedFault
PROPERTIES SettledForGood EmailSettles
CHECK_DEADLOCK FALSE
