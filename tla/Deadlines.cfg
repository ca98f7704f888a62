CONSTANTS
  Ids = {r1, r2}
  NoReferral = NoReferral
  Dates = {1, 3}
  Horizon = 3
  FirstReminder = 2
  FinalReminder = 1
  MaxEdits = 2
  MaxFaults = 1
SPECIFICATION FairSpec
INVARIANTS TypeOK  HandledOncePerRun FirstReminderOnce
PROPERTY OverdueSettles
CHECK_DEADLOCK FALSE
