CONSTANTS
  Shares = {s1, s2}
  NoShare = NoShare
  Drains = {cron, task}
  Interval = 2
  Expiring = {s2}
  Never = Never
  Horizon = 4
  MaxFaults = 1
SPECIFICATION FairSpec
INVARIANTS TypeOK OncePerInterval
PROPERTIES SentWhileActive DueSettles
CHECK_DEADLOCK FALSE
