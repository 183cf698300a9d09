SPECIFICATION FairSpec
CONSTANTS
  t1 = t1
  t2 = t2
  TaskId = {t1}
  Plan <- McCriticalOnly
  NoPlan = NoPlan
  Timeout = 2
  Vanishing = {t1}
  MaxSubmits <- McTwoSubmits
PROPERTIES
  PendingSettles
CHECK_DEADLOCK FALSE
