SPECIFICATION FairSpec
CONSTANTS
  t1 = t1
  t2 = t2
  TaskId = {t1, t2}
  Plan <- McThreePlans
  NoPlan = NoPlan
  Timeout = 2
  Vanishing = {t1}
  MaxSubmits <- McSubmits
INVARIANTS
  TypeOK
  NoMoreRunsThanSubmissions
  ResultMatchesStatus
  InFlightIsKnown
PROPERTIES
  CriticalRunsOnlyOnApproval
  GatekeeperSpec
  WaitingDelegableSettles
  AutoApprovedSettles
CHECK_DEADLOCK FALSE
