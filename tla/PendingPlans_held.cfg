SPECIFICATION Spec
CONSTANTS
  t1 = t1
  t2 = t2
  TaskId = {t1}
  Plan <- McOnePlanOfEach
  NoPlan = NoPlan
  Timeout = 2
  Vanishing = {}
  MaxSubmits <- McTwoSubmits
PROPERTIES
  HeldUntilOwnerDecides
CHECK_DEADLOCK FALSE
