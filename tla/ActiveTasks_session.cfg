SPECIFICATION FairSpec
CONSTANTS
  a = a
  b = b
  c = c
  i1 = i1
  i2 = i2
  Task = {a, b, c}
  TaskId = {i1, i2}
  id <- McId
  Critical = {b, c}
  MaxRestarts = 1
  MaxExits = 1
INVARIANTS
  TypeOK
  WaitingIsListed
  ApprovedByOwnerOrWindow
  UniqueIdIsJudgedAsSeen
PROPERTIES
  ValveSpec
  EveryTaskIsAnswered
CHECK_DEADLOCK FALSE
