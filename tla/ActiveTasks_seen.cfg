SPECIFICATION Spec
CONSTANTS
  a = a
  b = b
  c = c
  i1 = i1
  i2 = i2
  Task = {a, b}
  TaskId = {i1}
  id <- McTwoId
  Critical = {a, b}
  MaxRestarts = 1
  MaxExits = 0
INVARIANTS
  JudgedAsSeen
CHECK_DEADLOCK FALSE
