SPECIFICATION FairSpec
CONSTANTS
  j1 = j1
  j2 = j2
  p1 = p1
  p2 = p2
  Job = {j1, j2}
  Program = {p1, p2}
  plan <- McPlan
  program <- McProgram
INVARIANTS
  TypeOK
PROPERTIES
  ExecutionSpec
  EveryExecutionReturns
