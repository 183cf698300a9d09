SPECIFICATION FairSpec
CONSTANTS
  a = a
  b = b
  ui = ui
  Tool = {a, b}
  Ui = {ui}
  Foreign = {b}
  Nobody = Nobody
  MaxConnects = 3
  MaxRuns = 2
INVARIANTS
  TypeOK
  PayloadFromAuthenticated
  NoActionWithoutRequest
PROPERTIES
  ServiceSpec
  OnlySilenceBlocks
  StopEndsAfterService
CHECK_DEADLOCK FALSE
