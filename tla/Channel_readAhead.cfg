SPECIFICATION Spec
CONSTANTS
  a = a
  b = b
  ui = ui
  Tool = {a}
  Ui = {}
  Foreign = {}
  Nobody = Nobody
  MaxConnects = 2
  MaxRuns = 1
PROPERTIES
  WholeRequestIsHandled
CHECK_DEADLOCK FALSE
