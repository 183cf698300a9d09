CONSTANTS
  crit = crit
  ops = ops
  ls = ls
  new = new
  Name = {ls, new}
  SymbolName = {crit, ops}
  CRITICAL_SYMBOLS = {crit}
  Limit = {3, 10}
  Shipped <- McShipped
  Own <- McOwn
  NewName = new
  MaxRows = 2
  MaxEdits = 2
  MaxChanges = 2
  MaxFaults = 2
  MaxSecond = 1
SPECIFICATION Spec
INVARIANTS
  LoweringWasAskedAbout
