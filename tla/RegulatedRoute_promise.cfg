CONSTANTS
  Route = {r1, r2}
  Tx = {x1, x2}
  MaxConcurrent = 1
  MaxReports = 1
  Free = Free
SPECIFICATION Spec
INVARIANT SlotsPromisedOnce
CHECK_DEADLOCK FALSE
