SPECIFICATION Spec
CONSTANTS
  Runs = {r1}
  NoRun = NoRun
  Cap = 2
  Hasty = TRUE
  MaxStack = 3
  MaxPending = 3
INVARIANT ReportsTruthful
CHECK_DEADLOCK FALSE
