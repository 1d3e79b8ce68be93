SPECIFICATION FairSpec
CONSTANTS
  Runs = {r1, r2}
  NoRun = NoRun
  Cap = 2
  Hasty = FALSE
  MaxStack = 4
  MaxPending = 3
INVARIANTS
  TypeOK
  ReportsTruthful
  OneWriter
  OneReader
PROPERTIES
  NoDeleteUnderARun
  EveryRunReported
  ProducersEnd
CHECK_DEADLOCK FALSE
