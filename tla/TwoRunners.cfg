CONSTANTS
  Runs = {r1, r2}
  Processes = {{r1}, {r2}}
  Dumps = {"load"}
  Idents = {"load"}
  Ident <- MCIdent
  Size <- MCSize
  Dsns = {t1}
  NoDsn = NoDsn
  Modes <- PlainModes
  DefaultMode <- MCDefaultMode
  Cuts <- PlainCuts
  BatchStmts = 2
  BatchBytes = 3
  Cap = 1
  MaxCrashes = 0
  MaxFaults = 1
  Deletable = {}
  TheDump = "load"
  TheTarget = t1
SPECIFICATION FairSpec
INVARIANTS
  ResumePointCovered
  SuccessMeansRestored
PROPERTIES
  RunEnds
