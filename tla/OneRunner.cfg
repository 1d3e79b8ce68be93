CONSTANTS
  Runs = {r1}
  Processes = {{r1}}
  Dumps = {"table", "proc"}
  Idents = {"table", "proc"}
  Ident <- MCIdent
  Size <- MCSize
  Dsns = {t1}
  NoDsn = NoDsn
  Modes <- MCModes
  DefaultMode <- MCDefaultMode
  Cuts <- MCCuts
  BatchStmts = 2
  BatchBytes = 3
  Cap = 2
  MaxCrashes = 1
  MaxFaults = 2
  Deletable = {}
  TheDump = "table"
  TheTarget = t1
SPECIFICATION Spec
INVARIANTS
  TypeOK
  ResumePointCovered
  SuccessMeansRestored
  VerdictsAgree
  OffsetsBounded
  RowKeepsDsn
  InOrder
PROPERTIES
  OffsetMonotone
  ImplementsAbstractRestore
