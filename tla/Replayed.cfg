CONSTANTS
  Runs = {r1}
  Processes = {{r1}}
  Dumps = {"table"}
  Idents = {"table"}
  Ident <- MCIdent
  Size <- MCSize
  Dsns = {t1}
  NoDsn = NoDsn
  Modes <- PlainModes
  DefaultMode <- MCDefaultMode
  Cuts <- PlainCuts
  BatchStmts = 2
  BatchBytes = 3
  Cap = 2
  MaxCrashes = 1
  MaxFaults = 1
  Deletable = {}
  TheDump = "table"
  TheTarget = t1
SPECIFICATION PersistentSpec
PROPERTIES
  EventuallyRestored
