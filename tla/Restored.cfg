CONSTANTS
  Runs = {r1}
  Processes = {{r1}}
  Dumps = {"table"}
  Idents = {"table"}
  Ident <- MCIdent
  Size <- MCSize
  Dsns = {t1}
  NoDsn = NoDsn
  Modes <- PlainModes
  DefaultMode <- MCDefaultMode
  Cuts <- PlainCuts
  BatchStmts = 9
  BatchBytes = 90
  Cap = 2
  MaxCrashes = 2
  MaxFaults = 2
  Deletable = {}
  TheDump = "table"
  TheTarget = t1
SPECIFICATION PersistentSpec
PROPERTIES
  EventuallyRestored
