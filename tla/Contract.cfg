CONSTANTS
  Runs = {r1}
  Processes = {{r1}}
  Dumps = {"table", "locked"}
  Idents = {"table", "locked"}
  Ident <- MCIdent
  Size <- MCSize
  Dsns = {NoDsn, t1}
  NoDsn = NoDsn
  Modes <- MCModes
  DefaultMode <- MCDefaultMode
  Cuts <- MCCuts
  BatchStmts = 2
  BatchBytes = 3
  Cap = 2
  MaxCrashes = 1
  MaxFaults = 1
  Deletable = {"table"}
  TheDump = "table"
  TheTarget = t1
SPECIFICATION Spec
INVARIANTS
  NoSilentClose
PROPERTIES
  ImplementsEventSource
CHECK_DEADLOCK FALSE
