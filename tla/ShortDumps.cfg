CONSTANTS
  Inputs <- Dumps
  MaxFaults = 1
SPECIFICATION Spec
INVARIANTS
  TypeOK
  SlicesOfDump
  TrueBoundaries
  ChunkIndependent
  DelimiterConsumed
CHECK_DEADLOCK FALSE
