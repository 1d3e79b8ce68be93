CONSTANT MaxFaults = 2
SPECIFICATION Spec
INVARIANTS
  TypeOK
  ReplayAccepted
PROPERTY BystandersStay
