CONSTANTS
  Items = {x, y, z}
  MaxPending = 2
  MaxFaults = 1
SPECIFICATION Spec
INVARIANTS
  TypeOK
  ActsOnShown
  CursorOnList
  FreshWhenSettled
CHECK_DEADLOCK FALSE
