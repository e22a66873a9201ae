SPECIFICATION Spec
CONSTANTS
  Id = {a, b}
  Gone = Gone
  MaxTombstones = 1
  Client = {c1, c2}
  MaxVersion = 2
  MaxChanges = 2
  MaxFaults = 0
  Value <- AllValues
INVARIANT RefreshIsComplete
CHECK_DEADLOCK FALSE
