SPECIFICATION FairSpec
CONSTANTS
  Id = {a, b}
  Gone = Gone
  MaxTombstones = 1
  Client = {c1}
  MaxVersion = 3
  MaxChanges = 2
  MaxFaults = 1
  Value <- AllValues
INVARIANTS
  TypeOK
  ReadIsComplete
  LiveIsCurrent
  
PROPERTY Converges
CHECK_DEADLOCK FALSE
