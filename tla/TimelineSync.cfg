SPECIFICATION FairSpec
CONSTANTS
  Limit = 1
  MaxRows = 3
  MaxEpochs = 2
  MaxFaults = 1
  MaxSwitches = 1
  MaxEvents = 1
INVARIANTS TypeOK PagesAreComplete RangeIsHeld ReadyIsCurrent StartIsReachable DetachedHasOwner
PROPERTIES NeverBack CatchesUp
CHECK_DEADLOCK FALSE
