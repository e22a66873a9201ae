SPECIFICATION Spec
CONSTANTS
  Limit = 1
  MaxRows = 3
  MaxEpochs = 2
  MaxFaults = 0
  MaxSwitches = 1
  MaxEvents = 1
INVARIANT ReadyIsAlwaysCurrent
CHECK_DEADLOCK FALSE
