SPECIFICATION FairSpec
CONSTANTS
  jwt = jwt
  p1 = p1
  p2 = p2
  Key = {jwt}
  Op = {1, 2, 3}
  Note = Note
  Project = {p1, p2}
  Home <- MCHome
  Everywhere = Everywhere
  NoOp = NoOp
  During = {}
  MaxCallFaults = 2
  MaxCrashes = 1
  MaxFaults = 1
  MaxTroubles = 3
INVARIANTS TypeOK AnsweredIsKept 
PROPERTIES  CallsKeepHeading EveryCallReturns
CHECK_DEADLOCK FALSE
