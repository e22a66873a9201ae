SPECIFICATION FairSpec
CONSTANTS
  o1 = o1
  o2 = o2
  o3 = o3
  o4 = o4
  a1 = a1
  Op = {o1, o2}
  Autonomous = {a1}
  NoTurn = NoTurn
  Kinds = {"stream", "replace", "steer", "stop"}
  CanSteer = TRUE
  MayRefuse = TRUE
  PromptTasks = TRUE
  MaxOutput = 0
  FinalizedLimit = 1
INVARIANTS
  TypeOK
  OneForegroundTurn
  ForegroundIsTracked
  HoldHasOwner
  UndisturbedAgentIsFree
PROPERTIES
  CancelledTurnsAreOver
  EveryCallReturns
