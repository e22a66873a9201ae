SPECIFICATION Spec
CONSTANTS
  o1 = o1
  o2 = o2
  o3 = o3
  o4 = o4
  a1 = a1
  Op = {o1, o2, o3}
  Autonomous = {}
  NoTurn = NoTurn
  Kinds = {"stream", "replace", "stop"}
  CanSteer = FALSE
  MayRefuse = FALSE
  PromptTasks = TRUE
  MaxOutput = 0
  FinalizedLimit = 1
INVARIANTS
  QuietAgentIsFree
