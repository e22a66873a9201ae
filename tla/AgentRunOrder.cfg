SPECIFICATION Spec
CONSTANTS
  o1 = o1
  o2 = o2
  o3 = o3
  o4 = o4
  a1 = a1
  Op = {o1, o2}
  Autonomous = {}
  NoTurn = NoTurn
  Kinds = {"stream", "replace", "steer", "stop"}
  CanSteer = TRUE
  MayRefuse = TRUE
  PromptTasks = FALSE
  MaxOutput = 2
  FinalizedLimit = 1
INVARIANTS
  TimelineInOrder
