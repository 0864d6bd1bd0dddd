\* The same plan where nothing fails and nobody intervenes.
SPECIFICATION GatesSpec
CONSTANTS
  c1 = c1
  c2 = c2
  x = x
  Loop = Loop
  Step = {c1, c2, x}
  Child = {c1, c2}
  Asked = {}
  Stages = 2
  StageOf <- ChildrenFirst
  MaxAgents = 2
  Config <- Configs
  Fault = {}
  Call = {}
  MaxCalls = 0
INVARIANT
  DoneIsDelivered
\* A cautious plan waits for the user after its first stage.
CHECK_DEADLOCK FALSE
