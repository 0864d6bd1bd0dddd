\* Two children of an integration branch (alike, or one after the other) and
\* a step to be confirmed, in two stages; anything but the merge of the
\* confirmed step may fail, the start of an agent included, and one thing out
\* of the user's calls and a crash may happen at any moment.
SPECIFICATION GatesSpec
SYMMETRY Symmetry
CONSTANTS
  c1 = c1
  c2 = c2
  x = x
  Loop = Loop
  Step = {c1, c2, x}
  Child = {c1, c2}
  Asked = {x}
  Stages = 2
  StageOf <- ChildrenFirst
  MaxAgents = 2
  Config <- Configs
  Fault = {"start", "step", "merge", "gateTests", "gate", "landing", "smoke"}
  Call = {"retry", "advance", "confirm", "reject", "resume", "pause", "skip", "crash"}
  MaxCalls = 1
INVARIANTS
  GatesTypeOK
  NothingLeftReady
  StagesInOrder
  NoneLost
\* The plan is done, or has failed, or waits for the user.
CHECK_DEADLOCK FALSE
