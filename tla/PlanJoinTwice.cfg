\* Two agents at once; c waits for a and b; nothing fails.
SPECIFICATION Spec
CONSTANTS
  a = a
  b = b
  c = c
  NoSession = NoSession
  Loop = Loop
  StepSeq <- ThreeSteps
  BlockedBy <- Join
  Session = {s1, s2}
  Worker = {w1, w2}
  MaxAgents = 2
  MaxRetries = 0
  PauseOnFailure = FALSE
  AutoRebase = TRUE
  ZeroCommitOracle = FALSE
  Faults = {}
  UserOps = {}
  MaxOps = 0
SYMMETRY Symmetry
INVARIANTS
  OneAgentPerStep
\* run() returns: the system may stop.
CHECK_DEADLOCK FALSE
