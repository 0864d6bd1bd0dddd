\* One step and a user who makes up to two calls at any moment.
SPECIFICATION Spec
CONSTANTS
  a = a
  b = b
  c = c
  NoSession = NoSession
  Loop = Loop
  StepSeq <- OneStep
  BlockedBy <- Independent
  Session = {s1, s2}
  Worker = {w1, w2}
  MaxAgents = 1
  MaxRetries = 0
  PauseOnFailure = TRUE
  AutoRebase = TRUE
  ZeroCommitOracle = TRUE
  Faults = {"spawn"}
  UserOps = {"pause", "resume", "skip", "retry", "kill", "close", "stop", "stall"}
  MaxOps = 2
SYMMETRY Symmetry
INVARIANTS
  Attended
\* run() returns: the system may stop.
CHECK_DEADLOCK FALSE
