\* Two independent steps at once, each tried once: handlers overlap, starts and
\* what has been started may fail, the user may pause.
SPECIFICATION FairSpec
CONSTANTS
  a = a
  b = b
  c = c
  NoSession = NoSession
  Loop = Loop
  StepSeq <- TwoSteps
  BlockedBy <- Independent
  Session = {s1, s2}
  Worker = {w1, w2}
  MaxAgents = 2
  MaxRetries = 0
  PauseOnFailure = TRUE
  AutoRebase = TRUE
  ZeroCommitOracle = FALSE
  Faults = {"spawn", "verify", "merge"}
  UserOps = {"pause"}
  MaxOps = 1
INVARIANTS
  VerificationsCounted
  PlanOver
PROPERTIES
  OwnTree
  PlanEnds
  PauseHolds
\* run() returns: the system may stop.
CHECK_DEADLOCK FALSE
