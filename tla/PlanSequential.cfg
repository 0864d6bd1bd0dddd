\* One agent at a time; c waits for a and b; what has been started may fail,
\* a failure pauses the plan.
SPECIFICATION FairSpec
CONSTANTS
  a = a
  b = b
  c = c
  NoSession = NoSession
  Loop = Loop
  StepSeq <- ThreeSteps
  BlockedBy <- Join
  Session = {s1, s2}
  Worker = {w1, w2}
  MaxAgents = 1
  MaxRetries = 1
  PauseOnFailure = TRUE
  AutoRebase = TRUE
  ZeroCommitOracle = FALSE
  Faults = {"verify", "merge", "conflict", "rebase"}
  UserOps = {}
  MaxOps = 0
INVARIANTS
  TypeOK
  StepsSound
PROPERTIES
  DependenciesRespected
  LandsVerified
  Settles
\* run() returns: the system may stop.
CHECK_DEADLOCK FALSE
