\* One step whose branch conflicts with commits that others make to main.
SPECIFICATION FairSpec
CONSTANTS
  a = a
  b = b
  c = c
  NoSession = NoSession
  Loop = Loop
  StepSeq <- OneStep
  BlockedBy <- Independent
  Session = {s1, s2}
  Worker = {w1, w2}
  MaxAgents = 2
  MaxRetries = 1
  PauseOnFailure = FALSE
  AutoRebase = TRUE
  ZeroCommitOracle = FALSE
  Faults = {"verify", "merge", "conflict", "rebase"}
  UserOps = {"commit"}
  MaxOps = 5
PROPERTIES
  WorkIsKept
\* run() returns: the system may stop.
CHECK_DEADLOCK FALSE
