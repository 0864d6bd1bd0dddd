\* The agent ends while the user pauses and resumes.
SPECIFICATION Spec
CONSTANTS
  a = a
  b = b
  c = c
  NoSession = NoSession
  Loop = Loop
  StepSeq <- OneStep
  BlockedBy <- Independent
  Session = {s1, s2}
  Worker = {w1, w2}
  MaxAgents = 1
  MaxRetries = 1
  PauseOnFailure = FALSE
  AutoRebase = TRUE
  ZeroCommitOracle = FALSE
  Faults = {}
  UserOps = {"pause", "resume"}
  MaxOps = 2
SYMMETRY Symmetry
INVARIANTS
  HandlersWriteToPlan
\* run() returns: the system may stop.
CHECK_DEADLOCK FALSE
