\* The user pauses while an agent runs.
SPECIFICATION Spec
CONSTANTS
  a = a
  b = b
  c = c
  NoSession = NoSession
  Loop = Loop
  StepSeq <- OneStep
  BlockedBy <- Independent
  Session = {s1, s2}
  Worker = {w1, w2}
  MaxAgents = 2
  MaxRetries = 1
  PauseOnFailure = FALSE
  AutoRebase = TRUE
  ZeroCommitOracle = FALSE
  Faults = {}
  UserOps = {"pause"}
  MaxOps = 1
SYMMETRY Symmetry
PROPERTIES
  PauseKeepsAgents
\* run() returns: the system may stop.
CHECK_DEADLOCK FALSE
