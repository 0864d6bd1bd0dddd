\* The user's stages need not list every step.
SPECIFICATION PlannerSpec
CONSTANTS
  t1 = t1
  t2 = t2
  t3 = t3
  engineer = engineer
  qa = qa
  u = u
  v = v
  None = None
  Ticket = {t1, t2, t3}
  Role = {engineer, qa}
  Subtask = {u, v}
  Inputs <- AllInputs
  MaxStages = 2
  ListsAll = FALSE
  MaxClosed = 0
INVARIANT
  NotStagedBeforeDeps
CHECK_DEADLOCK FALSE
