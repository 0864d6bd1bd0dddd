\* Three tickets with any dependencies, epics, teams and subtasks; one of them
\* is closed by others, any step may fail or be skipped.
SPECIFICATION PlannerSpec
CONSTANTS
  t1 = t1
  t2 = t2
  t3 = t3
  engineer = engineer
  qa = qa
  u = u
  v = v
  None = None
  Ticket = {t1, t2, t3}
  Role = {engineer, qa}
  Subtask = {u, v}
  Inputs <- AllInputs
  MaxStages = 2
  ListsAll = TRUE
  MaxClosed = 1
INVARIANTS
  PlannerTypeOK
  OrderKept
  NeverStuck
PROPERTY
  ClosedWhenOver
\* The plan is over, or something has failed.
CHECK_DEADLOCK FALSE
