\* Two requests for the same branch: the second one finds it merged already.
SPECIFICATION Spec
CONSTANTS
  r1 = r1
  r2 = r2
  r3 = r3
  r4 = r4
  main = main
  release = release
  x = x
  y = y
  c = c
  Req = {r1, r2}
  Branch = {main, release, x, y}
  Extra = {c}
  Source <- SameSource
  Target <- SameTarget
  RunTests <- AllTests
  Validations = 1
  Start <- Fresh
  Faults = {"validation"}
  Busy = {}
  MaxOps = 0
INVARIANTS
  SucceededStays
\* All requests may have been decided: the system may stop.
CHECK_DEADLOCK FALSE
