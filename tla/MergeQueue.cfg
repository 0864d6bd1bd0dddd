\* Four requests, one of which merges what the others produce, and two of which
\* merge the same branch; every command may fail, every request may be cancelled,
\* an agent goes on committing.
SPECIFICATION FairSpec
CONSTANTS
  r1 = r1
  r2 = r2
  r3 = r3
  r4 = r4
  main = main
  release = release
  x = x
  y = y
  c = c
  Req = {r1, r2, r3, r4}
  Branch = {main, release, x, y}
  Extra = {c}
  Source <- FourSources
  Target <- FourTargets
  RunTests <- SomeTests
  Validations = 2
  Start <- Fresh
  Faults = {"checkout", "merge", "validation"}
  Busy = {x, y}
  MaxOps = 1
INVARIANTS
  TypeOK
  OneMergeAtATime
  NoneForgotten
PROPERTIES
  KeepsPromise
  AllEnd
\* All requests may have been decided: the system may stop.
CHECK_DEADLOCK FALSE
