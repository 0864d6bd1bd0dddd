\* An integration branch is merged while a step of another one is; nothing fails.
SPECIFICATION Spec
CONSTANTS
  plain = plain
  child = child
  other = other
  final = final
  main = main
  integ = integ
  part = part
  NoBranch = NoBranch
  Job = {other, final}
  Branch = {main, integ, part}
  Home = main
  Given <- Targets
  Final = {final}
  Exclusive = {}
  Change = {c1}
  Faults = {}
INVARIANTS
  LandsInTarget
\* All calls may have returned: the system may stop.
CHECK_DEADLOCK FALSE
