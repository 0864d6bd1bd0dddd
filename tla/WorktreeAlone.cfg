\* Calls with a target overlap with no other; everything may fail but the way back.
SPECIFICATION Spec
CONSTANTS
  plain = plain
  child = child
  other = other
  final = final
  main = main
  integ = integ
  part = part
  NoBranch = NoBranch
  Job = {plain, child, other, final}
  Branch = {main, integ, part}
  Home = main
  Given <- Targets
  Final = {final}
  Exclusive = {child, other}
  Change = {c1, c2}
  Faults = {"conflict", "merge", "stash", "checkout", "pop"}
INVARIANTS
  TypeOK
  LandsInTarget
  ReportsTruth
  TreeRestored
PROPERTIES
  ChangesKept
\* All calls may have returned: the system may stop.
CHECK_DEADLOCK FALSE
