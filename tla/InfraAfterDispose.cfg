\* A list is under way when the watch is disposed of.
SPECIFICATION Spec
CONSTANTS
  Session = {a1}
  NoSession = NoSession
  Backend = {"claude-code", "opencode"}
  Caller = {c1, c2}
  StoreFaults = {"progress"}
  MaxEvents = 3
  MaxChanges = 4
  MaxForms = 3
PROPERTIES
  QuietAfterDispose
\* Sessions end and watchers are disposed of: the system may stop.
CHECK_DEADLOCK FALSE
