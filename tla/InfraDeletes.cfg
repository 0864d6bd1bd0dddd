\* kubectl fails for one list of a pod that is there.
SPECIFICATION Spec
CONSTANTS
  Session = {a1}
  NoSession = NoSession
  Backend = {"claude-code", "opencode"}
  Caller = {c1, c2}
  StoreFaults = {"progress"}
  MaxEvents = 3
  MaxChanges = 4
  MaxForms = 3
PROPERTIES
  DeletedIsGone
\* Sessions end and watchers are disposed of: the system may stop.
CHECK_DEADLOCK FALSE
