\* A session of either backend that two callers may stop at any moment, the
\* event store refusing what it likes of one kind; a CI run and a pod that change.
SPECIFICATION FairSpec
CONSTANTS
  Session = {a1}
  NoSession = NoSession
  Backend = {"claude-code", "opencode"}
  Caller = {c1, c2}
  StoreFaults = {"progress"}
  MaxEvents = 3
  Status = {"queued", "running", "success"}
  MaxChanges = 4
  MaxForms = 3
INVARIANTS
  HeardTypeOK
  EndsRightly
PROPERTIES
  NothingAfterStopped
  EndIsAnnounced
  CatchesUp
\* Sessions end and watchers are disposed of: the system may stop.
CHECK_DEADLOCK FALSE
