\* One agent of either backend, one subscriber; nothing fails.
SPECIFICATION Spec
CONSTANTS
  Session = {a1}
  NoSession = NoSession
  Backend = {"claude-code", "opencode"}
  Caller = {c1}
  StoreFaults = {}
  MaxEvents = 3
  Agent = {a1}
  Subscriber = {u1}
  MaxMessages = 1
  MaxTurns = 1
INVARIANTS
  TurnEndDelivers
\* Sessions end: the system may stop.
CHECK_DEADLOCK FALSE
