\* A router with an agent, two scheduled tasks, two services that ask for one
\* port, and a plan that two clients command: one of the four in each behaviour.
SPECIFICATION Spec
CONSTANTS
  Agent = {a1}
  Subscriber = {u1}
  MaxMessages = 3
  MaxTurns = 2
  Task = {t1, t2}
  Rare = {t1}
  MaxExecuting = 2
  web = web
  api = api
  Service = {web, api}
  NoService = NoService
  Base <- OnePort
  Depends <- ApiOnWeb
  Offset = 100
  Attempts = 4
  Reserved = {3100}
  EnvClient = {e1, e2}
  MaxStrays = 1
  MaxEnvCalls = 2
  Plan = {p1}
  Run = {r1, r2, r3}
  NoRun = NoRun
  HostClient = {h1, h2}
  MaxHostCalls = 3
INVARIANTS
  ServicesTypeOK
  Routed
  Scheduled
  PortsApart
  PlansRunOnce
\* All calls may have been made: the system may stop.
CHECK_DEADLOCK FALSE
