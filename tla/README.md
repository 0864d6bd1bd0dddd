# A TLA+ model of opcom

opcom runs coding agents for a developer: it turns tickets into a *plan*, starts
an agent per step of the plan in a git worktree of its own, verifies what the
agent committed, merges it and goes on with the steps that waited for it. Around
that executor there is a server (the station) that manages agent sessions,
merge requests, service processes, schedules and messages.

This directory holds TLA+ modules for the parts of the code in which several
things happen at once, TLC configurations that check them on small instances,
and TLAPS proofs for every value of the constants.

    tlasany M.tla                      parse a module
    tlc -config X.cfg MCX              check a configuration with the module
                                       that "The runs" names for it
    tlapm PlanExecutorProofs.tla       check the proofs of a module

`PROJECT.json` lists components, runs, mutants, hazards, findings and theorems,
and maps every definition to the lines it models.

## Inventory

All paths are below `src/packages/core/src` unless they say otherwise.

| Component | State | Operations | Interacts with | Hard behaviour, and what makes it correct |
|---|---|---|---|---|
| Executor (`orchestrator/executor.ts`) | plan and its steps, event queue, `running`, `activeVerifications`, `sessionToStep` | `run`, events (agent_completed, pause, resume, skip, retry, stages, confirmations, stall checks), `handleWorktreeCompletion`, `handleAutoRebase`, `recomputeAndContinue`, `startReadySteps` | planner, WorktreeManager, SessionManager, ticket files | completion handlers are not awaited: they and the event loop interleave at every await. Steps are started once and within the limit, blockers respected, only verified work lands, nothing is forgotten, the loop ends |
| Planner (`orchestrator/planner.ts`) | none | `computePlan`, `recomputePlan`, tracks, stages, team and subtask expansion, cycle detection | executor | splitting tickets must not loosen what waits for them; object identity in `recomputePlan`; a plan never waits for a step that does not exist |
| WorktreeManager (`orchestrator/worktree.ts`) | map of worktrees, lock files, branches, the project's main tree | `create`, `writeLock`, `remove`, `merge`, `attemptRebase`, `hasCommits`, `restore`, `cleanupOrphaned`, integration branches | git | the main tree is shared; a worktree with a live agent is never removed; unmerged commits are kept |
| Reconcile, persistence (`orchestrator/reconcile.ts`, `persistence.ts`) | plan files | load, save, reconcile | executor, station | statuses of a saved plan lag behind git and the tickets; several writers |
| Stall detector, smoke test | progress timestamps; none | `check*`; `runSmokeTest` | executor | a stalled plan is paused with its agents at work, and resume has to find them again |
| SessionManager (`agents/session-manager.ts`) | sessions, adapters, listeners, descriptors on disk | `startSession`, `stopSession`, `promptSession`, `consumeEvents`, `shutdown` | adapters, executor, station | a session ends by itself and is stopped at once; its end is announced, last and always |
| Agent adapters (`agents/claude-code.ts`, `opencode.ts`) | processes, event queues | `start`, `prompt`, `stop`, `subscribe` | SessionManager | output is read to its end before the end is announced; the session object is shared with the SessionManager |
| MessageRouter (`agents/message-router.ts`) | queues, agent states, subscribers | `send`, `setAgentState`, `subscribe`, `clearAgent` | station | a message is delivered once, in order, or still queued |
| MergeCoordinator (`server/merge-coordinator.ts`) | queue of requests, `processing` | `requestMerge`, `cancelRequest`, `processQueue` | git, validation commands | one merge at a time, all or nothing, none forgotten; a rollback takes back what the request made |
| ProcessManager, EnvironmentManager, HealthChecker (`server/`) | processes, ports, health | start, stop, status | port registry | late exits, double starts, results that come late; processes have different ports |
| Port registry (`config/port-registry.ts`) | a file | load, allocate, save | ProcessManager | two allocations at once |
| Scheduler, heartbeat (`scheduling/`) | tasks, timers | add, remove, enable, disable, start, stop, execute | command line | a task changes while it runs; a schedule may have no next run, which throws; a task keeps one timer |
| Station (`server/station.ts`) | map of executors, sockets | HTTP and WebSocket routes | everything above | requests race with executors that end late; one executor per plan |
| Channel router (`channels/`) | sessions of senders | route a message | station | |
| CI/CD poller (`integrations/cicd-poller.ts`, `github-actions.ts`) | cached runs, watchers, what each saw last | track, dispose, seed, poll | station | snapshot, seed and polls see different moments |
| Infrastructure watcher (`infra/kubernetes.ts`) | last state of each resource, a kubectl, a timer | watch, poll, dispose | station, TUI | lines and lists overtake each other; a list may fail |
| Event store, state store | SQLite, files | insert, query | executor, sessions | no control to speak of |
| Context graph (`../../context-graph`), detection, config, templates, skills, cloud adapters, CLI and TUI | files, database, views | | | input and output |

### Where the hard behaviour is

* **Interleaving.** `handleEvent("agent_completed")` starts
  `handleWorktreeCompletion` without waiting for it (executor.ts:510-525). Each
  handler ends in `recomputeAndContinue`, which replaces the plan and starts
  agents, while the loop may be in the same function for a pause, a resume or a
  skip. Between two awaits everybody else may run.
* **Stale objects.** `recomputePlan` keeps the objects of sticky steps and copies
  the others (planner.ts:593-633). A fiber that held a copied step goes on to
  write to an object outside the plan.
* **Counters and wake-ups.** The loop ends by looking at `activeVerifications`
  and the statuses; it looks only when an event wakes it.
* **Failure.** Agents, verifications, merges, rebases and starts can fail; each
  has a path of its own, with or without pausing the plan.
* **Gates.** A stage, an integration branch and a plan each end with a test that
  is awaited; the recomputations of other fibers go on, and a crash may leave any
  of it half done on disk.
* **Late ends.** Processes, sessions and executors are asked to stop and end
  later, when their place in a map may already be another one's.
* **Shared git repository.** Merges of several steps, of the merge queue and of
  people meet in one working tree.

## The modules

| Module | What it is |
|---|---|
| `PlanExecutor` | the executor, `recomputePlan`, and what WorktreeManager, SessionManager, git and the agents do as far as it depends on them |
| `MCPlanExecutor` | its plans and symmetries for TLC |
| `PlanExecutorProofs`, `PlanSequenceProofs` | theorems about it: types, the counter of handlers, one agent at a time, and all steps at once |
| `WorktreeMerge` | the git commands inside `WorktreeManager.merge` and `mergeIntegrationBranch`, of several calls and a user in one working tree |
| `MCWorktreeMerge` | its branches and calls for TLC |
| `WorktreeMergeProofs` | theorems about it |
| `MergeCoordinator` | the merge queue |
| `MergePromise` | what its clients may rely on: the abstract specification it implements |
| `MCMergeCoordinator` | its repositories and requests for TLC |
| `MergeCoordinatorProofs` | theorems about it |
| `PlanGates`, `MCPlanGates`, `PlanGatesProofs` | the gates of a plan: stages, integration branch, confirmation, restart; theorems about them |
| `Planner`, `MCPlanner` | from tickets to a plan and through its steps |
| `PlannerProofs` | theorems about it: the order of tickets, when parents are closed |
| `AgentSession` | a session: process, adapter, SessionManager |
| `CicdPoller`, `InfraWatcher` | what the station knows of CI runs, and of pods |
| `MCSessions`, `SessionProofs` | these three side by side, for TLC; theorems about them |
| `MessageRouter` | messages between agents |
| `Scheduler` | scheduled tasks |
| `Environment` | services, processes and the port registry |
| `PlanHost` | the station's executors, plan files and commands |
| `MCServices`, `ServicesProofs` | the four of them side by side, for TLC; theorems about each |
| `Station`, `MCStation` | AgentSession and MessageRouter composed, as the station wires them |

The operators whose comment says *mutant of* are not part of the models: each is
a plausible bug in the operator it precedes, and the property it is listed with
in `PROJECT.json` must fail when it takes that operator's place.

### PlanExecutor

**State.** `step` holds the step objects that are in the plan (status, session,
attempt, rebase attempts, whether `worktreePath` and `rebaseConflict` are set).
`planStatus`, `running`, `queue`, `active` and `mapped` are `plan.status`,
`Executor.running`, `eventQueue`, `activeVerifications` and the keys of
`sessionToStep`. `sess` is what SessionManager knows of each session, `closed`
the ticket files that say closed, `git` what git and the file system know of
each step: directory, lock, tracking, and the branch relative to main.

`fib` is what JavaScript keeps in its stacks: for the event loop (`Loop`) and
for each completion handler (`Worker`) where it waits, and the step objects it
holds. A held object is an entry that says which step it is of and whether it is
`stale`, in which case the entry carries the object itself: `Recompute` makes
the entries of the steps it copies stale, `Become` assigns to the held object
and reaches the plan only if it is not stale.

**Actions.** An action is the code between two awaits:

* `Recompute`, `StartReadySteps`, `CreateWorktree`, `InstallDone`, `SpawnAgent`,
  `SpawnFails`, `TestComplete`, `SmokeTestDone`, `FinishPlan`, `EndRecompute`
  are `recomputeAndContinue` and what it calls, in any fiber;
* `CheckWork`, `Arbitrate`, `DiscardEmpty`, `PauseAfterFailure`, `Verify`,
  `Merge`, `Rebase`, `Reverify`, `Remerge`, `QuickRebase`, `RemoveWorktree`,
  `VerificationOver` are a completion handler;
* `LoopWaits`, `LoopExits` and the `Handle...` actions are the loop and its
  events; `StallTimer` pushes the stall check that `HandleStall` makes;
* `AgentCommit`, `AgentExit`, `StopNoticed` are the agents and SessionManager;
  the `User...` actions are calls of the station or the TUI, somebody closing a
  ticket and somebody committing to main.

`LoopIsNext` says that the loop goes on in a microtask, before any I/O of
another fiber completes, when it has handled an event or an event arrives.

**Left out, or merged.** Worktree mode only; verification with tests or oracle
only. Stages, integration branches, confirmation and restart are in PlanGates;
the modes none and output-exists, the shared worktrees of swarms and teams, and
the stall signals of single steps (a display) are not modelled. A stall check may
find the plan stalled whenever a step is in progress or in verification: the clock
is left out. The order in which steps are started (priority, strategy) is any
order. Saving the plan, reading the project and changing tickets are awaits
without an effect of their own and belong to the neighbouring action, except
where another fiber could tell the difference (before `StartReadySteps`, and
between a failure and the pause that follows it). A handler that throws is not
modelled. Reading the tickets is one with using them: tickets only go from open
to closed.

**Bounds.** Session identities are reused once nothing refers to them (`Unused`);
a handler that finds no free worker slot waits for one (`SlotsNeeded`); the user
makes at most `MaxOps` calls. The queue is bounded by these.

### WorktreeMerge

PlanExecutor takes `merge()` as one step. This module opens it: every git command
is an await (worktree.ts:277-349), the commands all work in the project's main
tree, and the calls of several handlers interleave.

**State.** `call` holds the local variables of each call (`target`,
`previousBranch`, `stashed`, the result) and the command it waits for; `head`,
`tree`, `stash` and `merging` are git's: the branch that is checked out, the
user's uncommitted changes, the stash, and whether a conflicting merge is neither
committed nor aborted. `log` says which calls' branches each branch has received.
A call in `Final` is one of `mergeIntegrationBranch()` without a target, as the
executor makes it (executor.ts:2757).

**Actions.** One per git command, from `AskTarget` to `Pop`; `Finish`, `Back` and
`Pop` are `restoreTree`. Which command fails is in `Faults`; some failures need no
fault, because git refuses to stash, check out or merge while a merge is
unfinished. `UserEdit` is the user changing a file. `Exclusive` is an assumption
on the schedule and not code: such a call overlaps with no other. All calls are
plain (no target, not exclusive) in a plan without integration branches, whatever
the number of agents, which is what PlanExecutor models: then every interleaving
is allowed, and merging in one step is justified by `LandsInTarget` and
`ReportsTruth`. What one step hides is that a call that meets another one's
unfinished conflict fails although it has none of its own; PlanExecutor has that
as its fault `merge`. With integration branches the assumption holds with one
agent and one handler at a time, and nothing in the code enforces it.

**Left out.** The user switches no branches and commits nothing; the tree is
never in a detached state; `git merge --abort`, the two `rev-parse` and `status`
always work; the amending commit of `removeInternalFiles()` is in the worktree of
the step and part of `Begin`; a call for a worktree that is not tracked returns
at once without touching anything.

### MergeCoordinator

`status`, `queue` and `processing` are the fields of the code; `job` is where
`executeMerge` waits for each request, `log` the branches of the repository,
each a sequence of first-parent commits, a commit being the set of what it adds,
and `head` the branch that is checked out. `TakeNext` is the head of
`processQueue`'s loop; it runs within `RequestMerge` and at the end of each
request (`Finish`), as it does in the code, without an await in between. One
action per git command and per validation. `OtherCommit` is somebody else, such
as an agent, committing to a branch in `Busy`, at most `MaxOps` times; git is
external, and its branches, merges and resets are modelled by what the code
relies on. Listeners are not modelled: nobody registers one, and one that throws
would leave `processing` set. `autoMerge` is not modelled because it makes no
difference in the code: the comment at merge-coordinator.ts:186 leaves a request
without it "running", but `processQueue` sets its status right after.

`MergePromise` says what a client sees: requests that are decided one by one and
for good (`Submit`, `Accept`, `Refuse`); a request that succeeds brings into its
target, all at once and in one commit, everything that its source contained at one
moment before (`Take`). `TakeBack` is what the code does beyond that: the rollback is
`git reset --hard HEAD~1` whether or not the merge made a commit
(merge-coordinator.ts:159, 206), so a request that found nothing to merge, and fails
its validation, takes the target's last commit with it, whoever made that. `Develop`
is others committing to the branches that are `Open`. The refinement hides a merge
that is not validated yet (`Settled`, `Brings`), the way back that follows a rollback
(`Outcome`), and the state running.

The executor does not use this queue (it merges with `WorktreeManager.merge`); it is
exported for clients of the package, and only the tests call it.

### PlanGates

PlanExecutor has the work on a step; here that work is two steps (`FirstStart` or
a recomputation chooses it, `Start` starts it, `AgentCompleted` ends it) and what is opened is
`recomputeAndContinue` with the gates in it.

**State.** `status`, `planStatus`, `stage`, `stageStatus` are the plan in memory,
`saved` the plan file. `finalized` is whether the branch is in
`finalizedIntegrationBranches`, `branch` whether it exists in git, and `work` where
the commits of each step are: in its worktree, in the integration branch, in main,
or `lost`; a worktree that the executor's WorktreeManager does not know, after a
restart, is `stray`. `job` is where each fiber waits: a completion handler of a step,
or `Loop`. `chosen` is `toStart`, what a fiber in `startReadySteps` has still to start.
`early` says that the user has left a stage before it was over, `missed` counts the
starts that have failed since steps were last chosen.

**Actions.** `Tickets`, `Project`, `Gate`, `Land`, `Delete`, `Save`, `StageSmoke`,
`Start` and `PlanSmoke` are the pieces of `recomputeAndContinue` between its awaits,
with `checkIntegrationBranchCompletion`, `runFinalIntegrationGate`,
`checkStageCompletion` and `startReadySteps`; any number of fibers are in them at
once. `Choose` counts the free slots and chooses the steps, `Start` is one start: it
succeeds, or it throws, and then the step has failed and the next one is started
(executor.ts:2377-2383), without a pause, a save or a recomputation. A completion
handler ends in `Lands`, `Conflicts`, `Retries`, `Fails`, `Throws` (the merge throws:
the step fails and nothing is paused) or `Asks`. `Handles` and the
actions after it are events of the user; `Confirm` and `Confirmed` are the two
halves of `confirm_step`, whose merge is awaited between them. `Restart` is a crash
at any moment: memory and worktree tracking go, git and the plan file stay, and
`Reconciled` and `Recovered` are what `reconcilePlans()` and the beginning of
`run()` make of it: only the worktrees of steps that are verified again are tracked.
A step that is confirmed with a stray worktree is done without being merged
(worktree.ts:279); its commits stay on its branch, and are not counted as lost.

**Assumed.** No other fiber reads the tickets, or chooses steps, while one starts
agents (`Starting`): two that do may start a step twice, which PlanExecutor has
(`PlanJoinTwice`). One integration branch, one plan, worktree mode, ticket transitions
on. `Gate` waits until no fiber is between its test of `finalized` and its note of
it, because reading a project's file is done long before a worktree has been made
and tests have run; without this guard two fibers run the gate and either may
report a conflict for what the other has merged. The fault `confirm` (the merge of
a confirmed step conflicts) is left out of the run: the code ignores the result and
removes the worktree (executor.ts:786-790), so `NoneLost` fails with it.

### Planner

An id of a step is a sequence of one or two names, as the code's `a/b` is.
`ComputePlan` makes the steps of a set of tickets: parents are no steps, teams and
subtasks expand (`ExpandTeams`, `ExpandSubtasks`), and what waits for a ticket is
rewritten. `InitializeStages` is the user's stages, stages by depth for `swarm`, or
the computed ones, which are always one stage: `allDepsInEarlierStages` counts
what is in the same track, and every ticket comes to be in one. Then `Work`,
`Skip`, `CloseTicket` and `Refresh` end steps in any order, each with the
recomputation that follows it; `NextStage` leaves a stage. Tickets are read again
at each recomputation, with what others closed.

Cyclic dependencies are not among the inputs (the planner never looks for cycles:
such steps stay blocked). Tracks and priorities order what may start, nothing else,
and are left out.

### AgentSession, CicdPoller and InfraWatcher

`AgentSession` has the process, the adapter (`buffer`, `attached`, `tracked`), the
SessionManager's consumer and the callers of `stopSession`. `state` is the session
object, which the adapter and the consumer both write; `seen` is what listeners
have been told. Exits, the end of reading, the safety timeout, the timeout of a
stop and file writes are I/O in any order; the consumer goes on in microtasks
before the next of them (`Settled`), except within one piece of output. What an
agent prints is any sequence of up to `MaxEvents` kinds of events.

`CicdPoller` is one run of one project, whose status comes back when it is run
again. `Snapshot` is `track()`, `SeedRead` and `PollRead` are the watcher of
`github-actions.ts`; each reads the ten latest runs and no others (`latest`,
`Listed`), and a poll compares the status with the one it has seen last, announcing
nothing of a run that it has not seen before. `first` remembers what the watcher saw
first. `refresh()` and `untrack()` are left out: only tests call them.

`InfraWatcher` is `watch()` of `kubernetes.ts` for one pod, whose forms are numbered.
`StreamLine` is the output of `kubectl --watch`, `ListReads` and `PollDone` are the
two ends of a poll's await: lines arrive between them. A line may be lost (it does
not parse) and a list may fail, which `listResources()` answers with no resources.

### MessageRouter and Station

The router's methods have no await; the model has one action per method, and
`turn` counts the ends of turns it has been told of. `Station` composes it with
`AgentSession`: the consumer's announcement of a state change is, in the same step,
the router's `setAgentState` (station.ts:130-137).

### Scheduler

One action per call, `Fire` for a timer and `Executed` for the end of a command.
`timer` is the entry in the map, `armed` how many timers of the task node holds:
the two differ as soon as an entry is overwritten without being cleared. A task may be
added enabled or disabled, and is armed either way (`addTask` does not look). The
schedule of a task in `Rare` may have no run within two years, at any call or never:
then `scheduleNext` throws after it has cleared the timer (scheduler.ts:104,
258-260), and `start()` gets no further (`StartThrows`); `skipped` are the enabled
tasks behind it in the list. In this repository only the command line makes a
scheduler, and it does not start it; the model has every call of its interface.

### Environment

`EnvironmentManager`, `ProcessManager` and the port registry: `registry` and `file`
are the allocations in memory and on disk, `loads` how many times the file has been
read, `envCall` where each call waits and what it does next, `strays` the processes
that nobody tracks any more. `GetRegistry` is the await: a call gets a `copy` of what
is in memory, or in the file, at that moment; `UseRegistry` goes on with the copy,
whatever others have allocated since, and makes its result the registry and then the
file. `astray` are the services whose port the registry no longer keeps for them:
another call has overwritten their allocation, or they were started or stopped while a
call or a process of theirs was still there. `Closed` and `StrayCloses` are late
exits, `Probed` is the look at a port, `HealthChecked` a health check whose service may
have been stopped since. Assumption `AttemptsSuffice`: some port is free within
`maxAttempts` tries (the code returns the last one unchecked otherwise).

### PlanHost

The map `executors` of the station, the plan files, commands from clients that wait
for a file (`hostCall`), and of each executor (`run`) what the station can notice:
whether it is starting, running or over, has been told to stop, and has handlers at
work. `early[p]` notes that a plan has been started over while a stopped executor
lingered, or resumed twice at once: there the code breaks its own rule (see below).


## The runs

Every property of a passing run has a mutant under which TLC finds it violated.

| Run (module) | Instance | Properties |
|---|---|---|
| `PlanSequential` (MCPlanExecutor) | three steps, c after a and b; one agent; one retry; `pauseOnFailure`; verification, merge and rebase fail; fair | `TypeOK` (no more than three rebases); `StepsSound`: attempts and agents bounded, done means landed; `DependenciesRespected`; `LandsVerified`; `Settles`: every step ends unless the plan is paused |
| `PlanOverlap` (MCPlanExecutor) | two independent steps and agents, each tried once; starts, verification and merge fail; `pauseOnFailure`, and the user pauses at any moment; fair | `VerificationsCounted`; `PlanOver`: done, or left by `run()`, only when nothing is left; `OwnTree`: one agent per worktree, which stays while it works; `PlanEnds`; `PauseHolds`: the failure of a step that had an agent pauses the plan whatever the other handler does (`FailurePauses`), a paused plan chooses nothing to start (`PausedChoosesNothing`) and comes to rest (`PauseRests`) |
| `PlanUser` (MCPlanExecutor) | one step, oracle for empty branches, starts may fail, `pauseOnFailure`; two events out of pause, resume, skip, retry, kill, close, stop and the stall timer | `Attended`: nothing in progress or in verification is forgotten |
| `PlanConflicts` (MCPlanExecutor) | one step, five commits of others to main, conflicts | `WorkIsKept` through all rebases and quick rebases |
| `PlanGates` (MCPlanGates) | two children of an integration branch, alike or one after the other, and a step to be confirmed in a second stage; a plan that runs through, and cautious ones, one child of which may have been skipped before; all faults, failing starts included, but `confirm`; one call of the user or a crash at any moment | `NothingLeftReady`: at rest, no more slots are free beside a step that is ready than starts have failed; `StagesInOrder`, `NoneLost` |
| `Planner` (MCPlanner) | three tickets: every acyclic dependency, every parent, teams of two, two subtasks, or both; three strategies and the user's stages; one ticket closed by others; any step may fail or be skipped | `OrderKept`, `NeverStuck`, `ClosedWhenOver` |
| `Sessions` (MCSessions) | a session of each backend, three events, two callers that stop it, a store that fails; or a CI run that changes four times, its statuses coming back, and may leave the ten latest; or a pod with three forms, deleted at any time; fair | `EndsRightly`, `NothingAfterStopped`, `EndIsAnnounced`, `CatchesUp` |
| `Services` (MCServices) | one of: a router with three messages and two turns; two tasks, one of which may have no next run, with two executions each at once; two services that ask for one port, two callers; a plan with three executors and two clients with three commands | `Routed`, `Scheduled`, `PortsApart`, `PlansRunOnce` |
| `WorktreeAlone` (MCWorktreeMerge) | a call without a target and the final merge of an integration branch interleave, two calls with a target are alone; two changes of the user; every command but the way back fails | `LandsInTarget`, `ReportsTruth`, `TreeRestored`, `ChangesKept` |
| `MergeQueue` (MCMergeCoordinator) | four requests: two merge one branch, so that the second is up to date, one merges a branch without a commit of its own yet, one merges their target into a branch with a history; two validations; all failures; cancellations; a commit to a source branch at any moment; fair | `OneMergeAtATime`, `NoneForgotten`, `AllEnd`; `KeepsPromise`: implements `MergePromise` |

Each run also has the type invariant of its module. `MCSessions` and `MCServices`
put parts that share no state into one run: `part` is chosen at the beginning and
nothing else moves.

Why these bounds are enough: two workers make every pair of handlers overlap,
and the code compares a step only with its blockers, so three steps give a step
that waits for two; one agent against two separates what needs concurrent starts
from what does not; `MaxRetries` 1 (or 0 where retries would start extra agents)
passes through both outcomes of the comparison; `PlanConflicts` needs five moves
of main to use up the quick rebases and meet the next full one. Two children give an
integration branch that is partly filled, a step outside it a stage that is not a
gate, two slots for them a start that fails beside one that does not; one crash or
call at any moment meets every half-done gate. Three tickets give a chain
across a split ticket and a fan into one. Two callers are every pair of overlapping
calls, two services every pair of ports; three executors are a lingering one, its
successor and the successor's rival; `PlanHost` alone also held with four commands
and with two plans. Three messages are one delivered and two in order. Of the calls
of `merge()` there is one of each kind, and a second one with a target; the queue
treats all requests alike, and with four there is one that is up to date, one that may be,
and one that merges what they produce, in every order of their calls.

`CHECK_DEADLOCK FALSE` is in all of them because `run()` returns, plans end,
sessions end and bounded callers fall silent.

**Fairness.** `FairSpec` of PlanExecutor has weak fairness for the loop and for
each other fiber (a promise that is pending settles: git, verification and
installation commands end) and for each agent's end. The user owes nothing.
`FairSpec` of MergeCoordinator has weak fairness for the command a request waits
for: validations have a timeout (merge-coordinator.ts:196). `SessionFairness` has it
for the consumer and adapter of each session (microtasks, timers, reads of a closed
pipe) and for the callers' awaits, not for the agent. `PollerFairness` has weak
fairness for timers and strong fairness for polls that succeed: the command line
tool fails now and then, not for ever. `InfraFairness` is the same for the list of
`kubernetes.ts`; lines of its stream may never come.

### What the code does otherwise

Two runs check one statement of a document or a comment and end in a
counterexample; `findings` in `PROJECT.json` quotes the lines.

| Run (module) | Statement | What happens |
|---|---|---|
| `PlanJoinTwice` (MCPlanExecutor) | each step has a worktree of its own, isolated | two handlers start the same step: two agents in one worktree, nothing failed |
| `StationFollowUp` (MCStation) | a follow-up waits for the end of the agent's turn | the turn ends, the shared session object says idle before the consumer looks, no change is announced, and the message stays queued |

These configurations end in a counterexample too. They are not among the runs of
`PROJECT.json`; start them by hand.

| Configuration (module) | Property | What happens |
|---|---|---|
| `PlanStaleHandler` (MCPlanExecutor) | `HandlersWriteToPlan` | a pause makes a step ready with its completion event queued, the resume copies it |
| `PlanPauseStops` (MCPlanExecutor) | `PauseKeepsAgents` | agents that run are stopped by a pause |
| `WorktreeShared` (MCWorktreeMerge) | `LandsInTarget` | an integration branch is merged into the one that another call has checked out, and deleted |
| `MergeUpToDate` (MCMergeCoordinator) | `SucceededStays` | for an up-to-date branch the rollback drops an earlier request's merge |
| `PlanGatesDone` (MCPlanGates) | `DoneIsDelivered` | a fiber finds all steps done while the final gate is under way and marks the plan done (docs/spec/orchestrator.md:1296-1298) |
| `InfraDeletes` (MCSessions) | `DeletedIsGone` | kubectl fails for one list: `listResources` answers no resources, and the poll reports a pod that is there as deleted, where its comment (kubernetes.ts:948) says that a failed poll is tried again |
| `InfraAfterDispose` (MCSessions) | `QuietAfterDispose` | a poll under way reports after `dispose()` (tests/infra/watch-polling.test.ts:212, "does not emit events after dispose") |
| `PlannerStages` (MCPlanner) | `NotStagedBeforeDeps` | steps that the user lists in no stage are put after all others, also after those that wait for them (docs/spec/orchestrator.md:1031); the plan then stands still, `NeverStuck` fails too |

The same properties with other constants show more:

* With `PlanJoinTwice`'s instance `AgentsBounded` fails too: two handlers count
  the same free slots (executor.ts:2320). `Settles`, `PlanDoneIsComplete`,
  `ExitMeansOver`, `WorkIsKept`, `DoneIsFinal`, `OwnTree` and `LandsVerified` fail
  after a step has been started twice: the second start finds the executor's own
  lock and fails the step under the first agent, or throws the worktree away under
  it (`docs/adr/005-worktree-deletion-investigation.md` is about such a loss). They
  are therefore checked, and proved, with one agent, or with steps that become ready
  only at the beginning.
* `PausedStartsNothing` fails when the user pauses while steps are being started: what
  has been chosen is started (executor.ts:2377). `PauseHolds` therefore says that
  nothing more is chosen. A step that cannot be started fails without pausing the plan,
  whatever `pauseOnFailure` says (executor.ts:2382); `FailurePauses` is about steps that
  had an agent.
* `LandsVerified` fails when others commit to main: up to three quick rebases are
  merged unverified (executor.ts:1387-1399). `WorkIsKept` fails after a skip and a
  retry.
* With overlapping calls that have targets `TreeRestored` and `ReportsTruth` fail:
  each goes back to the branch that was checked out when it asked. With the fault
  `restore` the way back fails silently (worktree.ts:317). A checkout that fails is
  thrown out of `merge()` (worktree.ts:311) with the user's changes in the stash,
  where nobody gets them.
* A plan counts as done also with failed steps (executor.ts:3189);
  `docs/spec/orchestrator.md:219` asks for done or skipped.
* PlanGates: nobody makes up for a start that has failed: its slot stays empty
  beside steps that are ready until somebody recomputes the plan, and if all starts
  fail in a plan without agents nobody does (executor.ts:2377-2383). If the final
  gate fails, the children become failed and the branch stays finalised, so that a
  retry never reaches main; `pauseOnFailure` is not asked (executor.ts:2745-2754).
  `autoContinue` overrules a user's pause during a stage's smoke test; an advance
  during it skips a stage. A resume during the final smoke test starts agents in a
  loop that then exits. A plan that was saved during its final gate stays
  "executing" after a restart and is not tested again; steps that had landed but
  were saved in verification are done again. A step that is confirmed after a
  restart is done without being merged (worktree.ts:279). If the merge of a
  confirmed step conflicts, the code ignores the result and removes the worktree
  (executor.ts:786-790).
* Planner: what waits for a parent ticket waits for nothing (planner.ts:143-145). A
  team's ticket is closed after its first role (`ticketLookupId`), and others wait
  for the last role in the list only. Skipping one step of a chain lets the later
  ones go on.
* AgentSession: `agent_end` is emitted twice after the safety timeout
  (claude-code.ts:254-262). An event store that fails ends the session for its
  listeners while the process lives.
* CicdPoller: what changes between snapshot and seed is not announced, nor is a run
  that a poll sees first, until it changes again. A run that ten others have followed is
  not announced any more (github-actions.ts:303): its last known status stays.
* Scheduler: a task removed while it is executed is rescheduled for ever; one that is
  enabled meanwhile is executed twice at once; a task added as disabled is armed, and
  runs once. A schedule without a next run makes `start()` throw with `running` set and
  the tasks behind it without a timer (scheduler.ts:234-241).
* Environment: a call allocates in the copy of the registry it was given before an
  await and writes that back, so that it overwrites what another call has allocated
  meanwhile (environment-manager.ts:47, 61-67); the next allocation may then give
  that port again, and `PreventsCollisions` fails (docs/spec/environments.md:22).
  `PortsApart` excepts the services whose allocation was overwritten. A second start
  while one is starting spawns a process nobody tracks; the late exit of the old one
  marks the new one stopped; a health check under way overwrites "stopped".
* PlanHost: without `early`, `NeverTwice` fails. An executor that was cancelled takes
  its successor out of the map when it ends (station.ts:1136-1141), and two
  `resume_plan` start two executors (station.ts:924-930). Handlers go on saving after
  cancel and delete: "cancelled" is overwritten and a deleted file comes back.

## What is proved

The proofs are for every value of the constants that the `ASSUME`s of the module
allow: any plan, any number of sessions and workers, any faults and calls. Where a
theorem assumes more, the assumption is on constants or on the schedule, it is
named, and "What the code does otherwise" says what happens without it.

**The executor, whoever calls.**

* `PlanExecutorProofs!TypeCorrect`, `Spec => []TypeOK`. `TypeOK` alone is not
  inductive: `Become` takes the head of the list of held objects, and `NextRebase`
  adds to a counter that is at most three. The invariant is `TInv`, which adds
  `HoldOK`: a fiber that waits at a place where the code uses a held object holds
  one, and a session where it uses a session. One lemma per action, the ones
  about `Become` and `BecomeAndDrop` stated once.
* `PlanExecutorProofs!VerificationsAreCounted`, `Spec => []VerificationsCounted`:
  `activeVerifications` equals the number of handlers under way. By induction on
  the set of working handlers: every action either leaves that set as it is, or
  adds one new worker (`HandleCompleted`), or the ones `HandleResume` gives a slot
  each (an injection, so as many as relaunched steps), or takes one away
  (`VerificationOver`), and changes the counter by the same amount.

**The executor, one agent at a time** (`PlanSequenceProofs`). The eight theorems
assume `Alone`: `maxConcurrentAgents` is 1, the least the settings allow, and nobody
pauses, resumes, skips, retries, stops, kills or closes; others may commit to main.
Plans, blockers, retries, rebases and faults are arbitrary. `PlanSequential` and
`PlanConflicts` are such instances; `PlanJoinTwice` shows that with two agents and
steps that become ready on the way the statements are false, `PlanUser` that calls
need an argument of their own.

| Theorem | States |
|---|---|
| `StepsStaySound` | `StepsSound`: attempts bounded, done means landed, one agent (assumes no oracle for empty branches, which calls a step done that has nothing to land) |
| `StartsRespectDependencies` | `DependenciesRespected`, although a worktree is made between the choice of a step and its start |
| `PausedPlanStartsNothing` | `PausedStartsNothing`, which is more than the `PausedChoosesNothing` of `PauseHolds` |
| `WorktreesAreOwned` | `OwnTree`: one agent per worktree, which is not removed under it |
| `CommitsAreKept` | `WorkIsKept`: commits that main lacks go nowhere but into main |
| `VerifiedLands` | `LandsVerified`, if nobody else commits to main either |
| `PlanEndsOver` | `PlanOver`: done, or left by `run()`, only when nothing is left |
| `NoneForgotten` | `Attended`: somebody will end what is in progress or in verification |

The argument is that there is one token (`OneToken`): an agent that runs, or the news
of its end in the queue, or a fiber that has the plan in its hands. With it the
interleavings collapse, and the invariant `SInv` can say what the code takes for
granted: nobody but the executor has events in the queue (`Calm`); the token is on
the step that occupies the one slot, and the object that a fiber holds is the one in
the plan, in the state that belongs to where the fiber waits (`Tasks`, `Fit`); a step
that has begun had everything resolved, and only a landed one is done (`Fact`); and
once the plan is being marked done, everything is over and stays so (`Ending =>
AllOver`). `Fit` carries what the merges need: a branch that is being verified or
merged has commits, one whose worktree is about to go has none, and, if nobody else
commits, it has not changed since its verification, because a branch that was
rebased cleanly is no longer behind and cannot conflict. TLC checked `SInv` on the
instance of `PlanSequential` and on one with commits, the oracle and failing starts
(5 million states) before it was proved.

**The executor, every step at once** (`PlanSequenceProofs`). Here the handlers do
overlap: any number of agents run, end in any order and at the same time, and their
handlers interleave at every await, each recomputing and saving the same plan. The
theorems assume `AllAtOnce`: no step waits for another, there is a slot for each step,
none gets a second try (`maxRetries` is 0, and a branch in conflict is not rebased and
verified again), and of the calls there are commits of others to main, closed tickets
and stall checks. `PlanOverlap` is such an instance. The three conditions say when no
step becomes ready while handlers are at work. Without any one of them two handlers
may start the same step, or more steps than there are slots: that is what
`PlanJoinTwice` finds.

| Theorem | States |
|---|---|
| `OverlapStaysSound` | `StepsSound` (assumes no oracle for empty branches) |
| `OverlapEndsOver` | `PlanOver`: no handler marks the plan done, and `run()` does not return, before the last one is through |
| `OverlapForgetsNone` | `Attended`, although every handler recomputes the plan under the others |
| `OverlapPausedStartsNothing` | `PausedStartsNothing`: a failure pauses the plan with its other handlers under way |
| `OverlapOwnsWorktrees` | `OwnTree`, while other handlers merge and remove theirs |
| `OverlapKeepsCommits` | `WorkIsKept`, while merges of other steps move main |
| `OverlapLandsVerified` | `LandsVerified`, here with commits of others as well: nothing rebases a branch |

In place of one token for the plan there is one for each step. `Owned` says that a step
is in at most one pair of hands: an agent, the news of its end in the queue, or a
handler; `Attends` that it is in one as long as it is in progress or in verification,
and what the handler knows of the step and its branch (`Suits`). What makes that
inductive is `Boot`: `run()` starts every step before anything else happens, and when
it enters its loop no step is ready any more, so what handlers do to the plan
afterwards starts nothing; `Places`, that a handler's object is the one in the plan,
since a recomputation copies only steps in a status that no handler works on; and
`Fresh`, that news and handlers refer to
no session that is alive. Each step of a handler is then a change of its own step
(`Become`), or of none, and is shown to leave the tokens of the others alone. TLC
checked the invariant on two steps with faults, commits, stall checks and closed
tickets, with and without the oracle, before it was proved.

**From tickets to steps** (`PlannerProofs`). All theorems assume `WellFormed`: the
names of tickets, roles and subtasks differ, the members of a team wait for one
another in the order of the list, as in the teams that the code brings along
(teams.ts:24-25), and subtasks do not wait for one another in a circle. A team whose
members do not form a chain is outside of it: what waits for a ticket waits for the
last member only (planner.ts:316), and `OrderKept` fails if the others are not before it.

* `OrderIsKept`, `PlannerSpec => []OrderKept`. The half of the proof that has no time
  in it is `PlanFacts`, lemma by lemma along `computePlan()`: whatever a ticket is
  split into, its first steps (`Firsts`) wait for the last steps (`Ends`) of every
  ticket that it depends on, the roles of a team for one another in turn and the
  subtasks for their own. The other half is the invariant `PInv`: what is ready or
  done has waited for all that blocks it (`Waited`), the plan is that for tickets of
  which others have closed the rest, and the plan closes an unsplit ticket with its
  step (`WholeClosed`), for else a blocker could be resolved by a closed ticket
  whose step is not over. Then the first role or subtask that is done, in the order of
  the team or of the subtasks, is one of `Firsts`, and the last one that is not done
  cannot be before one that is.
* `ParentsCloseLast`, `PlannerSpec => ClosedWhenOver`: from the shapes of the steps,
  `ticketLookupId()` never names a parent or a ticket with subtasks, so that only
  `closeCompletedSubtaskParents()` closes it.
* `PlannerTypesAreCorrect`, `PlanGoesOn` and `StagedAfterDeps` also assume `NoCycles`:
  there are finitely many dependencies and none is in a circle (hygiene.ts:111
  reports those; `computePlan()` does not look for them). Then `PlanRanked` numbers
  the steps of a plan, by their ticket first and by their place in the team or among
  the subtasks next, so that each waits for smaller numbers only. On these numbers
  rests that `computeDepthStages()` has an answer (`DepthExists`, `DepthUnique`, by the
  least number for which it would not), and with it the type invariant.
  `StagesInvariant` says that stages before the current one have ended and that no
  step is staged before what it waits for. `PlanGoesOn` is then short: of the steps of
  the current stage that are not over the one with the least number waits for
  nothing any more, so it is ready or the next recomputation makes it so. The last
  two theorems need stages that list every step, if a user defines them: otherwise a
  stage can wait for a later one, and `NeverStuck` fails like `NotStagedBeforeDeps`.

**The gates of a plan** (`PlanGatesProofs`).

* `GatesTypeCorrect`, `StagesAreInOrder`, `NothingIsLeftReady`: for any stages,
  integration branch, calls and faults. `ChosenInv` says that one fiber at most starts
  agents, and what it has still to start is ready, or has been skipped since.
  `OrderInv` says of the plan in memory, of the saved one and of the fibers that hold a
  step that stages before the current one are over and stages behind it untouched:
  `Restart` brings the file back at any moment. `NothingLeftReady` is about a plan at
  rest; `Rested` says the same of one in which a fiber is still starting agents, or
  about to test the end: not more slots are free, beyond those of the `chosen`, than
  starts have failed, or nothing but the chosen is ready. Each start, or failed start,
  takes one from `chosen` and fills a slot, or counts one in `missed`.
* `NoneIsLost`: `NoneLost` if no step is skipped while the plan runs, no child of the
  integration branch waits for a confirmation and a confirmed merge does not fail.
  The invariant `KeptInv` and `Delivered` follow the commits of each child through
  memory, the file, and git: what is done, in either, has left its worktree; a fiber
  that has found all children over finds the same ones over when it has read the
  project, and none gets there while another merges the branch; a branch is deleted
  unmerged only if every child was skipped before it had commits. The run has skips,
  too, on its instance.

**Merging in the shared tree** (`WorktreeMergeProofs`).

* `TypeCorrect`, with the strengthening that a call has a target where it checks one
  out and a branch where it goes back to one.
* `MergesLand`, `BranchRestored` and `ReportsHold` assume `Disciplined`: a call with a
  target is exclusive and the way back does not fail. `DInv` says that while an
  exclusive call is under way it is the only one (`Alone`) and the branch that is
  checked out follows from where it stands (`Placed`), that otherwise the user's
  branch is checked out (`AtHome`), that all other calls never switch (`Plain`), and
  that whoever left a merge unfinished is about to abort it (`Aborted`). For
  `ReportsHold`, `Report` adds what is true before a call answers: its branch is in its
  target if its result says merged, in no branch at all otherwise, and it has no
  result before it has merged.
* `ChangesSafe` needs no assumption: each command that takes changes out of the tree
  pushes them, and the only one that drops an entry of the stash has applied it.

**The merge queue** (`MergeCoordinatorProofs`).

* `TypeCorrect`; `MergesSerialised`, from the invariant that a job is not idle exactly
  for the request that is running, that there is at most one, and that then
  `processing` is set; `NoRequestForgotten`, which needs that a request that is queued
  is in the queue, and that the first queued one of a queue exists (by well-founded
  induction on its index).
* `QueueKeepsPromise`: the queue implements `MergePromise`, `Spec => KeepsPromise`,
  where nobody else commits to a target branch (`TargetsAreQuiet`, which is about
  `Busy`: the branches that others commit to; a target may be a source of other
  requests). Every action maps to a step of the promise or to a stutter: `TakeNext`,
  commands and validations stutter, since a merge that is not validated yet is hidden;
  the merge is `Take`, the moment at which the source is taken; success is `Accept`, a
  failure or a cancellation `Refuse`. A rollback is `Refuse` if the merge made a commit,
  for that is the one it takes back, and `TakeBack` if it made none. It rests on
  `Placed`: from its checkout to its end a request has its target checked out, with the
  commit it may have made on top. Where others commit to the targets, too, the last
  commit may be theirs, and the rollback takes that instead of the merge.

**The station's services** (`ServicesProofs`), each for itself.
`ServicesTypeCorrect` carries the types over to the module that puts the four side by
side for TLC.

* `SchedulerTypeCorrect`, `TasksAreScheduled`: at most one timer of a task is armed, the
  map knows it, and none is armed after `stop()` or for a task that was disabled; every
  listed and enabled task of a running scheduler has a timer or an execution, except one
  whose schedule may have no next run (`Rare`) and those that a `start()` which threw
  has not reached (`skipped`). `Scheduled` is inductive with the type invariant.
* `MessagesAreRouted`. `Routed` is not inductive: at the end of a turn an iterator is
  given the whole queue, so the invariant adds that what it has is delivered
  (`Given`), that the follow-ups it has are older than those in the queue
  (`NotOvertaken`), which holds because only a follow-up that was queued is ever
  delivered, and that it hears one agent only.
* `EnvTypeCorrect`; `PortsAreApart`, from the assumption `AttemptsSuffice`. `EInv` says
  that no copy of the registry, in memory, in the file or with a call, gives a port
  twice, since an allocation of `findNextAvailablePort` or of a port without conflict
  does not. That is not enough: the copies may differ. `Kept` says that the registry
  still has the port of each live process whose service is not `astray`, and that at
  most one call is at work on such a service, on no live process unless it is stopping
  it. A step that overwrites an allocation makes its service astray; every other one
  keeps both.
* `HostTypeCorrect`; `PlansAreRunOnce`. `InMap` is not inductive, since a stopped
  executor takes whatever is in the map out of it; the invariant adds `Alone`, that
  none such is at work beside the one in the map unless `early` says so, and that
  handlers belong to an executor that was started.

**Sessions, CI runs and pods** (`SessionProofs`): `HeardTypeCorrect`;
`SessionsEndRightly`, `Spec => []EndsRightly`; `QuietAfterStopped`, the action property
`NothingAfterStopped`. The invariant `EndInv` ties, for each session, the process, the
adapter's buffer, the consumer's place in its loop, the entries of the maps and what
listeners have heard: before the end is announced the buffer is read to its end, and
whoever announces it has taken the session out of the map in the same step, so that
nobody else does. `StopInv` says that a caller that stops something stops a session.
The fairness conjuncts are not used: the theorems are about `Spec`.

**Only model-checked.**

* Liveness: `Settles`, `PlanEnds`, `PauseHolds` (but for what `PausedStartsNothing`
  covers), `AllEnd`, `EndIsAnnounced`, `CatchesUp`: beyond TLAPS.
* PlanExecutor between the two cases that are proved, and with the user's calls: more
  steps than agents, steps that wait for others, or retries, with handlers that
  overlap, where some of the statements fail (`PlanJoinTwice`); `Attended` with the
  pauses, resumptions and skips of `PlanUser`.
* `NoneLost` with skips and with confirmed children of the integration branch.

## What is left

* Proofs: `Attended` with the calls of `PlanUser`; what of `OwnTree` and `PlanOver`
  survives when retried steps overlap with handlers; `NoneLost` with skips.
* An abstract plan (a step goes from blocked to a terminal status; what is done has
  landed) that PlanExecutor with one agent implements.
* The commands of `attemptRebase`, and an atomic merge that WorktreeMerge implements.
* `cleanupOrphaned()` and the terminal client's executors without a station.

## Not modelled

`PROJECT.json` lists each component with its status. Most of the program's lines are
outside of what a model of control can say anything about: the terminal interface
(`packages/cli/src/tui`), the web page (`web-ui.ts`), most of the clients of Kubernetes, cloud
and database tools, the parsing of command output, detection, the context graph,
templates and reports turn data into other data, and what they keep is a view of
somebody else's state. They have no protocol whose interleavings matter, apart from
the terminal client's executors without a station, which is a one-slot copy of
PlanHost's. Cron and calendar arithmetic, health checks and cost formulas are pure
and tested as functions. In the executor, the legacy mode without worktrees is a
sequential subset of the one that is modelled; the modes none and output-exists end a
step where verification would; prompts and summaries are text.
