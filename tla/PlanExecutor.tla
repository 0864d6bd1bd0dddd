---------------------------- MODULE PlanExecutor ----------------------------
(***************************************************************************)
(* The orchestrator's Executor (orchestrator/executor.ts) running one plan *)
(* in worktree mode.                                                       *)
(*                                                                         *)
(* The process is single threaded, but it runs many asynchronous fibers    *)
(* that interleave at every await:                                         *)
(*   - the event loop of run(), which takes one event at a time;           *)
(*   - one worker per agent_completed event: the loop starts               *)
(*     handleWorktreeCompletion() and does not wait for it.                *)
(* Each of them ends in recomputeAndContinue(), which replaces the plan    *)
(* and starts agents, so two of these calls can be under way at once.  An  *)
(* action below is the code between two awaits.                            *)
(*                                                                         *)
(* Plan steps are JavaScript objects.  recomputePlan() keeps the object of *)
(* a step that has a sticky status and replaces every other one by a copy: *)
(* a fiber that still holds the old object then writes to an object that   *)
(* is no longer in the plan.  A held reference is therefore an entry with  *)
(* a flag "stale" and, once stale, the private object it refers to.        *)
(***************************************************************************)
EXTENDS Integers, Sequences, FiniteSets

CONSTANTS
  StepSeq,          \* plan.steps: the ticket ids of the steps, in plan order
  BlockedBy,        \* step.blockedBy: [Step -> SUBSET Step]
  Session,          \* identities of agent sessions that exist at one time
  NoSession,        \* step.agentSessionId = undefined
  Worker,           \* slots for completion handlers running at one time
  Loop,             \* the fiber of run()
  MaxAgents,        \* config.maxConcurrentAgents
  MaxRetries,       \* config.verification.maxRetries
  PauseOnFailure,   \* config.pauseOnFailure
  AutoRebase,       \* config.verification.autoRebase
  ZeroCommitOracle, \* verification.runOracle, for an agent without commits
  Faults,           \* what the environment may do wrong, see FaultKind
  UserOps,          \* which of the user's calls the model makes
  MaxOps            \* bound: how many calls the user makes

Step  == {StepSeq[i] : i \in DOMAIN StepSeq}
Fiber == Worker \cup {Loop}

(* spawn: adapter.start throws; verify: a verification fails; conflict: a  *)
(* branch that is behind its target may conflict; merge, rebase: git fails *)
(* for another reason.                                                     *)
FaultKind == {"spawn", "verify", "conflict", "merge", "rebase"}
OpKind    == {"pause", "resume", "skip", "retry", "stop", "kill", "close",
              "commit", "stall"}

ASSUME PlanAssumption ==
  /\ StepSeq \in Seq(Step) /\ StepSeq # <<>>
  /\ IsFiniteSet(Step)
  /\ BlockedBy \in [Step -> SUBSET Step]
ASSUME ConfigAssumption ==
  /\ MaxAgents \in Nat \ {0}
  /\ MaxRetries \in Nat
  /\ {PauseOnFailure, AutoRebase, ZeroCommitOracle} \subseteq BOOLEAN
ASSUME ModelAssumption ==
  /\ NoSession \notin Session
  /\ {"none", "executor"} \cap Session = {}
  /\ Loop \notin Worker /\ IsFiniteSet(Worker)
  /\ Faults \subseteq FaultKind
  /\ UserOps \subseteq OpKind
  /\ MaxOps \in Nat

Status == {"blocked", "ready", "in-progress", "verifying", "done",
           "failed", "skipped", "needs-rebase"}

(* The object of a step: tree is "worktreePath is set", conflict is        *)
(* "rebaseConflict is set".                                                *)
StepObj == [status: Status, session: Session \cup {NoSession}, attempt: Nat,
            rebases: 0..3, tree: BOOLEAN, conflict: BOOLEAN]

NewStep(t) == [status   |-> IF BlockedBy[t] = {} THEN "ready" ELSE "blocked",
               session  |-> NoSession, attempt |-> 1, rebases |-> 0,
               tree     |-> FALSE, conflict |-> FALSE]

(* A reference to the object of step t held by a fiber across an await.    *)
Entry == [t: Step, stale: BOOLEAN, obj: StepObj]
Ref(t) == [t |-> t, stale |-> FALSE, obj |-> NewStep(t)]

Event == [type: {"agent_completed", "pause", "resume", "skip", "retry",
                 "verification_done", "stall_check"},
          t: Step, sid: Session \cup {NoSession}]

(* Where a fiber waits.  check, wait, pausing, killed, exited: the event   *)
(* loop only; work .. fin: a completion handler; load .. end:              *)
(* recomputeAndContinue().                                                 *)
PC == {"idle", "check", "wait", "pausing", "killed", "exited",
       "work", "arbitrate", "verify", "merge", "rebase", "reverify",
       "remerge", "quick", "discard", "failed", "removing", "fin",
       "load", "saved", "create", "install", "spawn", "term", "smoke",
       "finish", "end"}

VARIABLES
  planStatus,  \* plan.status
  running,     \* Executor.running
  booted,      \* the first startReadySteps() of run() has returned
  step,        \* the objects that are in the plan
  sess,        \* SessionManager: state and step of each session
  mapped,      \* keys of sessionToStep
  queue,       \* eventQueue
  active,      \* activeVerifications
  fib,         \* fiber -> where it waits and the objects it holds
  git,         \* per step: worktree, lock file, branch, and what main has
  closed,      \* tickets whose file says "closed"
  ops          \* number of user calls made so far

vars == <<planStatus, running, booted, step, sess, mapped, queue, active,
          fib, git, closed, ops>>

FiberRec == [pc: PC, hold: Seq(Entry), sid: Session \cup {NoSession},
             quick: 0..3]
IdleFiber == [pc |-> "idle", hold |-> <<>>, sid |-> NoSession, quick |-> 0]

(* dir: the worktree directory exists; lock: what its lock file names;     *)
(* tracked: WorktreeManager knows it; ahead: the branch has commits that   *)
(* main lacks; behind: main moved since the branch was based on it.        *)
(* checked and landed are history: the branch has not changed since a      *)
(* verification of it began and did not fail; its commits reached main.    *)
GitRec == [dir: BOOLEAN, lock: {"none", "executor"} \cup Session,
           tracked: BOOLEAN, ahead: BOOLEAN, behind: BOOLEAN,
           checked: BOOLEAN, landed: BOOLEAN]
NoTree == [dir |-> FALSE, lock |-> "none", tracked |-> FALSE,
           ahead |-> FALSE, behind |-> FALSE, checked |-> FALSE,
           landed |-> FALSE]
SessRec == [st: {"none", "live", "exited", "stopping"}, t: Step]

TypeOK ==
  /\ planStatus \in {"executing", "paused", "done"}
  /\ running \in BOOLEAN
  /\ booted \in BOOLEAN
  /\ step \in [Step -> StepObj]
  /\ sess \in [Session -> SessRec]
  /\ mapped \subseteq Session
  /\ queue \in Seq(Event)
  /\ active \in Int
  /\ fib \in [Fiber -> FiberRec]
  /\ git \in [Step -> GitRec]
  /\ closed \subseteq Step
  /\ ops \in Nat

-----------------------------------------------------------------------------
(* Held references.                                                        *)

Cur(f) == Head(fib[f].hold)
Obj(f) == IF Cur(f).stale THEN Cur(f).obj ELSE step[Cur(f).t]

(* Fiber f assigns o to the object it holds and waits at p.  The plan sees *)
(* the assignment only if the object is still in the plan.                 *)
Become(f, o, p) ==
  LET e == Cur(f) IN
  /\ step' = IF e.stale THEN step ELSE [step EXCEPT ![e.t] = o]
  /\ fib' = [fib EXCEPT ![f].pc = p,
               ![f].hold = IF e.stale
                             THEN <<[e EXCEPT !.obj = o]>> \o Tail(@)
                             ELSE @]

(* As Become, but f is through with the object and goes on with the rest.  *)
BecomeAndDrop(f, o, p) ==
  LET e == Cur(f) IN
  /\ step' = IF e.stale THEN step ELSE [step EXCEPT ![e.t] = o]
  /\ fib' = [fib EXCEPT ![f].pc = p, ![f].hold = Tail(@)]

Goto(f, p) == fib' = [fib EXCEPT ![f].pc = p]
At(f, p)   == fib[f].pc = p

FreeWorkers == {w \in Worker : At(w, "idle")}

-----------------------------------------------------------------------------
(* What the plan's helpers compute.                                        *)

(* Mutants of Sticky: agents at work, or steps that are done, are recomputed. *)
StickyNotInProgress(st) == st \in {"verifying", "done", "failed", "skipped",
                                   "needs-rebase"}
StickyNotDone(st)       == st \in {"in-progress", "verifying", "failed",
                                   "skipped", "needs-rebase"}

Sticky(st) == st \in {"in-progress", "verifying", "done", "failed",
                      "skipped", "needs-rebase"}
TerminalStatus == {"done", "failed", "skipped", "needs-rebase"}

(* Mutant of Unresolved: one resolved blocker is enough.                   *)
UnresolvedUnlessSome(t) ==
  IF \E d \in BlockedBy[t] : d \in closed \/ step[d].status \in {"done", "skipped"}
    THEN {} ELSE BlockedBy[t]

Unresolved(t) == {d \in BlockedBy[t] :
                    /\ d \notin closed
                    /\ step[d].status \notin {"done", "skipped"}}

(* Mutant of IsPlanTerminal: handlers at work do not count.                *)
IsPlanTerminalAnyway == \A t \in Step : step[t].status \in TerminalStatus

IsPlanTerminal == active <= 0 /\ \A t \in Step : step[t].status \in TerminalStatus
ShouldExitLoop == planStatus # "paused" /\ IsPlanTerminal

(* SessionManager.getSession(): a session that ended by itself stays in    *)
(* the map, one that was stopped does not.                                 *)
Alive(s) == s # NoSession /\ sess[s].st \in {"live", "exited"}

(* A lock file protects a worktree while the process it names is running.  *)
LockIsLive(t) == \/ git[t].lock = "executor"
                 \/ git[t].lock \in Session /\ sess[git[t].lock].st = "live"

(* Model bound: a session identity is used again when nothing that the     *)
(* code reads refers to it any more.                                       *)
Referenced(s) ==
  \/ s \in mapped
  \/ \E i \in DOMAIN queue : queue[i].sid = s
  \/ \E f \in Fiber : fib[f].sid = s
  \/ \E t \in Step : \/ git[t].lock = s
                     \/ /\ step[t].session = s
                        /\ step[t].status \in {"in-progress", "verifying"}
Unused(s) == sess[s].st \notin {"live", "stopping"} /\ ~Referenced(s)

Occupied == {t \in Step : step[t].status \in {"in-progress", "verifying"}}
Ready    == {t \in Step : step[t].status = "ready"}

(* Mutant of StartLists: one more than there are free slots.               *)
StartListsOneMore ==
  LET free == 1 + MaxAgents - Cardinality(Occupied)
      n    == IF free < Cardinality(Ready) THEN free ELSE Cardinality(Ready)
  IN {q \in [1..n -> Ready] : \A i, j \in 1..n : q[i] = q[j] => i = j}

(* The steps startReadySteps() picks: as many ready ones as there are free *)
(* slots.  Priorities and the strategy fix their order in the code; here   *)
(* it is any order.                                                        *)
StartLists ==
  LET free == MaxAgents - Cardinality(Occupied)
      n    == IF free < Cardinality(Ready) THEN free ELSE Cardinality(Ready)
  IN {q \in [1..n -> Ready] : \A i, j \in 1..n : q[i] = q[j] => i = j}

-----------------------------------------------------------------------------
Init ==
  /\ planStatus = "executing"
  /\ running = TRUE
  /\ booted = FALSE
  /\ step = [t \in Step |-> NewStep(t)]
  /\ sess = [s \in Session |-> [st |-> "none", t |-> StepSeq[1]]]
  /\ mapped = {}
  /\ queue = <<>>
  /\ active = 0
  /\ fib = [f \in Fiber |-> IF f = Loop THEN [IdleFiber EXCEPT !.pc = "saved"]
                                        ELSE IdleFiber]
  /\ git = [t \in Step |-> NoTree]
  /\ closed = {}
  /\ ops = 0

-----------------------------------------------------------------------------
(* recomputeAndContinue(), in any fiber.                                   *)

(* Mutant of Copied: every step is replaced by a copy.                     *)
CopiedAlways == Step \ closed

(* recomputePlan() replaces the steps that are not sticky by copies.       *)
Copied      == {t \in Step : ~Sticky(step[t].status) /\ t \notin closed}
Detach(e)   == IF ~e.stale /\ e.t \in Copied
                 THEN [e EXCEPT !.stale = TRUE, !.obj = step[e.t]]
                 ELSE e
Detached(h) == [i \in DOMAIN h |-> Detach(h[i])]

(* loadCurrentTickets() has returned: the plan is replaced.  Every fiber   *)
(* that holds the object of a step that is copied now holds a stale one.   *)
(* The ticket files are read here rather than one await earlier: they only *)
(* change from open to closed, and the executor closes a ticket after its  *)
(* step has become done, which is sticky.                                  *)
Recompute(f) ==
  /\ At(f, "load")
  /\ step' = [t \in Step |->
               IF Sticky(step[t].status) THEN step[t]
               ELSE [step[t] EXCEPT !.status =
                       IF t \in closed THEN "skipped"
                       ELSE IF Unresolved(t) = {} THEN "ready" ELSE "blocked"]]
  /\ fib' = [g \in Fiber |->
               [fib[g] EXCEPT !.pc = IF g = f THEN "saved" ELSE @,
                              !.hold = Detached(@)]]
  /\ UNCHANGED <<planStatus, running, booted, sess, mapped, queue, active,
                 git, closed, ops>>

(* After the list of started steps: run() enters its loop, everyone else   *)
(* goes on to test whether the plan is complete.                           *)
AfterStart(f) == IF f = Loop /\ ~booted THEN "check" ELSE "term"

(* Mutant of MayStart: only a plan that is done starts nothing.            *)
MayStartUnlessDone(f) == planStatus # "done"

MayStart(f) == planStatus = "executing" \/ (f = Loop /\ ~booted)

(* savePlan() has returned: choose the steps to start.  run() chooses them *)
(* without looking at the plan's status.                                   *)
StartReadySteps(f) ==
  /\ At(f, "saved")
  /\ IF MayStart(f)
       THEN IF Cardinality(Occupied) >= MaxAgents \/ Ready = {}
              THEN Goto(f, AfterStart(f))
              ELSE \E q \in StartLists :
                     fib' = [fib EXCEPT ![f].pc = "create",
                               ![f].hold = [i \in DOMAIN q |-> Ref(q[i])]]
       ELSE Goto(f, "term")
  /\ UNCHANGED <<planStatus, running, booted, step, sess, mapped, queue,
                 active, git, closed, ops>>

StartNext(f) == IF Len(fib[f].hold) = 1 THEN AfterStart(f) ELSE "create"

(* startStep() and WorktreeManager.create(), up to the installation of the *)
(* dependencies.  A worktree whose lock names a live process is refused    *)
(* and the step fails; any other one is thrown away, and the branch too    *)
(* unless it has commits that main lacks.                                  *)
CreateWorktree(f) ==
  LET o == Obj(f)  t == Cur(f).t IN
  /\ At(f, "create")
  /\ \/ /\ o.conflict \/ o.tree
        /\ Goto(f, "spawn")
        /\ UNCHANGED <<step, git>>
     \/ /\ ~o.conflict /\ ~o.tree
        /\ git[t].dir /\ LockIsLive(t)
        /\ BecomeAndDrop(f, [o EXCEPT !.status = "failed"], StartNext(f))
        /\ UNCHANGED git
     \/ /\ ~o.conflict /\ ~o.tree
        /\ ~(git[t].dir /\ LockIsLive(t))
        /\ git' = [git EXCEPT ![t] =
                     [@ EXCEPT !.dir = TRUE, !.lock = "none",
                               !.behind = git[t].ahead /\ git[t].behind,
                               !.checked = git[t].ahead /\ git[t].checked]]
        /\ Goto(f, "install")
        /\ UNCHANGED step
  /\ UNCHANGED <<planStatus, running, booted, sess, mapped, queue, active,
                 closed, ops>>

(* The dependencies are installed: the worktree is tracked and locked.     *)
InstallDone(f) ==
  LET t == Cur(f).t IN
  /\ At(f, "install")
  /\ git' = [git EXCEPT ![t].tracked = TRUE,
                        ![t].lock = IF git[t].dir THEN "executor" ELSE @]
  /\ Become(f, [Obj(f) EXCEPT !.tree = TRUE], "spawn")
  /\ UNCHANGED <<planStatus, running, booted, sess, mapped, queue, active,
                 closed, ops>>

(* SessionManager.startSession() has returned and the step is in progress. *)
SpawnAgent(f, s) ==
  LET t == Cur(f).t IN
  /\ At(f, "spawn")
  /\ Unused(s)
  /\ sess' = [sess EXCEPT ![s] = [st |-> "live", t |-> t]]
  /\ mapped' = mapped \cup {s}
  /\ git' = [git EXCEPT ![t].lock =
               IF git[t].tracked /\ git[t].dir THEN s ELSE @]
  /\ BecomeAndDrop(f, [Obj(f) EXCEPT !.status = "in-progress", !.session = s],
                   StartNext(f))
  /\ UNCHANGED <<planStatus, running, booted, queue, active, closed, ops>>

SpawnFails(f) ==
  /\ "spawn" \in Faults
  /\ At(f, "spawn")
  /\ BecomeAndDrop(f, [Obj(f) EXCEPT !.status = "failed"], StartNext(f))
  /\ UNCHANGED <<planStatus, running, booted, sess, mapped, queue, active,
                 git, closed, ops>>

(* Is the plan complete?  If so its final smoke test runs.                 *)
TestComplete(f) ==
  /\ At(f, "term")
  /\ Goto(f, IF ShouldExitLoop THEN "smoke" ELSE "end")
  /\ UNCHANGED <<planStatus, running, booted, step, sess, mapped, queue,
                 active, git, closed, ops>>

SmokeTestDone(f) ==
  /\ At(f, "smoke")
  /\ planStatus' = "done"
  /\ Goto(f, "finish")
  /\ UNCHANGED <<running, booted, step, sess, mapped, queue, active, git,
                 closed, ops>>

FinishPlan(f) ==
  /\ At(f, "finish")
  /\ running' = FALSE
  /\ Goto(f, "end")
  /\ UNCHANGED <<planStatus, booted, step, sess, mapped, queue, active, git,
                 closed, ops>>

(* Mutant of EndRecompute: a worker does not wake the loop.                *)
EndRecomputeSilently(f) ==
  /\ At(f, "end")
  /\ IF f = Loop THEN Goto(f, "check") ELSE fib' = [fib EXCEPT ![f] = IdleFiber]
  /\ UNCHANGED <<planStatus, running, booted, step, sess, mapped, queue, active,
                 git, closed, ops>>

(* recomputeAndContinue() returns: the loop takes its next event, a worker *)
(* wakes the loop and is gone.                                             *)
EndRecompute(f) ==
  /\ At(f, "end")
  /\ IF f = Loop
       THEN Goto(f, "check") /\ UNCHANGED queue
       ELSE /\ fib' = [fib EXCEPT ![f] = IdleFiber]
            /\ queue' = Append(queue, [type |-> "verification_done",
                                       t |-> StepSeq[1], sid |-> NoSession])
  /\ UNCHANGED <<planStatus, running, booted, step, sess, mapped, active,
                 git, closed, ops>>

RecomputeStep(f) ==
  \/ Recompute(f) \/ StartReadySteps(f) \/ CreateWorktree(f)
  \/ InstallDone(f) \/ (\E s \in Session : SpawnAgent(f, s)) \/ SpawnFails(f)
  \/ TestComplete(f) \/ SmokeTestDone(f) \/ FinishPlan(f) \/ EndRecompute(f)

-----------------------------------------------------------------------------
(* handleWorktreeCompletion(), in a worker w that holds the step's object. *)

(* The code that starts a worker for step t: activeVerifications++.        *)
NewWorker(t, s) == [pc |-> "work", hold |-> <<Ref(t)>>, sid |-> s, quick |-> 0]

(* Mutant of HasWork: a branch that is behind main has no work.            *)
HasFreshWork(t) == git[t].tracked /\ git[t].ahead /\ ~git[t].behind

(* WorktreeManager.hasCommits().                                           *)
HasWork(t) == git[t].tracked /\ git[t].ahead

(* Stashed and uncommitted changes are committed and hasCommits() returns. *)
CheckWork(w) ==
  LET t == Cur(w).t IN
  /\ At(w, "work")
  /\ mapped' = mapped \ {fib[w].sid}
  /\ \/ /\ HasWork(t)
        /\ Become(w, [Obj(w) EXCEPT !.status = "verifying"], "verify")
        /\ git' = [git EXCEPT ![t].checked = TRUE]
     \/ /\ ~HasWork(t) /\ ZeroCommitOracle
        /\ Become(w, [Obj(w) EXCEPT !.status = "verifying"], "arbitrate")
        /\ UNCHANGED git
     \/ /\ ~HasWork(t) /\ ~ZeroCommitOracle
        /\ Become(w, [Obj(w) EXCEPT !.status = "failed"], "discard")
        /\ UNCHANGED git
  /\ UNCHANGED <<planStatus, running, booted, sess, queue, active, closed, ops>>

(* The oracle judged a branch without commits: the criteria are met, or    *)
(* the step has failed.                                                    *)
Arbitrate(w) ==
  /\ At(w, "arbitrate")
  /\ \/ Become(w, [Obj(w) EXCEPT !.status = "done"], "removing")
     \/ Become(w, [Obj(w) EXCEPT !.status = "failed"], "discard")
  /\ UNCHANGED <<planStatus, running, booted, sess, mapped, queue, active, git,
                 closed, ops>>

Discarded(t) == IF git[t].tracked
                  THEN [git EXCEPT ![t] = [NoTree EXCEPT !.landed = git[t].landed]]
                  ELSE git

(* A step failed without commits: its worktree goes unless it holds        *)
(* uncommitted changes.                                                    *)
DiscardEmpty(w) ==
  /\ At(w, "discard")
  /\ \/ /\ git' = Discarded(Cur(w).t)
        /\ BecomeAndDrop(w, [Obj(w) EXCEPT !.tree = FALSE], "failed")
     \/ /\ BecomeAndDrop(w, Obj(w), "failed")
        /\ UNCHANGED git
  /\ UNCHANGED <<planStatus, running, booted, sess, mapped, queue, active,
                 closed, ops>>

(* failStep() has reset the ticket; the plan pauses if it is set to.       *)
PauseAfterFailure(w) ==
  /\ At(w, "failed")
  /\ planStatus' = IF PauseOnFailure THEN "paused" ELSE planStatus
  /\ Goto(w, "fin")
  /\ UNCHANGED <<running, booted, step, sess, mapped, queue, active, git,
                 closed, ops>>

(* Mutant of MayRetry: one attempt too many.                               *)
MayRetryOnce(o) == o.attempt <= 1 + MaxRetries

MayRetry(o) == o.attempt < 1 + MaxRetries

(* Mutant of Reset: the status stays as it is.                             *)
ResetSession(o) == [o EXCEPT !.session = NoSession]

(* The step is to be worked on by a new agent.                             *)
Reset(o) == [o EXCEPT !.status = "ready", !.session = NoSession]

(* A verification failed: a new attempt while there are any left.          *)
RetryOrFail(w) ==
  LET o == Obj(w)  t == Cur(w).t IN
  /\ IF MayRetry(o)
       THEN BecomeAndDrop(w, [Reset(o) EXCEPT !.attempt = @ + 1], "fin")
       ELSE BecomeAndDrop(w, [o EXCEPT !.status = "failed"], "failed")
  /\ mapped' = mapped \ {fib[w].sid}
  /\ git' = [git EXCEPT ![t].checked = FALSE]
  /\ UNCHANGED <<planStatus, running, booted, sess, queue, active, closed, ops>>

Verify(w) ==
  /\ At(w, "verify")
  /\ \/ /\ Goto(w, "merge")
        /\ UNCHANGED <<planStatus, running, booted, step, sess, mapped, queue,
                       active, git, closed, ops>>
     \/ "verify" \in Faults /\ RetryOrFail(w)

(* WorktreeManager.merge() succeeded: the branch is in main, which moves   *)
(* every other branch behind it.                                           *)
Landed(t) ==
  [u \in Step |->
    IF u = t THEN [git[t] EXCEPT !.ahead = FALSE, !.behind = FALSE,
                                 !.landed = @ \/ git[t].ahead]
    ELSE [git[u] EXCEPT !.behind = @ \/ (git[u].dir /\ git[t].ahead)]]

MergeSucceeds(w) ==
  /\ git[Cur(w).t].tracked
  /\ git' = Landed(Cur(w).t)
  /\ Become(w, [Obj(w) EXCEPT !.status = "done"], "removing")
  /\ UNCHANGED planStatus

MayConflict(t) == "conflict" \in Faults /\ git[t].behind /\ git[t].ahead

(* Mutant of NeedsRebase: a failed merge is taken for a success.           *)
DoneWithoutMerge(w) ==
  /\ BecomeAndDrop(w, [Obj(w) EXCEPT !.status = "done"], "fin")
  /\ UNCHANGED planStatus

NeedsRebase(w) ==
  /\ BecomeAndDrop(w, [Obj(w) EXCEPT !.status = "needs-rebase"], "fin")
  /\ planStatus' = IF PauseOnFailure THEN "paused" ELSE planStatus

(* Mutant of MoreRebases: one rebase too many.                             *)
MoreRebasesOnce(o) == AutoRebase /\ o.rebases <= 3

MoreRebases(o) == AutoRebase /\ o.rebases < 3

(* The head of the loop around handleAutoRebase(): three rebases in all.   *)
NextRebase(w) ==
  IF MoreRebases(Obj(w))
    THEN /\ Become(w, [Obj(w) EXCEPT !.rebases = @ + 1], "rebase")
         /\ UNCHANGED planStatus
    ELSE NeedsRebase(w)

Merge(w) ==
  LET t == Cur(w).t IN
  /\ At(w, "merge")
  /\ \/ MergeSucceeds(w)
     \/ /\ git[t].tracked /\ MayConflict(t)
        /\ NextRebase(w)
        /\ UNCHANGED git
     \/ /\ ~git[t].tracked \/ "merge" \in Faults
        /\ NeedsRebase(w)
        /\ UNCHANGED git
  /\ UNCHANGED <<running, booted, sess, mapped, queue, active, closed, ops>>

(* Mutant of CleanRebase: the rebased branch is not verified again.        *)
CleanRebaseUnverified(w) ==
  /\ Become(w, Obj(w), "remerge")
  /\ git' = [git EXCEPT ![Cur(w).t].behind = FALSE, ![Cur(w).t].checked = FALSE]
  /\ UNCHANGED planStatus

CleanRebase(w) ==
  /\ Become(w, [Obj(w) EXCEPT !.status = "verifying"], "reverify")
  /\ git' = [git EXCEPT ![Cur(w).t].behind = FALSE, ![Cur(w).t].checked = TRUE]
  /\ UNCHANGED planStatus

(* handleAutoRebase(): attemptRebase() has returned.  A conflict is left   *)
(* to a new agent in the same worktree.                                    *)
Rebase(w) ==
  LET t == Cur(w).t IN
  /\ At(w, "rebase")
  /\ \/ git[t].tracked /\ CleanRebase(w)
     \/ /\ git[t].tracked /\ MayConflict(t)
        /\ BecomeAndDrop(w, [Reset(Obj(w)) EXCEPT !.conflict = TRUE], "fin")
        /\ UNCHANGED <<planStatus, git>>
     \/ /\ ~git[t].tracked \/ "rebase" \in Faults
        /\ NextRebase(w)
        /\ UNCHANGED git
  /\ UNCHANGED <<running, booted, sess, mapped, queue, active, closed, ops>>

Reverify(w) ==
  /\ At(w, "reverify")
  /\ \/ /\ fib' = [fib EXCEPT ![w].pc = "remerge", ![w].quick = 0]
        /\ UNCHANGED <<planStatus, running, booted, step, sess, mapped, queue,
                       active, git, closed, ops>>
     \/ "verify" \in Faults /\ RetryOrFail(w)

(* The merge after a clean rebase; while it conflicts, up to three more    *)
(* rebases follow that are not verified again.                             *)
Remerge(w) ==
  LET t == Cur(w).t IN
  /\ At(w, "remerge")
  /\ \/ MergeSucceeds(w)
     \/ /\ git[t].tracked /\ MayConflict(t) /\ fib[w].quick < 3
        /\ Goto(w, "quick")
        /\ UNCHANGED <<step, git, planStatus>>
     \/ /\ \/ ~git[t].tracked \/ "merge" \in Faults
           \/ MayConflict(t) /\ fib[w].quick = 3
        /\ NextRebase(w)
        /\ UNCHANGED git
  /\ UNCHANGED <<running, booted, sess, mapped, queue, active, closed, ops>>

QuickRebase(w) ==
  LET t == Cur(w).t IN
  /\ At(w, "quick")
  /\ \/ /\ git[t].tracked
        /\ git' = [git EXCEPT ![t].behind = FALSE, ![t].checked = FALSE]
        /\ fib' = [fib EXCEPT ![w].pc = "remerge", ![w].quick = @ + 1]
        /\ UNCHANGED <<step, planStatus>>
     \/ /\ ~git[t].tracked \/ MayConflict(t) \/ "rebase" \in Faults
        /\ NextRebase(w)
        /\ UNCHANGED git
  /\ UNCHANGED <<running, booted, sess, mapped, queue, active, closed, ops>>

(* The worktree and its branch are removed; a worker then closes the       *)
(* ticket.  The loop comes here for a skipped step.                        *)
RemoveWorktree(f) ==
  /\ At(f, "removing")
  /\ git' = Discarded(Cur(f).t)
  /\ BecomeAndDrop(f, [Obj(f) EXCEPT !.tree = FALSE],
                   IF f = Loop THEN "load" ELSE "fin")
  /\ closed' = IF f = Loop THEN closed ELSE closed \cup {Cur(f).t}
  /\ UNCHANGED <<planStatus, running, booted, sess, mapped, queue, active, ops>>

(* Mutant of VerificationOver: activeVerifications is not decremented.     *)
VerificationUncounted(w) ==
  /\ At(w, "fin")
  /\ fib' = [fib EXCEPT ![w] = [IdleFiber EXCEPT !.pc = "load"]]
  /\ UNCHANGED <<planStatus, running, booted, step, sess, mapped, queue, active,
                 git, closed, ops>>

(* The .finally() of the worker.                                           *)
VerificationOver(w) ==
  /\ At(w, "fin")
  /\ active' = active - 1
  /\ fib' = [fib EXCEPT ![w] = [IdleFiber EXCEPT !.pc = "load"]]
  /\ UNCHANGED <<planStatus, running, booted, step, sess, mapped, queue, git,
                 closed, ops>>

WorkerStep(w) ==
  \/ CheckWork(w) \/ Arbitrate(w) \/ DiscardEmpty(w) \/ PauseAfterFailure(w)
  \/ Verify(w) \/ Merge(w) \/ Rebase(w) \/ Reverify(w) \/ Remerge(w)
  \/ QuickRebase(w) \/ RemoveWorktree(w) \/ VerificationOver(w)

-----------------------------------------------------------------------------
(* The event loop of run().                                                *)

KeepGoing == running /\ ~ShouldExitLoop

LoopWaits ==
  /\ At(Loop, "check") /\ KeepGoing /\ queue = <<>>
  /\ Goto(Loop, "wait")
  /\ UNCHANGED <<planStatus, running, booted, step, sess, mapped, queue,
                 active, git, closed, ops>>

LoopExits ==
  /\ At(Loop, "check") /\ ~KeepGoing
  /\ Goto(Loop, "exited")
  /\ UNCHANGED <<planStatus, running, booted, step, sess, mapped, queue,
                 active, git, closed, ops>>

(* nextEvent() returns an event of type y.                                 *)
Take(y) ==
  /\ queue # <<>> /\ Head(queue).type = y
  /\ At(Loop, "wait") \/ (At(Loop, "check") /\ KeepGoing)
  /\ queue' = Tail(queue)
  /\ booted' = TRUE

(* handleWorktreeCompletion() is called for step t: it runs at once up to  *)
(* its first await, past the removal of the worktree's lock.               *)
Launched(o)   == [o EXCEPT !.conflict = FALSE]
Unlocked(T)   == [t \in Step |-> IF t \in T /\ step[t].tree
                                   THEN [git[t] EXCEPT !.lock = "none"]
                                   ELSE git[t]]

HandleCompleted(w) ==
  LET e == Head(queue) IN
  /\ Take("agent_completed")
  /\ w \in FreeWorkers
  /\ active' = active + 1
  /\ fib' = [fib EXCEPT ![w] = NewWorker(e.t, e.sid), ![Loop].pc = "check"]
  /\ step' = [step EXCEPT ![e.t] = Launched(@)]
  /\ git' = Unlocked({e.t})
  /\ UNCHANGED <<planStatus, running, sess, mapped, closed, ops>>

HandleDone ==
  /\ Take("verification_done")
  /\ Goto(Loop, "check")
  /\ UNCHANGED <<planStatus, running, step, sess, mapped, active, git, closed,
                 ops>>

(* stall_check: a plan with work under way in which nothing has moved for  *)
(* long (however long that is) pauses; agents and handlers go on.          *)
Stalled == PauseOnFailure /\ planStatus = "executing"
           /\ \E t \in Step : step[t].status \in {"in-progress", "verifying"}

HandleStall ==
  /\ Take("stall_check")
  /\ planStatus' \in {planStatus} \cup (IF Stalled THEN {"paused"} ELSE {})
  /\ Goto(Loop, "check")
  /\ UNCHANGED <<running, step, sess, mapped, active, git, closed, ops>>

(* pause: the agents of all steps in progress are stopped, one after the   *)
(* other, and their steps reset.                                           *)
HandlePause ==
  /\ Take("pause")
  /\ planStatus' = "paused"
  /\ fib' = [fib EXCEPT ![Loop] =
       [@ EXCEPT !.pc = "pausing",
                 !.hold = [i \in DOMAIN StepSeq |-> Ref(StepSeq[i])]]]
  /\ UNCHANGED <<running, step, sess, mapped, active, git, closed, ops>>

PauseNext == IF Len(fib[Loop].hold) = 1 THEN "check" ELSE "pausing"

PauseStep ==
  LET o == Obj(Loop) IN
  /\ At(Loop, "pausing")
  /\ \/ /\ o.status = "in-progress" /\ o.session # NoSession
        /\ mapped' = mapped \ {o.session}
        /\ fib' = [fib EXCEPT ![Loop].pc = "killed", ![Loop].sid = o.session]
        /\ UNCHANGED step
     \/ /\ ~(o.status = "in-progress" /\ o.session # NoSession)
        /\ BecomeAndDrop(Loop, o, PauseNext)
        /\ UNCHANGED mapped
  /\ UNCHANGED <<planStatus, running, booted, sess, queue, active, git, closed,
                 ops>>

(* stopSession() has returned.                                             *)
PauseReset ==
  LET o == Reset(Obj(Loop))  e == Cur(Loop) IN
  /\ At(Loop, "killed")
  /\ sess' = [sess EXCEPT ![fib[Loop].sid].st = "none"]
  /\ step' = IF e.stale THEN step ELSE [step EXCEPT ![e.t] = o]
  /\ fib' = [fib EXCEPT ![Loop].pc = PauseNext, ![Loop].sid = NoSession,
                        ![Loop].hold = Tail(@)]
  /\ UNCHANGED <<planStatus, running, booted, mapped, queue, active, git,
                 closed, ops>>

(* resume, up to recomputeAndContinue(): steps whose agent is gone and     *)
(* failed steps become ready; steps that wait for a rebase, and steps in   *)
(* verification whose session is gone, are handed to a new worker.         *)
Lost(t) == ~Alive(step[t].session)
Relaunched ==
  {t \in Step : /\ step[t].tree
                /\ \/ step[t].status = "needs-rebase"
                   \/ step[t].status = "verifying" /\ Lost(t)}
Resumed(t) ==
  LET o == step[t] IN
     CASE t \in Relaunched ->
            [Launched(o) EXCEPT
               !.rebases = IF o.status = "needs-rebase" THEN 0 ELSE @]
       [] o.status = "in-progress" /\ Lost(t)         -> Reset(o)
       [] o.status = "verifying" /\ Lost(t) /\ ~o.tree -> [Reset(o) EXCEPT !.attempt = @ + 1]
       [] o.status = "failed" -> [Reset(o) EXCEPT !.attempt = 1, !.rebases = 0]
       [] o.status = "needs-rebase" /\ ~o.tree        -> Reset(o)
       [] OTHER -> o

HandleResume ==
  /\ Take("resume")
  /\ planStatus' = "executing"
  /\ step' = [t \in Step |-> Resumed(t)]
  /\ git' = [t \in Step |->
               [Unlocked(Relaunched)[t] EXCEPT !.tracked = @ \/ step[t].tree]]
  /\ mapped' = mapped \ {step[t].session :
                           t \in {u \in Step : /\ step[u].status = "in-progress"
                                               /\ Lost(u)}}
  /\ active' = active + Cardinality(Relaunched)
  /\ \E slot \in [Relaunched -> FreeWorkers] :
       /\ \A t, u \in Relaunched : slot[t] = slot[u] => t = u
       /\ fib' = [f \in Fiber |->
            IF f = Loop THEN [fib[f] EXCEPT !.pc = "load"]
            ELSE IF \E t \in Relaunched : slot[t] = f
              THEN NewWorker(CHOOSE t \in Relaunched : slot[t] = f, NoSession)
              ELSE fib[f]]
  /\ UNCHANGED <<running, sess, closed, ops>>

(* skip: whatever the step is doing.                                       *)
HandleSkip ==
  LET t == Head(queue).t IN
  /\ Take("skip")
  /\ step' = [step EXCEPT ![t].status = "skipped"]
  /\ fib' = IF step[t].tree
              THEN [fib EXCEPT ![Loop].pc = "removing", ![Loop].hold = <<Ref(t)>>]
              ELSE [fib EXCEPT ![Loop].pc = "load"]
  /\ UNCHANGED <<planStatus, running, sess, mapped, active, git, closed, ops>>

HandleRetry ==
  LET t == Head(queue).t IN
  /\ Take("retry")
  /\ step' = IF step[t].status \in {"failed", "needs-rebase"}
               THEN [step EXCEPT ![t] = [Reset(@) EXCEPT !.attempt = 1,
                                                         !.rebases = 0]]
               ELSE step
  /\ Goto(Loop, "load")
  /\ UNCHANGED <<planStatus, running, sess, mapped, active, git, closed, ops>>

LoopStep ==
  \/ LoopWaits \/ LoopExits \/ (\E w \in Worker : HandleCompleted(w))
  \/ HandleDone \/ HandlePause \/ PauseStep \/ PauseReset \/ HandleResume
  \/ HandleSkip \/ HandleRetry \/ HandleStall

-----------------------------------------------------------------------------
(* The agents, and what SessionManager tells the executor about them.      *)

(* The agent of session s commits to its branch.  An agent that resolves a *)
(* conflict brings the branch up to date with main.                        *)
AgentCommit(s) ==
  LET t == sess[s].t IN
  /\ sess[s].st = "live" /\ git[t].dir
  /\ \E b \in {git[t].behind} \cup (IF step[t].conflict THEN {FALSE} ELSE {}) :
       git' = [git EXCEPT ![t] = [@ EXCEPT !.ahead = TRUE, !.checked = FALSE,
                                           !.behind = b]]
  /\ UNCHANGED <<planStatus, running, booted, step, sess, mapped, queue,
                 active, fib, closed, ops>>

(* session_stopped is emitted; the executor listens for mapped sessions.   *)
Notify(s) ==
  queue' = IF s \in mapped
             THEN Append(queue, [type |-> "agent_completed", t |-> sess[s].t,
                                 sid |-> s])
             ELSE queue

AgentExit(s) ==
  /\ sess[s].st = "live"
  /\ sess' = [sess EXCEPT ![s].st = "exited"]
  /\ Notify(s)
  /\ UNCHANGED <<planStatus, running, booted, step, mapped, active, fib, git,
                 closed, ops>>

(* The second session_stopped of a session that the user stopped.          *)
StopNoticed(s) ==
  /\ sess[s].st = "stopping"
  /\ sess' = [sess EXCEPT ![s].st = "none"]
  /\ Notify(s)
  /\ UNCHANGED <<planStatus, running, booted, step, mapped, active, fib, git,
                 closed, ops>>

-----------------------------------------------------------------------------
(* The user, through the station or the TUI.                               *)

Call(op) == /\ op \in UserOps
            /\ ops < MaxOps
            /\ ~At(Loop, "exited")
            /\ ops' = ops + 1

Push(y, t) == queue' = Append(queue, [type |-> y, t |-> t, sid |-> NoSession])

UserPause ==
  /\ Call("pause")
  /\ planStatus' = "paused"
  /\ Push("pause", StepSeq[1])
  /\ UNCHANGED <<running, booted, step, sess, mapped, active, fib, git, closed>>

UserResume ==
  /\ Call("resume")
  /\ Push("resume", StepSeq[1])
  /\ UNCHANGED <<planStatus, running, booted, step, sess, mapped, active, fib,
                 git, closed>>

UserSkip(t) ==
  /\ Call("skip")
  /\ Push("skip", t)
  /\ UNCHANGED <<planStatus, running, booted, step, sess, mapped, active, fib,
                 git, closed>>

UserRetry(t) ==
  /\ Call("retry")
  /\ Push("retry", t)
  /\ UNCHANGED <<planStatus, running, booted, step, sess, mapped, active, fib,
                 git, closed>>

(* The timer of the stall detector.                                        *)
StallTimer ==
  /\ Call("stall")
  /\ Push("stall_check", StepSeq[1])
  /\ UNCHANGED <<planStatus, running, booted, step, sess, mapped, active, fib,
                 git, closed>>

(* stop(): also resolves the promise the loop waits for.                   *)
UserStop ==
  /\ Call("stop")
  /\ running' = FALSE
  /\ IF At(Loop, "wait") /\ queue = <<>> THEN Goto(Loop, "check")
                                         ELSE UNCHANGED fib
  /\ UNCHANGED <<planStatus, booted, step, sess, mapped, queue, active, git,
                 closed>>

(* SessionManager.stopSession() of a live agent: session_stopped reaches   *)
(* the executor, and reaches it again if consumeEvents() noticed the end   *)
(* of the event stream while the session's descriptor was being written.   *)
UserKill(s) ==
  /\ Call("kill")
  /\ sess[s].st = "live"
  /\ \E st \in {"none", "stopping"} : sess' = [sess EXCEPT ![s].st = st]
  /\ Notify(s)
  /\ UNCHANGED <<planStatus, running, booted, step, mapped, active, fib, git,
                 closed>>

(* Somebody closes the ticket of a step.                                   *)
UserClose(t) ==
  /\ Call("close")
  /\ closed' = closed \cup {t}
  /\ UNCHANGED <<planStatus, running, booted, step, sess, mapped, queue,
                 active, fib, git>>

(* Somebody commits to main.                                               *)
UserCommit ==
  /\ Call("commit")
  /\ git' = [t \in Step |-> [git[t] EXCEPT !.behind = @ \/ git[t].dir]]
  /\ UNCHANGED <<planStatus, running, booted, step, sess, mapped, queue, active,
                 fib, closed>>

UserStep ==
  \/ UserPause \/ UserResume \/ UserStop \/ UserCommit \/ StallTimer
  \/ \E t \in Step : UserSkip(t) \/ UserRetry(t) \/ UserClose(t)
  \/ \E s \in Session : UserKill(s)

-----------------------------------------------------------------------------
AgentStep(s) == AgentCommit(s) \/ AgentExit(s) \/ StopNoticed(s)

(* The loop goes on in a microtask when it has handled an event, and when  *)
(* an event resolves the promise it waits for: before any other fiber,     *)
(* agent or user gets a turn.  Model bound: an event that starts more      *)
(* workers than there are free slots has to wait for slots.                *)
SlotsNeeded == IF queue = <<>> THEN 0
               ELSE IF Head(queue).type = "agent_completed" THEN 1
               ELSE IF Head(queue).type = "resume" THEN Cardinality(Relaunched)
               ELSE 0
LoopIsNext == \/ At(Loop, "check") /\ ~KeepGoing
              \/ /\ At(Loop, "check") \/ (At(Loop, "wait") /\ queue # <<>>)
                 /\ SlotsNeeded <= Cardinality(FreeWorkers)

OtherStep(f) == /\ ~LoopIsNext
                /\ \/ RecomputeStep(f)
                   \/ f \in Worker /\ WorkerStep(f)
                   \/ f = Loop /\ RemoveWorktree(Loop)

Next == \/ LoopStep
        \/ \E f \in Fiber : OtherStep(f)
        \/ ~LoopIsNext /\ ((\E s \in Session : AgentStep(s)) \/ UserStep)

Spec == Init /\ [][Next]_vars

(* Promises settle and agents end; nobody has to call anything.            *)
FairSpec == /\ Spec
            /\ WF_vars(LoopStep)
            /\ \A f \in Fiber : WF_vars(OtherStep(f))
            /\ \A s \in Session : WF_vars(~LoopIsNext /\ AgentExit(s))

-----------------------------------------------------------------------------
(* Properties.                                                             *)

Working(w) == fib[w].pc \in {"work", "arbitrate", "verify", "merge", "rebase",
                             "reverify", "remerge", "quick", "discard",
                             "failed", "removing", "fin"}
LiveOn(t)  == {s \in Session : sess[s].st = "live" /\ sess[s].t = t}
Live       == {s \in Session : sess[s].st = "live"}
Starts(t)  == \E s \in LiveOn(t)' : s \notin LiveOn(t)

(* activeVerifications, on which the end of the loop depends, counts the   *)
(* completion handlers that are under way, neither more nor less.          *)
VerificationsCounted == active = Cardinality({w \in Worker : Working(w)})

(* A plan never starts an agent for a step while one that blocks it is     *)
(* neither resolved in the plan nor closed on disk.                        *)
DependenciesRespected ==
  [][\A t \in Step : Starts(t) =>
       \A d \in BlockedBy[t] :
         d \in closed \/ step[d].status \in {"done", "skipped"}]_vars

(* Never two agents at once in the worktree of one step.                   *)
OneAgentPerStep == \A t \in Step : Cardinality(LiveOn(t)) <= 1

(* maxConcurrentAgents bounds the agents that run at the same time.        *)
AgentsBounded == Cardinality(Live) <= MaxAgents

(* A step is reported done only when commits of its branch are in main.    *)
DoneMeansLanded ==
  \A t \in Step : step[t].status = "done" => git[t].landed

(* Commits that have not reached main disappear only with a step that the  *)
(* user skipped.                                                           *)
WorkIsKept ==
  [][\A t \in Step : git[t].ahead /\ ~git'[t].ahead
       => git'[t].landed \/ step'[t].status = "skipped"]_vars

(* What reaches main is what passed verification: the branch has not       *)
(* changed since.                                                          *)
LandsVerified ==
  [][\A t \in Step : ~git[t].landed /\ git'[t].landed => git[t].checked]_vars

(* An agent is never told to try again more often than maxRetries allows.  *)
RetriesBounded == \A t \in Step : step[t].attempt <= 1 + MaxRetries

(* A finished step is never started again or re-judged behind the user's   *)
(* back.                                                                   *)
DoneIsFinal ==
  [][\A t \in Step : step[t].status = "done" => step'[t].status = "done"]_vars

(* A step in progress is never forgotten: its agent runs and the executor  *)
(* listens to it, or the news of its end is on the way or being handled.   *)
InProgressIsAttended ==
  \A t \in Step : step[t].status = "in-progress" =>
    \/ LiveOn(t) \cap mapped # {}
    \/ \E i \in DOMAIN queue : queue[i].type = "agent_completed" /\ queue[i].t = t
    \/ \E f \in Fiber : fib[f].hold # <<>> /\ Cur(f).t = t
    \/ At(Loop, "exited")

(* A step under verification is in the hands of a completion handler.      *)
VerifyingIsAttended ==
  \A t \in Step : step[t].status = "verifying" =>
    \E w \in Worker : /\ fib[w].hold # <<>> /\ Cur(w).t = t
                        /\ Working(w) /\ ~Cur(w).stale

(* A completion handler writes to the step that is in the plan, never to a *)
(* copy that the plan has left behind.                                     *)
HandlersWriteToPlan ==
  \A w \in Worker : Working(w) /\ fib[w].hold # <<>> => ~Cur(w).stale

(* When pauseOnFailure is set the failure of a step that had an agent      *)
(* pauses the plan (the failure to start one does not).                    *)
FailurePauses ==
  \A t \in Step : step[t].status = "failed" /\ step[t].session # NoSession
                    ~> planStatus = "paused"

(* A paused plan comes to rest: agents stop or end, handlers finish, and   *)
(* no step is left in progress or in verification.                         *)
AtRest == /\ Live = {} /\ Occupied = {}
          /\ \A w \in Worker : ~Working(w)
PauseRests == planStatus = "paused" ~> planStatus # "paused" \/ AtRest

(* In a paused plan nobody chooses steps to start, but run() itself.       *)
Chosen(f) == IF fib[f].pc \in {"create", "install", "spawn"}
               THEN {fib[f].hold[i].t : i \in DOMAIN fib[f].hold} ELSE {}
PausedChoosesNothing ==
  [][planStatus = "paused" => \A f \in Fiber :
       Chosen(f)' \subseteq Chosen(f) \/ (f = Loop /\ ~booted)]_vars

(* Every step comes to an end or stays blocked behind one that has failed, *)
(* or the plan stays paused.                                               *)
Settles ==
  \A t \in Step :
    <>[](\/ step[t].status \in TerminalStatus
         \/ step[t].status = "blocked" /\ Unresolved(t) # {}
         \/ planStatus = "paused")

(* Pausing lets the agents that run continue.                              *)
PauseKeepsAgents ==
  [][\A s \in Live : planStatus = "paused" => sess'[s].st # "none"]_vars

(* While the plan is paused no agent is started.                           *)
PausedStartsNothing ==
  [][planStatus = "paused" => \A t \in Step : ~Starts(t)]_vars

(* A plan marked done has no step left to do and no handler at work.       *)
PlanDoneIsComplete ==
  planStatus = "done" =>
    /\ \A t \in Step : step[t].status \in TerminalStatus
    /\ \A w \in Worker : ~Working(w)

(* run() returns only with no step left to do and no handler at work.      *)
ExitMeansOver ==
  At(Loop, "exited") => /\ \A t \in Step : step[t].status \in TerminalStatus
                        /\ \A w \in Worker : ~Working(w)

(* Once nothing is left to do the plan is marked done and run() returns,   *)
(* unless it is paused: the event loop is woken for it.  If run() itself   *)
(* could start no step at all it returns with the plan as it was.          *)
PlanEnds == IsPlanTerminal /\ planStatus = "executing"
              ~> \/ planStatus = "paused"
                 \/ At(Loop, "exited") /\ (planStatus = "done" \/ ~booted)

-----------------------------------------------------------------------------
(* The properties of the runs that have several parts.                     *)

(* A step gets no more attempts than maxRetries allows and is done only    *)
(* when its work is in main, and no more agents run than the slots that    *)
(* startReadySteps() counts, however often a step fails or is rebased      *)
(* (handleWorktreeCompletion, handleAutoRebase).                           *)
StepsSound == RetriesBounded /\ DoneMeansLanded /\ AgentsBounded

(* A failure pauses the plan when the configuration says so, whatever      *)
(* other handlers do; and a plan that is paused, by a failure or by the    *)
(* user whose pause is queued behind other events, chooses no step to      *)
(* start and comes to rest (pauseOnFailure, pause, startReadySteps).       *)
PauseHolds == FailurePauses /\ PausedChoosesNothing /\ PauseRests

(* A worktree has one agent at a time and stays while it is at work, in    *)
(* spite of handlers that recompute the plan at the same time.             *)
OwnTree == [][OneAgentPerStep' /\ \A t \in Step : git[t].dir /\ ~git'[t].dir
                                     => LiveOn(t) = {}]_vars

(* Neither is a plan marked done nor does run() return while a step is     *)
(* left or a handler is at work (isPlanTerminal, shouldExitLoop).          *)
PlanOver == PlanDoneIsComplete /\ ExitMeansOver

(* Whatever the user does and whenever, no step in progress and none under *)
(* verification is left without somebody who will end it.                  *)
Attended == VerifyingIsAttended /\ InProgressIsAttended

=============================================================================
