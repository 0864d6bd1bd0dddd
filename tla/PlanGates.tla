----------------------------- MODULE PlanGates ------------------------------
(***************************************************************************)
(* The gates of a plan (orchestrator/executor.ts): stages with their smoke *)
(* tests and approvals, an integration branch with its final gate,         *)
(* confirmations by the user, and the restart of a plan that was saved     *)
(* when its executor died (orchestrator/reconcile.ts).                     *)
(*                                                                         *)
(* PlanExecutor has the work on a single step.  Here that work is two      *)
(* steps, its beginning and its outcome, and recomputeAndContinue(), which *)
(* any number of completion handlers and the event loop run at once, is    *)
(* cut at its awaits.                                                      *)
(*                                                                         *)
(* A restriction: while one fiber starts agents, which it does one after   *)
(* the other, the others wait before they read the tickets or choose steps *)
(* to start.  What happens if they do not (a step started twice, objects   *)
(* that have left the plan) is PlanExecutor's.                             *)
(***************************************************************************)
EXTENDS Integers, FiniteSets

CONSTANTS
  Step,          \* the steps of the plan
  Loop,          \* the fiber of the event loop
  Child,         \* the steps with the integration branch
  Asked,         \* the steps in verification mode "confirmation"
  Stages,        \* number of stages
  StageOf,       \* the stage of each step
  MaxAgents,     \* maxConcurrentAgents
  Fault,         \* what may fail
  Config,        \* settings, dependencies and what has been skipped
  Call,          \* what the user may do, and "crash"
  MaxCalls       \* bound: how often something of this happens

Stage == 1..Stages

ASSUME GatesAssumption ==
  /\ IsFiniteSet(Step) /\ Loop \notin Step
  /\ Child \subseteq Step /\ Asked \subseteq Step
  /\ Stages \in Nat \ {0} /\ StageOf \in [Step -> Stage]
  /\ MaxAgents \in Nat \ {0} /\ MaxCalls \in Nat
  /\ Config \subseteq [autoContinue: BOOLEAN, pauseOnFailure: BOOLEAN,
                      blockedBy: [Step -> SUBSET Step],
                      skipped: SUBSET Step]

Status == {"blocked", "ready", "in-progress", "verifying", "done", "failed",
           "skipped", "needs-rebase", "pending-confirmation"}

(* at: what a fiber awaits.  working is handleWorktreeCompletion(),        *)
(* confirming the merge of a confirmed step; the rest is                   *)
(* recomputeAndContinue(): the tickets, the project of the integration     *)
(* branch, its tests, its merge, its deletion, the plan's file, the smoke  *)
(* tests of a stage and of the plan, the start of an agent.  The loop also *)
(* awaits, in run(), what precedes the first starts and these starts, and  *)
(* it is testing whether to go on, and over.                               *)
At == {"idle", "working", "confirming", "tickets", "project", "gate",
       "landing", "deleting", "saving", "stageSmoke", "planSmoke", "starts",
       "starting", "firstStarts", "testing", "over"}

Fiber == Step \cup {Loop}

VARIABLES
  config,        \* plan.config, steps[].blockedBy, what was skipped before
  status,        \* steps[].status
  planStatus,    \* plan.status
  stage,         \* plan.currentStage
  stageStatus,   \* plan.stages[].status
  finalized,     \* finalizedIntegrationBranches has the branch
  branch,        \* the integration branch exists
  work,          \* where the commits of each step are
  job,           \* what each fiber awaits
  chosen,        \* toStart: the steps that are still to be started
  running,       \* Executor.running
  woken,         \* verification_done is in the queue
  saved,         \* the plan's file
  calls,         \* how often the user or a crash has intervened
  early,         \* history: the user has left a stage before it was complete
  missed         \* history: how many starts have failed since the last choice

startVars == <<chosen, missed>>

gateVars == <<config, status, planStatus, stage, stageStatus, finalized, branch,
              work, job, running, woken, saved, calls, early, startVars>>

Plan == [status: [Step -> Status], planStatus: {"executing", "paused", "done"},
         stage: Stage,
         stageStatus: [Stage -> {"pending", "executing", "completed", "failed"}]]

Current == [status |-> status, planStatus |-> planStatus, stage |-> stage,
            stageStatus |-> stageStatus]

(* A worktree that the executor's WorktreeManager does not know is stray.  *)
Place == {"none", "worktree", "stray", "branch", "main", "lost"}

HasWorktree(place) == place \in {"worktree", "stray"}

GatesTypeOK ==
  /\ config \in Config
  /\ Current \in Plan /\ saved \in Plan
  /\ finalized \in BOOLEAN /\ branch \in BOOLEAN
  /\ work \in [Step -> Place]
  /\ job \in [Fiber -> At]
  /\ chosen \subseteq Step /\ missed \in Nat
  /\ running \in BOOLEAN /\ woken \in BOOLEAN /\ early \in BOOLEAN
  /\ calls \in 0..MaxCalls

Staged == Stages > 1

TerminalStatus == {"done", "failed", "skipped", "needs-rebase"}

(* isPlanTerminal(): working fibers are the active verifications.          *)
Terminal(st) ==
  /\ \A s \in Step : job[s] # "working"
  /\ \A s \in Step : st[s] \in TerminalStatus

StepsOf(i) == {s \in Step : StageOf[s] = i}

StageOver(i, ss, st) ==
  /\ Staged /\ ss[i] = "executing"
  /\ \A s \in StepsOf(i) : st[s] \in TerminalStatus

(* markCurrentStageCompleted()                                             *)
Marked(i, ss, st) ==
  IF Staged /\ ss[i] = "executing"
  THEN [ss EXCEPT ![i] = IF \E s \in StepsOf(i) : st[s] \in {"failed", "needs-rebase"}
                         THEN "failed" ELSE "completed"]
  ELSE ss

Under(st) == {s \in Step : st[s] \in {"in-progress", "verifying"}}

(* mutant of Startable: what is ready in a later stage is started, too.    *)
StartableInAnyStage(i) == {s \in Step : status[s] = "ready"}

(* startReadySteps(), in stage i: which steps it starts.                   *)
Startable(i) ==
  {s \in Step : status[s] = "ready"
                /\ (config.autoContinue \/ ~Staged \/ StageOf[s] = i)}

Free == MaxAgents - Cardinality(Under(status))

(* mutant of Starts: started one after the other, one per recomputation.   *)
StartsOne(i) ==
  {T \in SUBSET Startable(i) :
     /\ Cardinality(T) <= 1
     /\ Cardinality(T) <= Free}

Starts(i) ==
  LET n == Cardinality(Startable(i)) IN
  {T \in SUBSET Startable(i) :
     Cardinality(T) = IF n <= Free THEN n ELSE IF Free > 0 THEN Free ELSE 0}

(* A fiber is through with recomputeAndContinue().                         *)
Ends(f) ==
  IF f = Loop
  THEN job' = [job EXCEPT ![f] = "testing"] /\ UNCHANGED woken
  ELSE job' = [job EXCEPT ![f] = "idle"] /\ woken' = TRUE

Goes(f, at) == job' = [job EXCEPT ![f] = at] /\ UNCHANGED woken

SavePlan == saved' = [status |-> status', planStatus |-> planStatus',
                      stage |-> stage', stageStatus |-> stageStatus']

Starting == \E f \in Fiber : job[f] \in {"starts", "firstStarts"}

(* The end of recomputeAndContinue(), in a current stage of ss.            *)
TestTerminal(f, ss) ==
  IF planStatus # "paused" /\ Terminal(status')
  THEN stageStatus' = Marked(stage', ss, status') /\ Goes(f, "planSmoke")
  ELSE stageStatus' = ss /\ Ends(f)

(* Stage i of ss is current: startReadySteps() chooses what to start.      *)
Choose(f, i, ss) ==
  /\ ~Starting
  /\ chosen' \in Starts(i)
  /\ missed' = 0
  /\ stage' = i
  /\ UNCHANGED <<status, planStatus, branch>>
  /\ IF chosen' = {} THEN TestTerminal(f, ss)
                     ELSE stageStatus' = ss /\ Goes(f, "starts")

-----------------------------------------------------------------------------
(* recomputeAndContinue(), await by await.                                 *)

Recomputed ==
  [s \in Step |->
     IF status[s] \notin {"blocked", "ready"} THEN status[s]
     ELSE IF \A b \in config.blockedBy[s] : status[b] \in {"done", "skipped"}
          THEN "ready" ELSE "blocked"]

ChildrenOver == Child # {} /\ \A s \in Child : status[s] \in {"done", "skipped"}

Tickets(f) ==
  /\ job[f] = "tickets" /\ ~Starting
  /\ status' = Recomputed
  /\ Goes(f, IF ~finalized /\ ChildrenOver THEN "project" ELSE "saving")
  /\ UNCHANGED <<config, planStatus, stage, stageStatus, finalized, branch, work,
                 running, saved, calls, early, startVars>>

(* mutant of Project: one child that is skipped is enough to drop it.      *)
ProjectDrops(f) ==
  /\ job[f] = "project"
  /\ finalized' = TRUE
  /\ Goes(f, IF \A s \in Child : status[s] = "done" THEN "gate" ELSE "deleting")
  /\ UNCHANGED <<config, status, planStatus, stage, stageStatus, branch, work,
                 running, saved, calls, early, startVars>>

Project(f) ==
  /\ job[f] = "project"
  /\ finalized' = TRUE
  /\ Goes(f, IF \E s \in Child : status[s] = "done" THEN "gate" ELSE "deleting")
  /\ UNCHANGED <<config, status, planStatus, stage, stageStatus, branch, work,
                 running, saved, calls, early, startVars>>

DoneChildrenBecome(st) ==
  status' = [s \in Step |->
               IF s \in Child /\ status[s] = "done" THEN st ELSE status[s]]

(* runFinalIntegrationGate(): the worktree may not be made, the tests may  *)
(* fail; otherwise the branch is to be merged.  A project's file is read   *)
(* before any worktree has been made.                                      *)
Gate(f) ==
  /\ job[f] = "gate"
  /\ \A g \in Fiber : job[g] # "project"
  /\ \/ /\ ~branch \/ "gate" \in Fault
        /\ Goes(f, "saving") /\ UNCHANGED status
     \/ /\ branch /\ "gateTests" \in Fault
        /\ DoneChildrenBecome("failed")
        /\ Goes(f, "saving")
     \/ branch /\ Goes(f, "landing") /\ UNCHANGED status
  /\ UNCHANGED <<config, planStatus, stage, stageStatus, finalized, branch, work,
                 running, saved, calls, early, startVars>>

(* The integration branch is merged and then deleted, one git command      *)
(* after the other.                                                        *)
Land(f) ==
  /\ job[f] = "landing"
  /\ \/ /\ branch
        /\ work' = [s \in Step |-> IF work[s] = "branch" THEN "main" ELSE work[s]]
        /\ branch' = FALSE
        /\ UNCHANGED status
     \/ /\ ~branch \/ "landing" \in Fault
        /\ DoneChildrenBecome("needs-rebase")
        /\ UNCHANGED <<work, branch>>
  /\ Goes(f, "saving")
  /\ UNCHANGED <<config, planStatus, stage, stageStatus, finalized, running,
                 saved, calls, early, startVars>>

(* cleanupIntegrationBranch(), git branch -D: what is in it is gone.       *)
Delete(f) ==
  /\ job[f] = "deleting"
  /\ branch' = FALSE
  /\ work' = [s \in Step |-> IF work[s] # "branch" THEN work[s]
                            ELSE IF status[s] = "skipped" THEN "none" ELSE "lost"]
  /\ Goes(f, "saving")
  /\ UNCHANGED <<config, status, planStatus, stage, stageStatus, finalized,
                 running, saved, calls, early, startVars>>

(* The plan is saved; checkStageCompletion() up to its smoke test, or the  *)
(* start of what is ready.                                                 *)
Save(f) ==
  /\ job[f] = "saving"
  /\ saved' = Current
  /\ IF planStatus = "executing" /\ ~StageOver(stage, stageStatus, status)
     THEN Choose(f, stage, stageStatus)
     ELSE /\ IF planStatus = "executing"
             THEN /\ stageStatus' = Marked(stage, stageStatus, status)
                  /\ Goes(f, "stageSmoke")
             ELSE IF planStatus = "done" /\ Terminal(status)
             THEN /\ stageStatus' = Marked(stage, stageStatus, status)
                  /\ Goes(f, "planSmoke")
             ELSE UNCHANGED stageStatus /\ Ends(f)
          /\ UNCHANGED <<status, branch, stage, planStatus, chosen, missed>>
  /\ UNCHANGED <<config, finalized, work, running, calls, early>>

(* The smoke test of a stage ends: the plan pauses, or the next stage is   *)
(* made current, and tested at once if it is over.                         *)
StageSmoke(f) ==
  LET next == [stageStatus EXCEPT ![stage + 1] = "executing"] IN
  /\ job[f] = "stageSmoke"
  /\ \/ /\ "smoke" \in Fault \/ (stage < Stages /\ ~config.autoContinue)
        /\ planStatus' = "paused"
        /\ UNCHANGED <<status, branch, stage, stageStatus, chosen, missed>>
        /\ SavePlan
        /\ Ends(f)
     \/ stage = Stages /\ Choose(f, stage, stageStatus) /\ UNCHANGED saved
     \/ /\ stage < Stages /\ config.autoContinue
        /\ IF StageOver(stage + 1, next, status)
           THEN /\ stage' = stage + 1
                /\ stageStatus' = Marked(stage + 1, next, status)
                /\ Goes(f, "stageSmoke")
                /\ UNCHANGED <<status, branch, planStatus, chosen, missed>>
           ELSE Choose(f, stage + 1, next)
        /\ UNCHANGED saved
  /\ UNCHANGED <<config, finalized, work, running, calls, early>>

(* A child that has no worktree yet is started from the integration        *)
(* branch, which is made for the first one.                                *)
Branching == {s \in Child : ~HasWorktree(work[s])}

(* startReadySteps(): the next step is started, or fails; the last one is  *)
(* followed by the rest of the caller.                                     *)
Start(f) ==
  /\ job[f] \in {"starts", "firstStarts"}
  /\ \E s \in chosen :
       /\ chosen' = chosen \ {s}
       /\ \/ /\ status' = [status EXCEPT ![s] = "in-progress"]
             /\ branch' = (branch \/ s \in Branching)
             /\ saved' = [Current EXCEPT !.status = status']
             /\ UNCHANGED missed
          \/ /\ "start" \in Fault
             /\ status' = [status EXCEPT ![s] = "failed"]
             /\ branch' \in {branch, branch \/ s \in Branching}
             /\ missed' = missed + 1
             /\ UNCHANGED saved
  /\ UNCHANGED <<planStatus, stage>>
  /\ IF chosen' # {} THEN UNCHANGED <<stageStatus, job, woken>>
     ELSE IF job[f] = "starts" THEN TestTerminal(f, stageStatus)
     ELSE Goes(f, "testing") /\ UNCHANGED stageStatus
  /\ UNCHANGED <<config, finalized, work, running, calls, early>>

PlanSmoke(f) ==
  /\ job[f] = "planSmoke"
  /\ planStatus' = "done"
  /\ running' = FALSE
  /\ Ends(f)
  /\ UNCHANGED <<status, stage, stageStatus>>
  /\ SavePlan
  /\ UNCHANGED <<config, finalized, branch, work, calls, early, startVars>>

Recompute(f) ==
  \/ Tickets(f) \/ Project(f) \/ Gate(f) \/ Land(f) \/ Delete(f)
  \/ Save(f) \/ StageSmoke(f) \/ Start(f) \/ PlanSmoke(f)

-----------------------------------------------------------------------------
(* The steps' agents and completion handlers.                              *)

(* agent_completed: the agent has ended, with commits or without.          *)
AgentCompleted(s) ==
  /\ job[Loop] = "idle" /\ job[s] = "idle"
  /\ status[s] = "in-progress"
  /\ status' = [status EXCEPT ![s] = "verifying"]
  /\ work' = [work EXCEPT ![s] = IF @ = "stray" THEN @ ELSE "worktree"]
  /\ job' = [job EXCEPT ![s] = "working", ![Loop] = "testing"]
  /\ \/ UNCHANGED saved
     \/ saved' = [Current EXCEPT !.status = status']
  /\ UNCHANGED <<config, planStatus, stage, stageStatus, finalized, branch,
                 running, woken, calls, early, startVars>>

(* The branch of a step can be merged into its target.                     *)
Mergeable(s) == work[s] = "worktree" /\ (s \in Child => branch)

Target(s) == IF s \in Child THEN "branch" ELSE "main"

(* handleWorktreeCompletion() is over; recomputeAndContinue() follows.     *)
Completed(s, st) ==
  /\ job[s] = "working"
  /\ status' = [status EXCEPT ![s] = st]
  /\ Goes(s, "tickets")
  /\ UNCHANGED <<config, stage, stageStatus, finalized, branch, running, calls,
                 early, startVars>>

Lands(s) ==
  /\ Mergeable(s) /\ s \notin Asked
  /\ Completed(s, "done")
  /\ work' = [work EXCEPT ![s] = Target(s)]
  /\ UNCHANGED <<planStatus, saved>>

PauseIfConfigured ==
  IF config.pauseOnFailure THEN planStatus' = "paused" /\ SavePlan
                           ELSE UNCHANGED <<planStatus, saved>>

(* The merge fails; there is nothing to merge any more once the step has   *)
(* been skipped.                                                           *)
Conflicts(s) ==
  /\ s \notin Asked
  /\ work[s] = "none" \/ (work[s] # "stray" /\ "merge" \in Fault)
  /\ Completed(s, "needs-rebase")
  /\ PauseIfConfigured
  /\ UNCHANGED work

(* Verification fails and may be tried again; what is not found on the     *)
(* branch of a worktree, because one of them is unknown, has failed.       *)
Retries(s) ==
  /\ "step" \in Fault /\ s \notin Asked
  /\ Completed(s, "ready")
  /\ UNCHANGED <<planStatus, work, saved>>

Fails(s) ==
  /\ "step" \in Fault \/ ~Mergeable(s)
  /\ s \notin Asked
  /\ Completed(s, "failed")
  /\ PauseIfConfigured
  /\ UNCHANGED work

(* Merging throws: a step that has not been skipped has failed, and the    *)
(* plan goes on.                                                           *)
Throws(s) ==
  /\ s \notin Asked /\ work[s] = "worktree" /\ "merge" \in Fault
  /\ Completed(s, IF status[s] = "verifying" THEN "failed" ELSE status[s])
  /\ UNCHANGED <<planStatus, work, saved>>

Asks(s) ==
  /\ s \in Asked
  /\ Completed(s, "pending-confirmation")
  /\ UNCHANGED <<planStatus, work>>
  /\ SavePlan

-----------------------------------------------------------------------------
(* The event loop and the user.                                            *)

(* run() chooses without looking at the stage's end.                       *)
FirstStart ==
  /\ job[Loop] = "starting" /\ ~Starting
  /\ chosen' \in Starts(stage)
  /\ missed' = 0
  /\ Goes(Loop, IF chosen' = {} THEN "testing" ELSE "firstStarts")
  /\ UNCHANGED <<config, status, planStatus, stage, stageStatus, finalized,
                 branch, work, running, saved, calls, early>>

(* The loop takes the event that woke it, or has handled one.              *)
LoopTests ==
  /\ job[Loop] = "testing" \/ (job[Loop] = "idle" /\ woken)
  /\ woken' = (woken /\ job[Loop] = "testing")
  /\ job' = [job EXCEPT ![Loop] =
               IF ~running \/ (planStatus # "paused" /\ Terminal(status))
               THEN "over" ELSE "idle"]
  /\ UNCHANGED <<config, status, planStatus, stage, stageStatus, finalized,
                 branch, work, running, saved, calls, early, startVars>>

(* The user's calls, when the loop handles them.                           *)
Handles(call) ==
  /\ call \in Call /\ calls < MaxCalls
  /\ job[Loop] = "idle"
  /\ calls' = calls + 1
  /\ UNCHANGED <<config, finalized, branch, running, woken, startVars>>

(* resume and pause: see PlanExecutor for what happens in between.         *)
Pause ==
  /\ Handles("pause")
  /\ planStatus' = "paused"
  /\ status' = [s \in Step |->
                  IF status[s] = "in-progress" THEN "ready" ELSE status[s]]
  /\ job' = [job EXCEPT ![Loop] = "testing"]
  /\ UNCHANGED <<stage, stageStatus, work, early>>
  /\ SavePlan

(* What is to be merged is merged again; what has failed or has nothing to *)
(* merge is done again.  Every worktree is known from then on.             *)
Remerged(st) == {s \in Step : st[s] = "needs-rebase" /\ HasWorktree(work[s])}

Resume ==
  /\ Handles("resume")
  /\ \A s \in Remerged(status) : job[s] = "idle"
  /\ planStatus' = "executing"
  /\ status' = [s \in Step |->
                  IF s \in Remerged(status) THEN "verifying"
                  ELSE IF status[s] \in {"failed", "needs-rebase"} THEN "ready"
                  ELSE status[s]]
  /\ job' = [f \in Fiber |-> IF f = Loop THEN "tickets"
                             ELSE IF f \in Remerged(status) THEN "working" ELSE job[f]]
  /\ work' = [s \in Step |-> IF work[s] = "stray" THEN "worktree" ELSE work[s]]
  /\ UNCHANGED <<stage, stageStatus, saved, early>>

Retry(s) ==
  /\ Handles("retry")
  /\ status[s] \in {"failed", "needs-rebase"}
  /\ status' = [status EXCEPT ![s] = "ready"]
  /\ job' = [job EXCEPT ![Loop] = "tickets"]
  /\ UNCHANGED <<planStatus, stage, stageStatus, work, saved, early>>

Skip(s) ==
  /\ Handles("skip")
  /\ status' = [status EXCEPT ![s] = "skipped"]
  /\ work' = [work EXCEPT ![s] = IF @ = "worktree" THEN "none" ELSE @]
  /\ job' = [job EXCEPT ![Loop] = "tickets"]
  /\ UNCHANGED <<planStatus, stage, stageStatus, saved, early>>

(* mutant of Advance: no stage is the last one.                            *)
AdvancePast ==
  /\ Handles("advance")
  /\ stage' = stage + 1
  /\ stageStatus' = [stageStatus EXCEPT ![stage + 1] = "executing"]
  /\ early' = (early \/ stageStatus[stage] = "executing")
  /\ planStatus' = "executing"
  /\ job' = [job EXCEPT ![Loop] = "tickets"]
  /\ UNCHANGED <<status, work, saved>>

Advance ==
  /\ Handles("advance")
  /\ IF Staged /\ stage < Stages
     THEN /\ stage' = stage + 1
          /\ stageStatus' = [stageStatus EXCEPT ![stage + 1] = "executing"]
     ELSE UNCHANGED <<stage, stageStatus>>
  /\ early' = (early \/ stageStatus[stage] = "executing")
  /\ planStatus' = "executing"
  /\ job' = [job EXCEPT ![Loop] = "tickets"]
  /\ UNCHANGED <<status, work, saved>>

(* A confirmed step is done before its branch is merged.                   *)
Confirm(s) ==
  /\ Handles("confirm")
  /\ status[s] = "pending-confirmation"
  /\ status' = [status EXCEPT ![s] = "done"]
  /\ job' = [job EXCEPT ![Loop] = IF work[s] = "worktree" THEN "confirming"
                                                         ELSE "tickets"]
  /\ UNCHANGED <<planStatus, stage, stageStatus, work, saved, early>>

(* Whatever merging returns, the worktree is removed.                      *)
Confirmed(s) ==
  /\ job[Loop] = "confirming" /\ status[s] = "done" /\ work[s] = "worktree"
  /\ \E w \in (IF Mergeable(s) THEN {Target(s)} ELSE {})
               \cup (IF Mergeable(s) /\ "confirm" \notin Fault THEN {} ELSE {"lost"}) :
       work' = [work EXCEPT ![s] = w]
  /\ Goes(Loop, "tickets")
  /\ UNCHANGED <<config, status, planStatus, stage, stageStatus, finalized,
                 branch, running, saved, calls, early, startVars>>

Reject(s) ==
  /\ Handles("reject")
  /\ status[s] = "pending-confirmation"
  /\ status' = [status EXCEPT ![s] = "ready"]
  /\ job' = [job EXCEPT ![Loop] = "tickets"]
  /\ UNCHANGED <<planStatus, stage, stageStatus, work, saved, early>>

-----------------------------------------------------------------------------
(* The executor dies, the station reconciles the saved plan (steps whose   *)
(* agents have left work are ready, the others have failed), the user      *)
(* resumes it and run() takes it up, with a WorktreeManager that knows the *)
(* worktrees of the steps in verification only.                            *)
Reconciled(w) ==
  [s \in Step |->
     IF saved.status[s] # "in-progress" THEN saved.status[s]
     ELSE IF HasWorktree(w[s]) THEN "ready" ELSE "failed"]

(* run(): what was in verification or to be rebased is gone through again. *)
Recovered(st, w) ==
  [s \in Step |->
     IF st[s] \notin {"verifying", "needs-rebase"} THEN st[s]
     ELSE IF HasWorktree(w[s]) THEN "verifying" ELSE "ready"]

Restart ==
  \E W \in SUBSET {s \in Step : status[s] = "in-progress" /\ work[s] = "none"} :
    LET w  == [s \in Step |-> IF s \in W THEN "worktree" ELSE work[s]]
        st == Reconciled(w)
        ended == st # saved.status /\ \A s \in Step : st[s] \in TerminalStatus
    IN
    /\ "crash" \in Call /\ calls < MaxCalls
    /\ planStatus # "done" /\ saved.planStatus # "done"
    /\ calls' = calls + 1
    /\ status' = IF ended THEN st ELSE Recovered(st, w)
    /\ work' = [s \in Step |-> IF ~HasWorktree(w[s]) THEN w[s]
                               ELSE IF status'[s] = "verifying" THEN "worktree"
                               ELSE "stray"]
    /\ planStatus' = IF ended THEN "done" ELSE "executing"
    /\ stage' = saved.stage /\ stageStatus' = saved.stageStatus
    /\ job' = [f \in Fiber |->
                IF f = Loop THEN IF ended THEN "over" ELSE "starting"
                ELSE IF ~ended /\ status'[f] = "verifying" THEN "working" ELSE "idle"]
    /\ SavePlan
    /\ finalized' = FALSE /\ running' = ~ended /\ woken' = FALSE
    /\ chosen' = {} /\ missed' = 0
    /\ UNCHANGED <<config, branch, early>>

-----------------------------------------------------------------------------
(* A plan as it was made, or one that was paused before anything but skips *)
(* had been done to it, and is resumed.                                    *)
GatesInit ==
  /\ config \in Config
  /\ status = [s \in Step |->
                 IF s \in config.skipped THEN "skipped"
                 ELSE IF config.blockedBy[s] = {} THEN "ready" ELSE "blocked"]
  /\ planStatus = "executing"
  /\ stage = 1
  /\ stageStatus = [i \in Stage |-> IF i = 1 THEN "executing" ELSE "pending"]
  /\ finalized = FALSE /\ branch = FALSE
  /\ work = [s \in Step |-> "none"]
  /\ job = [f \in Fiber |-> IF f = Loop THEN "starting" ELSE "idle"]
  /\ running = TRUE /\ woken = FALSE
  /\ saved = Current
  /\ calls = 0 /\ early = FALSE
  /\ chosen = {} /\ missed = 0

GatesNext ==
  \/ \E f \in Fiber : Recompute(f)
  \/ \E s \in Step :
       \/ AgentCompleted(s) \/ Lands(s) \/ Conflicts(s) \/ Retries(s) \/ Fails(s)
       \/ Throws(s) \/ Asks(s)
       \/ Retry(s) \/ Skip(s) \/ Confirm(s) \/ Confirmed(s) \/ Reject(s)
  \/ FirstStart \/ LoopTests \/ Pause \/ Resume \/ Advance \/ Restart

GatesSpec == GatesInit /\ [][GatesNext]_gateVars

-----------------------------------------------------------------------------
(* Properties.                                                             *)

(* Nothing that can be started is left alone: when no fiber is at work and *)
(* a step of the current stage is ready, the only slots without an agent   *)
(* are those of steps that could not be started, and whose failure nobody  *)
(* looks into (startReadySteps, executor.ts:2377).                         *)
NothingLeftReady ==
  planStatus = "executing" /\ running /\ ~woken /\ job[Loop] = "idle"
    /\ (\A s \in Step : job[s] = "idle")
    => Free <= missed \/ Startable(stage) = {}

(* Without autoContinue the stages before the current one are over, and    *)
(* those after it untouched, as long as the user leaves none too early.    *)
StagesInOrder ==
  Staged /\ ~config.autoContinue /\ ~early =>
    \A i \in Stage :
      /\ i < stage => stageStatus[i] \in {"completed", "failed"}
      /\ i > stage => /\ stageStatus[i] = "pending"
                      /\ \A s \in StepsOf(i) : s \notin Under(status)

(* No commit that the user has not thrown away by skipping its step is     *)
(* lost, and what is in the integration branch is there as long as it has  *)
(* not been merged.                                                        *)
NoneLost ==
  \A s \in Step : work[s] # "lost" /\ (work[s] = "branch" => branch)

(* A plan that is done has delivered: nothing that is done is still in     *)
(* its integration branch only.                                            *)
DoneIsDelivered ==
  planStatus = "done" => \A s \in Step : status[s] = "done" => work[s] = "main"
=============================================================================
