-------------------------- MODULE PlanGatesProofs ---------------------------
(***************************************************************************)
(* Proofs about PlanGates, for any steps, stages and settings, whatever    *)
(* fails and whatever the user does.                                       *)
(***************************************************************************)
EXTENDS PlanGates, FiniteSetTheorems, TLAPS

StageState == {"pending", "executing", "completed", "failed"}

(* What GatesTypeOK says of the variables one by one, but of the saved     *)
(* plan.                                                                   *)
Fields ==
  /\ config \in Config
  /\ status \in [Step -> Status]
  /\ planStatus \in {"executing", "paused", "done"}
  /\ stage \in Stage
  /\ stageStatus \in [Stage -> StageState]
  /\ finalized \in BOOLEAN /\ branch \in BOOLEAN
  /\ work \in [Step -> Place]
  /\ job \in [Fiber -> At]
  /\ chosen \in SUBSET Step /\ missed \in Nat
  /\ running \in BOOLEAN /\ woken \in BOOLEAN /\ early \in BOOLEAN
  /\ calls \in 0..MaxCalls

-----------------------------------------------------------------------------
(* Types.                                                                  *)

LEMMA TypeTo == GatesTypeOK => Fields /\ saved \in Plan
  BY DEF GatesTypeOK, Fields, Current, Plan, StageState

LEMMA SavedIs == SavePlan => saved' = Current'
  BY DEF SavePlan, Current

LEMMA TypeFrom ==
  ASSUME Fields', saved' \in Plan \/ saved' = Current'
  PROVE  GatesTypeOK'
  <1>1. Current' \in Plan
    BY DEF Fields, Current, Plan, StageState
  <1> QED BY <1>1 DEF Fields, GatesTypeOK

LEMMA MarkedType ==
  ASSUME NEW i \in Stage, NEW ss \in [Stage -> StageState], NEW st
  PROVE  Marked(i, ss, st) \in [Stage -> StageState]
  BY DEF Marked, StageState

LEMMA StartsType == \A i : \A T \in Starts(i) : T \subseteq Startable(i) /\ T \subseteq Step
  BY DEF Starts, Startable

LEMMA TestTerminalType ==
  ASSUME Fields, NEW f \in Fiber, NEW ss \in [Stage -> StageState], stage' \in Stage,
         TestTerminal(f, ss)
  PROVE  /\ stageStatus' \in [Stage -> StageState]
         /\ job' \in [Fiber -> At] /\ woken' \in BOOLEAN
  <1>1. stageStatus' \in [Stage -> StageState]
    BY MarkedType DEF TestTerminal
  <1>2. job' \in [Fiber -> At] /\ woken' \in BOOLEAN
    BY DEF TestTerminal, Ends, Goes, Fields, At
  <1> QED BY <1>1, <1>2

LEMMA ChooseType ==
  ASSUME Fields, NEW f \in Fiber, NEW i \in Stage,
         NEW ss \in [Stage -> StageState], Choose(f, i, ss)
  PROVE  /\ UNCHANGED <<status, planStatus, branch>>
         /\ chosen' \in SUBSET Step /\ missed' \in Nat
         /\ stage' \in Stage /\ stageStatus' \in [Stage -> StageState]
         /\ job' \in [Fiber -> At] /\ woken' \in BOOLEAN
  <1>1. chosen' \in SUBSET Step /\ missed' \in Nat /\ stage' \in Stage
    BY StartsType DEF Choose
  <1>2. CASE chosen' = {}
    BY <1>1, <1>2, TestTerminalType DEF Choose
  <1>3. CASE chosen' # {}
    BY <1>1, <1>3 DEF Choose, Goes, Fields, At
  <1> QED BY <1>1, <1>2, <1>3 DEF Choose

LEMMA StartType ==
  ASSUME GatesTypeOK, Fields, NEW f \in Fiber, Start(f)
  PROVE  Fields' /\ saved' \in Plan
  <1>1. PICK s \in chosen :
          /\ chosen' = chosen \ {s}
          /\ \/ /\ status' = [status EXCEPT ![s] = "in-progress"]
                /\ branch' = (branch \/ s \in Branching)
                /\ saved' = [Current EXCEPT !.status = status']
                /\ UNCHANGED missed
             \/ /\ status' = [status EXCEPT ![s] = "failed"]
                /\ branch' \in {branch, branch \/ s \in Branching}
                /\ missed' = missed + 1
                /\ UNCHANGED saved
    BY DEF Start
  <1>2. status' \in [Step -> Status]
    BY <1>1 DEF Fields, Status
  <1>3. missed' \in Nat /\ chosen' \in SUBSET Step
    BY <1>1 DEF Fields
  <1>6. branch' \in BOOLEAN
    <2>1. branch \in BOOLEAN
      BY DEF Fields
    <2>2. branch' = branch \/ branch' = (branch \/ s \in Branching)
      BY <1>1
    <2> QED BY <2>1, <2>2
  <1>4. saved' \in Plan
    BY <1>1, <1>2 DEF GatesTypeOK, Current, Plan
  <1>5. /\ stageStatus' \in [Stage -> StageState]
        /\ job' \in [Fiber -> At] /\ woken' \in BOOLEAN
    <2>1. CASE chosen' # {}
      BY <2>1 DEF Start, Fields
    <2>2. CASE chosen' = {} /\ job[f] = "starts"
      <3>1. TestTerminal(f, stageStatus)
        BY <2>2 DEF Start
      <3>2. stage' \in Stage /\ stageStatus \in [Stage -> StageState]
        BY DEF Start, Fields
      <3> QED BY <3>1, <3>2, TestTerminalType
    <2>3. CASE chosen' = {} /\ job[f] # "starts"
      BY <2>3 DEF Start, Goes, Fields, At
    <2> QED BY <2>1, <2>2, <2>3
  <1> QED BY <1>2, <1>3, <1>4, <1>5, <1>6 DEF Start, Fields

LEMMA InitType == GatesInit => GatesTypeOK
  <1> SUFFICES ASSUME GatesInit PROVE GatesTypeOK
    OBVIOUS
  <1>1. 1 \in Stage
    BY GatesAssumption DEF Stage
  <1>2. status \in [Step -> Status]
    BY DEF GatesInit, Status
  <1>3. stageStatus \in [Stage -> StageState]
    BY DEF GatesInit, StageState
  <1>4. Current \in Plan
    BY <1>1, <1>2, <1>3 DEF GatesInit, Current, Plan, StageState
  <1>5. job \in [Fiber -> At]
    BY DEF GatesInit, At
  <1>6. saved \in Plan /\ config \in Config
    BY <1>4 DEF GatesInit
  <1>7. calls \in 0..MaxCalls
    BY GatesAssumption DEF GatesInit
  <1>8. /\ finalized \in BOOLEAN /\ branch \in BOOLEAN
        /\ running \in BOOLEAN /\ woken \in BOOLEAN /\ early \in BOOLEAN
        /\ work \in [Step -> Place]
        /\ chosen \subseteq Step /\ missed \in Nat
    BY DEF GatesInit, Place
  <1> QED BY <1>4, <1>5, <1>6, <1>7, <1>8 DEF GatesTypeOK

(* What the fibers of recomputeAndContinue() do.                           *)
LEMMA RecomputeType ==
  ASSUME GatesTypeOK, NEW f \in Fiber, Recompute(f)
  PROVE  GatesTypeOK'
  <1>0. Fields /\ saved \in Plan
    BY TypeTo
  <1>01. ASSUME NEW at \in At, Goes(f, at) PROVE job' \in [Fiber -> At] /\ woken' \in BOOLEAN
    BY <1>0, <1>01 DEF Goes, Fields
  <1>02. ASSUME Ends(f) PROVE job' \in [Fiber -> At] /\ woken' \in BOOLEAN
    BY <1>0, <1>02 DEF Ends, Fields, At
  <1>03. ASSUME NEW st \in Status, DoneChildrenBecome(st) PROVE status' \in [Step -> Status]
    BY <1>0, <1>03 DEF DoneChildrenBecome, Fields
  <1>1. CASE Tickets(f)
    <2>1. status' \in [Step -> Status]
      BY <1>0, <1>1 DEF Tickets, Recomputed, Fields, Status
    <2>2. job' \in [Fiber -> At] /\ woken' \in BOOLEAN
      BY <1>1, <1>01 DEF Tickets, At
    <2> QED BY <1>0, <1>1, <2>1, <2>2, TypeFrom DEF Tickets, Fields, startVars
  <1>2. CASE Project(f)
    <2>2. job' \in [Fiber -> At] /\ woken' \in BOOLEAN
      BY <1>2, <1>01 DEF Project, At
    <2> QED BY <1>0, <1>2, <2>2, TypeFrom DEF Project, Fields, startVars
  <1>3. CASE Gate(f)
    <2>1. status' \in [Step -> Status]
      BY <1>0, <1>3, <1>03 DEF Gate, Fields, Status
    <2>2. job' \in [Fiber -> At] /\ woken' \in BOOLEAN
      BY <1>3, <1>01 DEF Gate, At
    <2> QED BY <1>0, <1>3, <2>1, <2>2, TypeFrom DEF Gate, Fields, startVars
  <1>4. CASE Land(f)
    <2>1. status' \in [Step -> Status]
      BY <1>0, <1>4, <1>03 DEF Land, Fields, Status
    <2>2. job' \in [Fiber -> At] /\ woken' \in BOOLEAN
      BY <1>4, <1>01 DEF Land, At
    <2>3. work' \in [Step -> Place] /\ branch' \in BOOLEAN
      BY <1>0, <1>4 DEF Land, Fields, Place
    <2> QED BY <1>0, <1>4, <2>1, <2>2, <2>3, TypeFrom DEF Land, Fields, startVars
  <1>5. CASE Delete(f)
    <2>2. job' \in [Fiber -> At] /\ woken' \in BOOLEAN
      BY <1>5, <1>01 DEF Delete, At
    <2>3. work' \in [Step -> Place] /\ branch' \in BOOLEAN
      BY <1>0, <1>5 DEF Delete, Fields, Place
    <2> QED BY <1>0, <1>5, <2>2, <2>3, TypeFrom DEF Delete, Fields, startVars
  <1>6. CASE Save(f)
    <2>1. CASE planStatus = "executing" /\ ~StageOver(stage, stageStatus, status)
      <3>1. Choose(f, stage, stageStatus)
        BY <1>6, <2>1 DEF Save
      <3>2. stage \in Stage /\ stageStatus \in [Stage -> StageState]
        BY <1>0 DEF Fields
      <3>3. saved' \in Plan
        BY <1>6 DEF Save, GatesTypeOK
      <3> QED BY <1>0, <1>6, <3>1, <3>2, <3>3, ChooseType, TypeFrom DEF Save, Fields
    <2>2. CASE ~(planStatus = "executing" /\ ~StageOver(stage, stageStatus, status))
      <3>1. stageStatus' \in [Stage -> StageState]
        BY <1>0, <1>6, <2>2, MarkedType DEF Save, Fields
      <3>2. job' \in [Fiber -> At] /\ woken' \in BOOLEAN
        BY <1>6, <2>2, <1>01, <1>02 DEF Save, At
      <3>3. saved' = Current /\ Current \in Plan
        BY <1>6, <2>2 DEF Save, GatesTypeOK
      <3> QED BY <1>0, <1>6, <2>2, <3>1, <3>2, <3>3, TypeFrom DEF Save, Fields
    <2> QED BY <2>1, <2>2
  <1>7. CASE StageSmoke(f)
    <2>1. CASE /\ "smoke" \in Fault \/ (stage < Stages /\ ~config.autoContinue)
               /\ planStatus' = "paused"
               /\ UNCHANGED <<status, branch, stage, stageStatus, chosen, missed>>
               /\ SavePlan
               /\ Ends(f)
      BY <1>0, <1>7, <2>1, <1>02, SavedIs, TypeFrom DEF StageSmoke, Fields
    <2>2. CASE stage = Stages /\ Choose(f, stage, stageStatus) /\ UNCHANGED saved
      <3>2. stage \in Stage /\ stageStatus \in [Stage -> StageState]
        BY <1>0 DEF Fields
      <3> QED BY <1>0, <1>7, <2>2, <3>2, ChooseType, TypeFrom DEF StageSmoke, Fields
    <2>3. CASE /\ stage < Stages /\ config.autoContinue
               /\ UNCHANGED saved
               /\ \/ Choose(f, stage + 1, [stageStatus EXCEPT ![stage + 1] = "executing"])
                  \/ /\ stage' = stage + 1
                     /\ stageStatus' = Marked(stage + 1,
                                              [stageStatus EXCEPT ![stage + 1] = "executing"],
                                              status)
                     /\ Goes(f, "stageSmoke")
                     /\ UNCHANGED <<status, branch, planStatus, chosen, missed>>
      <3> DEFINE next == [stageStatus EXCEPT ![stage + 1] = "executing"]
      <3>1. stage + 1 \in Stage /\ next \in [Stage -> StageState]
        BY <1>0, <2>3, GatesAssumption DEF Fields, Stage, StageState
      <3>2. CASE Choose(f, stage + 1, next)
        <4> HIDE DEF next
        <4> QED BY <1>0, <1>7, <2>3, <3>1, <3>2, ChooseType, TypeFrom DEF StageSmoke, Fields
      <3>3. CASE /\ stage' = stage + 1
                 /\ stageStatus' = Marked(stage + 1, next, status)
                 /\ Goes(f, "stageSmoke")
                 /\ UNCHANGED <<status, branch, planStatus, chosen, missed>>
        <4> HIDE DEF next
        <4>1. stageStatus' \in [Stage -> StageState]
          BY <3>1, <3>3, MarkedType
        <4>2. job' \in [Fiber -> At] /\ woken' \in BOOLEAN
          BY <3>3, <1>01 DEF At
        <4> QED BY <1>0, <1>7, <2>3, <3>1, <3>3, <4>1, <4>2, TypeFrom DEF StageSmoke, Fields
      <3> QED BY <2>3, <3>2, <3>3
    <2> QED BY <1>7, <2>1, <2>2, <2>3 DEF StageSmoke
  <1>8. CASE PlanSmoke(f)
    BY <1>0, <1>8, <1>02, SavedIs, TypeFrom DEF PlanSmoke, Fields, startVars
  <1>9. CASE Start(f)
    BY <1>0, <1>9, StartType, TypeFrom
  <1> QED BY <1>1, <1>2, <1>3, <1>4, <1>5, <1>6, <1>7, <1>8, <1>9 DEF Recompute

(* What is done to a step.                                                 *)
LEMMA StepType ==
  ASSUME GatesTypeOK, NEW s \in Step,
         \/ AgentCompleted(s) \/ Lands(s) \/ Conflicts(s) \/ Retries(s) \/ Fails(s)
         \/ Throws(s) \/ Asks(s)
         \/ Retry(s) \/ Skip(s) \/ Confirm(s) \/ Confirmed(s) \/ Reject(s)
  PROVE  GatesTypeOK'
  <1>0. Fields /\ saved \in Plan /\ Current \in Plan
    BY TypeTo DEF GatesTypeOK
  <1>00. s \in Fiber /\ Loop \in Fiber
    BY DEF Fiber
  <1>1. CASE AgentCompleted(s)
    <2>1. /\ status' \in [Step -> Status] /\ job' \in [Fiber -> At]
          /\ work' \in [Step -> Place]
      BY <1>0, <1>1 DEF AgentCompleted, Fields, Status, At, Place
    <2>2. saved' \in Plan
      BY <1>0, <1>1, <2>1 DEF AgentCompleted, Current, Plan
    <2> QED BY <1>0, <1>1, <2>1, <2>2, TypeFrom DEF AgentCompleted, Fields, startVars
  <1>01. ASSUME NEW st \in Status, Completed(s, st)
         PROVE  /\ status' \in [Step -> Status]
                /\ job' \in [Fiber -> At] /\ woken' \in BOOLEAN
                /\ UNCHANGED <<config, stage, stageStatus, finalized, branch,
                               running, calls, early, chosen, missed>>
    BY <1>0, <1>01 DEF Completed, Goes, Fields, At, startVars
  <1>03. ASSUME PauseIfConfigured
         PROVE  /\ planStatus' \in {"executing", "paused", "done"}
                /\ saved' = saved \/ saved' = Current'
    BY <1>0, <1>03, SavedIs DEF PauseIfConfigured, Fields
  <1>2. CASE Lands(s)
    <2>1. work' \in [Step -> Place]
      BY <1>0, <1>2 DEF Lands, Fields, Target, Place
    <2>2. "done" \in Status
      BY DEF Status
    <2> QED BY <1>0, <1>2, <2>1, <2>2, <1>01, TypeFrom DEF Lands, Fields
  <1>3. CASE Conflicts(s)
    <2>2. "needs-rebase" \in Status
      BY DEF Status
    <2> QED BY <1>0, <1>3, <2>2, <1>01, <1>03, TypeFrom DEF Conflicts, Fields
  <1>4. CASE Retries(s) \/ Throws(s)
    <2>2. "ready" \in Status /\ "failed" \in Status /\ status[s] \in Status
      BY <1>0 DEF Status, Fields
    <2> QED BY <1>0, <1>4, <2>2, <1>01, TypeFrom DEF Retries, Throws, Fields
  <1>11. CASE Fails(s)
    <2>2. "failed" \in Status
      BY DEF Status
    <2> QED BY <1>0, <1>11, <2>2, <1>01, <1>03, TypeFrom DEF Fails, Fields
  <1>5. CASE Asks(s)
    <2>2. "pending-confirmation" \in Status
      BY DEF Status
    <2> QED BY <1>0, <1>5, <2>2, <1>01, SavedIs, TypeFrom DEF Asks, Fields
  <1>02. ASSUME NEW call, Handles(call)
         PROVE  /\ calls' \in 0..MaxCalls
                /\ UNCHANGED <<config, finalized, branch, running, woken, chosen, missed>>
    BY <1>0, <1>02, GatesAssumption DEF Handles, Fields, startVars
  <1>6. CASE Retry(s)
    <2>1. status' \in [Step -> Status] /\ job' \in [Fiber -> At]
      BY <1>0, <1>6 DEF Retry, Fields, Status, At
    <2> QED BY <1>0, <1>6, <2>1, <1>02, TypeFrom DEF Retry, Fields
  <1>7. CASE Skip(s)
    <2>1. /\ status' \in [Step -> Status] /\ job' \in [Fiber -> At]
          /\ work' \in [Step -> Place]
      BY <1>0, <1>7 DEF Skip, Fields, Status, At, Place
    <2> QED BY <1>0, <1>7, <2>1, <1>02, TypeFrom DEF Skip, Fields
  <1>8. CASE Confirm(s)
    <2>1. status' \in [Step -> Status] /\ job' \in [Fiber -> At]
      BY <1>0, <1>8 DEF Confirm, Fields, Status, At
    <2> QED BY <1>0, <1>8, <2>1, <1>02, TypeFrom DEF Confirm, Fields
  <1>9. CASE Confirmed(s)
    <2>1. /\ job' \in [Fiber -> At] /\ woken' \in BOOLEAN
          /\ work' \in [Step -> Place]
      BY <1>0, <1>9 DEF Confirmed, Goes, Fields, At, Target, Place
    <2> QED BY <1>0, <1>9, <2>1, TypeFrom DEF Confirmed, Fields, startVars
  <1>10. CASE Reject(s)
    <2>1. status' \in [Step -> Status] /\ job' \in [Fiber -> At]
      BY <1>0, <1>10 DEF Reject, Fields, Status, At
    <2> QED BY <1>0, <1>10, <2>1, <1>02, TypeFrom DEF Reject, Fields
  <1> QED BY <1>1, <1>2, <1>3, <1>4, <1>5, <1>6, <1>7, <1>8, <1>9, <1>10, <1>11

LEMMA LoopType ==
  ASSUME GatesTypeOK,
         FirstStart \/ LoopTests \/ Pause \/ Resume \/ Advance \/ Restart
  PROVE  GatesTypeOK'
  <1>0. Fields /\ saved \in Plan /\ Current \in Plan
    BY TypeTo DEF GatesTypeOK
  <1>00. Loop \in Fiber
    BY DEF Fiber
  <1>01. ASSUME NEW call, Handles(call)
         PROVE  /\ calls' \in 0..MaxCalls
                /\ UNCHANGED <<config, finalized, branch, running, woken, chosen, missed>>
    BY <1>0, <1>01, GatesAssumption DEF Handles, Fields, startVars
  <1>1. CASE FirstStart
    <2>1. job' \in [Fiber -> At] /\ woken' \in BOOLEAN
      BY <1>0, <1>1 DEF FirstStart, Goes, Fields, At
    <2>2. chosen' \in SUBSET Step /\ missed' \in Nat
      BY <1>1, StartsType DEF FirstStart
    <2> QED BY <1>0, <1>1, <2>1, <2>2, TypeFrom DEF FirstStart, Fields
  <1>2. CASE LoopTests
    <2>1. job' \in [Fiber -> At] /\ woken' \in BOOLEAN
      BY <1>0, <1>2 DEF LoopTests, Fields, At
    <2> QED BY <1>0, <1>2, <2>1, TypeFrom DEF LoopTests, Fields, startVars
  <1>3. CASE Pause
    <2>1. status' \in [Step -> Status] /\ job' \in [Fiber -> At]
      BY <1>0, <1>3 DEF Pause, Fields, Status, At
    <2> QED BY <1>0, <1>3, <2>1, <1>01, SavedIs, TypeFrom DEF Pause, Fields
  <1>4. CASE Resume
    <2>1. /\ status' \in [Step -> Status] /\ job' \in [Fiber -> At]
          /\ work' \in [Step -> Place]
      BY <1>0, <1>4 DEF Resume, Fields, Status, At, Place
    <2> QED BY <1>0, <1>4, <2>1, <1>01, TypeFrom DEF Resume, Fields
  <1>5. CASE Advance
    <2>1. job' \in [Fiber -> At]
      BY <1>0, <1>5 DEF Advance, Fields, At
    <2>2. stage' \in Stage /\ stageStatus' \in [Stage -> StageState]
      BY <1>0, <1>5, GatesAssumption DEF Advance, Fields, Stage, StageState
    <2>3. early' \in BOOLEAN
      BY <1>0, <1>5 DEF Advance, Fields
    <2> QED BY <1>0, <1>5, <2>1, <2>2, <2>3, <1>01, TypeFrom DEF Advance, Fields
  <1>6. CASE Restart
    <2>1. PICK W \in SUBSET {s \in Step : status[s] = "in-progress" /\ work[s] = "none"} :
            Restart!(W)
      BY <1>6 DEF Restart
    <2> DEFINE w == [s \in Step |-> IF s \in W THEN "worktree" ELSE work[s]]
               st == Reconciled(w)
               ended == st # saved.status /\ \A s \in Step : st[s] \in TerminalStatus
    <2>2. /\ saved.status \in [Step -> Status] /\ saved.stage \in Stage
          /\ saved.stageStatus \in [Stage -> StageState]
      BY <1>0 DEF Plan, StageState
    <2>3. w \in [Step -> Place]
      BY <1>0 DEF Fields, Place
    <2>4. st \in [Step -> Status] /\ Recovered(st, w) \in [Step -> Status]
      BY <2>2 DEF Reconciled, Recovered, Status
    <2>5. /\ status' = IF ended THEN st ELSE Recovered(st, w)
          /\ work' = [s \in Step |-> IF ~HasWorktree(w[s]) THEN w[s]
                                     ELSE IF status'[s] = "verifying" THEN "worktree"
                                     ELSE "stray"]
          /\ chosen' = {} /\ missed' = 0
          /\ calls' = calls + 1 /\ calls < MaxCalls
          /\ planStatus' = IF ended THEN "done" ELSE "executing"
          /\ stage' = saved.stage /\ stageStatus' = saved.stageStatus
          /\ job' = [f \in Fiber |->
                IF f = Loop THEN IF ended THEN "over" ELSE "starting"
                ELSE IF ~ended /\ status'[f] = "verifying" THEN "working" ELSE "idle"]
          /\ finalized' = FALSE /\ running' = ~ended /\ woken' = FALSE
          /\ UNCHANGED <<config, branch, early>>
          /\ saved' = Current'
      BY <2>1, SavedIs
    <2> HIDE DEF w, st, ended
    <2>6. status' \in [Step -> Status] /\ planStatus' \in {"executing", "paused", "done"}
      BY <2>4, <2>5
    <2>7. job' \in [Fiber -> At] /\ running' \in BOOLEAN
      <3>1. ended \in BOOLEAN
        BY DEF ended
      <3> QED BY <2>5, <3>1 DEF At
    <2>8. calls' \in 0..MaxCalls
      BY <1>0, <2>5, GatesAssumption DEF Fields
    <2>9. work' \in [Step -> Place]
      BY <2>3, <2>5 DEF Place
    <2> QED BY <1>0, <2>2, <2>5, <2>6, <2>7, <2>8, <2>9, TypeFrom DEF Fields
  <1> QED BY <1>1, <1>2, <1>3, <1>4, <1>5, <1>6

LEMMA TypeStep == GatesTypeOK /\ [GatesNext]_gateVars => GatesTypeOK'
  <1>1. CASE UNCHANGED gateVars
    BY <1>1 DEF gateVars, startVars, GatesTypeOK, Current
  <1> QED BY <1>1, RecomputeType, StepType, LoopType DEF GatesNext

(* Every variable keeps its type (executor.ts, reconcile.ts).              *)
THEOREM GatesTypeCorrect == GatesSpec => []GatesTypeOK
  BY InitType, TypeStep, PTL DEF GatesSpec

-----------------------------------------------------------------------------
(* Starts.  One fiber at most starts agents, as long as steps are chosen;  *)
(* these are ready, unless the user has skipped them since, and no handler *)
(* of theirs is at work.                                                   *)

StartingAt == {"starts", "firstStarts"}

ChosenInv ==
  /\ Starting <=> chosen # {}
  /\ \A f, g \in Fiber : job[f] \in StartingAt /\ job[g] \in StartingAt => f = g
  /\ \A s \in chosen : status[s] \in {"ready", "skipped"} /\ job[s] # "working"
  /\ \A s \in Step : job[s] = "working" => status[s] \in {"verifying", "skipped"}

LEMMA ChosenInit == GatesInit => ChosenInv
  BY GatesAssumption DEF GatesInit, ChosenInv, Starting, StartingAt, Fiber

(* A step that starts nothing.                                             *)
LEMMA StaysChosen ==
  ASSUME Fields, ChosenInv, UNCHANGED chosen,
         \A f \in Fiber : job'[f] = job[f] \/ {job[f], job'[f]} \cap StartingAt = {},
         \A s \in Step :
           \/ /\ status'[s] = status[s] \/ status'[s] = "skipped"
              /\ job'[s] = "working" => job[s] = "working"
           \/ /\ status[s] \notin {"ready", "skipped"}
              /\ job'[s] = "working" => \/ job[s] = "working" /\ status[s] # "verifying"
                                        \/ status'[s] \in {"verifying", "skipped"}
           \/ job[s] = "working" /\ job'[s] # "working"
           \/ chosen = {} /\ status[s] = "ready" /\ (job'[s] = "working" => job[s] = "working")
  PROVE  ChosenInv'
  <1>1. \A f \in Fiber : job'[f] \in StartingAt <=> job[f] \in StartingAt
    OBVIOUS
  <1>2. Starting' <=> Starting
    BY <1>1 DEF Starting, StartingAt
  <1>3. \A f, g \in Fiber : job'[f] \in StartingAt /\ job'[g] \in StartingAt => f = g
    BY <1>1 DEF ChosenInv
  <1>4. \A s \in chosen : s \in Step
    BY DEF Fields
  <1>5. \A s \in chosen : status'[s] \in {"ready", "skipped"} /\ job'[s] # "working"
    BY <1>4 DEF ChosenInv
  <1>6. \A s \in Step : job'[s] = "working" => status'[s] \in {"verifying", "skipped"}
    BY DEF ChosenInv
  <1> QED BY <1>2, <1>3, <1>5, <1>6 DEF ChosenInv

(* What may follow once there is nothing to start any more.                *)
LEMMA TestTerminalAt ==
  ASSUME Fields, NEW f \in Fiber, NEW ss, TestTerminal(f, ss)
  PROVE  /\ job'[f] \in {"planSmoke", "testing", "idle"}
         /\ \A g \in Fiber : g # f => job'[g] = job[g]
  BY DEF TestTerminal, Ends, Goes, Fields

LEMMA ChooseChosen ==
  ASSUME Fields, ChosenInv, NEW f \in Fiber, NEW i, NEW ss, Choose(f, i, ss)
  PROVE  ChosenInv'
  <1>1. /\ \A g \in Fiber : job[g] \notin StartingAt
        /\ chosen' \in Starts(i) /\ status' = status
    BY DEF Choose, Starting, StartingAt
  <1>2. \A s \in chosen' : status'[s] = "ready" /\ s \in Step /\ s \in Fiber
    BY <1>1, StartsType DEF Startable, Fiber
  <1>3. /\ job'[f] # "working"
        /\ \A g \in Fiber : g # f => job'[g] = job[g]
        /\ job'[f] \in StartingAt <=> chosen' # {}
    <2>1. CASE chosen' = {}
      BY <2>1, TestTerminalAt DEF Choose, StartingAt
    <2>2. CASE chosen' # {}
      BY <2>2 DEF Choose, Goes, Fields, StartingAt
    <2> QED BY <2>1, <2>2
  <1>4. Starting' <=> chosen' # {}
    BY <1>1, <1>3 DEF Starting, StartingAt
  <1>5. \A g, h \in Fiber : job'[g] \in StartingAt /\ job'[h] \in StartingAt => g = h
    BY <1>1, <1>3
  <1>6. \A s \in Step : s \in Fiber
    BY DEF Fiber
  <1>7. \A s \in Step : job'[s] = "working" => status'[s] \in {"verifying", "skipped"}
    BY <1>1, <1>3, <1>6 DEF ChosenInv
  <1>8. \A s \in chosen' : job'[s] # "working"
    BY <1>2, <1>7
  <1> QED BY <1>2, <1>4, <1>5, <1>7, <1>8 DEF ChosenInv

(* What starting a step does, or failing to.                               *)
LEMMA StartOne ==
  ASSUME Fields, ChosenInv, NEW f \in Fiber, Start(f)
  PROVE  \E s \in chosen :
           /\ chosen' = chosen \ {s}
           /\ s \in Step /\ status[s] \in {"ready", "skipped"} /\ job[s] # "working"
           /\ \/ /\ status' = [status EXCEPT ![s] = "in-progress"]
                 /\ missed' = missed
                 /\ saved' = [Current EXCEPT !.status = status']
              \/ /\ status' = [status EXCEPT ![s] = "failed"]
                 /\ missed' = missed + 1
                 /\ saved' = saved
           /\ branch => branch'
           /\ UNCHANGED <<config, planStatus, stage, finalized, work, running, early>>
           /\ \A g \in Fiber : g # f => job'[g] = job[g]
           /\ job[f] \in StartingAt
           /\ \/ chosen' # {} /\ job'[f] = job[f]
              \/ chosen' = {} /\ job'[f] \in {"planSmoke", "testing", "idle"}
           /\ \E sm : stageStatus' \in {stageStatus, Marked(stage, stageStatus, sm)}
  <1>1. PICK s \in chosen :
          /\ chosen' = chosen \ {s}
          /\ \/ /\ status' = [status EXCEPT ![s] = "in-progress"]
                /\ branch' = (branch \/ s \in Branching)
                /\ saved' = [Current EXCEPT !.status = status']
                /\ UNCHANGED missed
             \/ /\ status' = [status EXCEPT ![s] = "failed"]
                /\ branch' \in {branch, branch \/ s \in Branching}
                /\ missed' = missed + 1
                /\ UNCHANGED saved
    BY DEF Start
  <1>2. s \in Step /\ status[s] \in {"ready", "skipped"} /\ job[s] # "working"
    BY DEF Fields, ChosenInv
  <1>3. branch => branch'
    <2>1. \/ branch' = (branch \/ s \in Branching)
          \/ branch' = branch
      BY <1>1
    <2> QED BY <2>1
  <1>4. /\ \A g \in Fiber : g # f => job'[g] = job[g]
        /\ \/ chosen' # {} /\ job'[f] = job[f]
           \/ chosen' = {} /\ job'[f] \in {"planSmoke", "testing", "idle"}
        /\ \E sm : stageStatus' \in {stageStatus, Marked(stage, stageStatus, sm)}
    <2>1. CASE chosen' # {}
      BY <2>1 DEF Start
    <2>2. CASE chosen' = {} /\ job[f] = "starts"
      <3>1. TestTerminal(f, stageStatus) /\ stage' = stage
        BY <2>2 DEF Start
      <3>2. \E sm : stageStatus' \in {stageStatus, Marked(stage, stageStatus, sm)}
        BY <3>1 DEF TestTerminal
      <3> QED BY <2>2, <3>1, <3>2, TestTerminalAt
    <2>3. CASE chosen' = {} /\ job[f] # "starts"
      BY <2>3 DEF Start, Goes, Fields
    <2> QED BY <2>1, <2>2, <2>3
  <1>5. /\ UNCHANGED <<config, planStatus, stage, finalized, work, running, early>>
        /\ job[f] \in StartingAt
    BY DEF Start, StartingAt
  <1> QED BY <1>1, <1>2, <1>3, <1>4, <1>5

LEMMA StartChosen ==
  ASSUME Fields, ChosenInv, NEW f \in Fiber, Start(f)
  PROVE  ChosenInv'
  <1>1. PICK s \in chosen :
          /\ chosen' = chosen \ {s}
          /\ s \in Step /\ job[s] # "working"
          /\ \A u \in Step : u # s => status'[u] = status[u]
          /\ \A g \in Fiber : g # f => job'[g] = job[g]
          /\ job[f] \in StartingAt
          /\ \/ chosen' # {} /\ job'[f] = job[f]
             \/ chosen' = {} /\ job'[f] \in {"planSmoke", "testing", "idle"}
    BY StartOne DEF Fields
  <1>2. \A g \in Fiber : g # f => job[g] \notin StartingAt
    BY <1>1 DEF ChosenInv
  <1>3. job'[f] \in StartingAt <=> chosen' # {}
    BY <1>1 DEF StartingAt
  <1>4. Starting' <=> chosen' # {}
    BY <1>1, <1>2, <1>3 DEF Starting, StartingAt
  <1>5. \A g, h \in Fiber : job'[g] \in StartingAt /\ job'[h] \in StartingAt => g = h
    BY <1>1, <1>2
  <1>6. \A u \in Step : u \in Fiber
    BY DEF Fiber
  <1>7. \A u \in Fiber : job'[u] = "working" => job[u] = "working"
    BY <1>1 DEF StartingAt
  <1>8. \A u \in Step : job'[u] = "working" => status'[u] \in {"verifying", "skipped"}
    BY <1>1, <1>6, <1>7 DEF ChosenInv
  <1>9. \A u \in chosen' : u \in Step /\ u \in chosen /\ u # s
    BY <1>1 DEF Fields
  <1>10. \A u \in chosen' : status'[u] \in {"ready", "skipped"} /\ job'[u] # "working"
    BY <1>1, <1>6, <1>7, <1>9 DEF ChosenInv
  <1> QED BY <1>4, <1>5, <1>8, <1>10 DEF ChosenInv

LEMMA RecomputeChosen ==
  ASSUME Fields, ChosenInv, NEW f \in Fiber, Recompute(f)
  PROVE  ChosenInv'
  <1>0. /\ \A at : Goes(f, at) => /\ job'[f] = at
                                  /\ \A g \in Fiber : g # f => job'[g] = job[g]
        /\ Ends(f) => /\ job'[f] \in {"testing", "idle"}
                      /\ \A g \in Fiber : g # f => job'[g] = job[g]
    BY DEF Goes, Ends, Fields
  <1>00. \A s \in Step : s \in Fiber
    BY DEF Fiber
  (* f is at another await and starts nothing.                             *)
  <1>01. ASSUME UNCHANGED chosen,
                job[f] \notin StartingAt \cup {"working"},
                job'[f] \notin StartingAt \cup {"working"},
                \A g \in Fiber : g # f => job'[g] = job[g],
                \A s \in Step : \/ status'[s] = status[s]
                                \/ status[s] \notin {"ready", "skipped", "verifying"}
                                \/ chosen = {} /\ status[s] = "ready"
         PROVE  ChosenInv'
    <2>1. \A g \in Fiber : job'[g] = job[g] \/ {job[g], job'[g]} \cap StartingAt = {}
      BY <1>01
    <2>2. \A s \in Step : job'[s] = "working" => job[s] = "working"
      BY <1>00, <1>01
    <2>3. \A s \in Step :
           \/ /\ status'[s] = status[s] \/ status'[s] = "skipped"
              /\ job'[s] = "working" => job[s] = "working"
           \/ /\ status[s] \notin {"ready", "skipped"}
              /\ job'[s] = "working" => \/ job[s] = "working" /\ status[s] # "verifying"
                                        \/ status'[s] \in {"verifying", "skipped"}
           \/ job[s] = "working" /\ job'[s] # "working"
           \/ chosen = {} /\ status[s] = "ready" /\ (job'[s] = "working" => job[s] = "working")
      BY <1>01, <2>2
    <2> QED BY <1>01, <2>1, <2>3, StaysChosen
  <1>02. \A st : DoneChildrenBecome(st) =>
           \A s \in Step : status'[s] = status[s] \/ status[s] = "done"
    BY DEF DoneChildrenBecome
  <1>1. CASE Tickets(f)
    <2>1. \A s \in Step : \/ status'[s] = status[s]
                          \/ status[s] \in {"blocked", "ready"}
      BY <1>1 DEF Tickets, Recomputed
    <2>2. chosen = {} /\ UNCHANGED chosen
      BY <1>1 DEF Tickets, ChosenInv, startVars
    <2>3. job[f] = "tickets" /\ job'[f] \in {"project", "saving"}
      BY <1>0, <1>1 DEF Tickets
    <2> QED BY <1>0, <1>01, <1>1, <2>1, <2>2, <2>3 DEF Tickets, StartingAt
  <1>2. CASE Project(f)
    BY <1>0, <1>01, <1>2 DEF Project, StartingAt, startVars
  <1>3. CASE Gate(f)
    <2>1. \A s \in Step : status'[s] = status[s] \/ status[s] = "done"
      BY <1>3, <1>02 DEF Gate
    <2>2. UNCHANGED chosen
      BY <1>3 DEF Gate, startVars
    <2> QED BY <1>0, <1>01, <1>3, <2>1, <2>2 DEF Gate, StartingAt
  <1>4. CASE Land(f)
    <2>1. \A s \in Step : status'[s] = status[s] \/ status[s] = "done"
      BY <1>4, <1>02 DEF Land
    <2>2. UNCHANGED chosen
      BY <1>4 DEF Land, startVars
    <2> QED BY <1>0, <1>01, <1>4, <2>1, <2>2 DEF Land, StartingAt
  <1>5. CASE Delete(f)
    BY <1>0, <1>01, <1>5 DEF Delete, StartingAt, startVars
  <1>6. CASE Save(f)
    <2>1. CASE planStatus = "executing" /\ ~StageOver(stage, stageStatus, status)
      BY <1>6, <2>1, ChooseChosen DEF Save
    <2>2. CASE ~(planStatus = "executing" /\ ~StageOver(stage, stageStatus, status))
      BY <1>0, <1>01, <1>6, <2>2 DEF Save, StartingAt
    <2> QED BY <2>1, <2>2
  <1>7. CASE StageSmoke(f)
    BY <1>0, <1>01, <1>7, ChooseChosen DEF StageSmoke, StartingAt
  <1>8. CASE PlanSmoke(f)
    BY <1>0, <1>01, <1>8 DEF PlanSmoke, StartingAt, startVars
  <1>9. CASE Start(f)
    BY <1>9, StartChosen
  <1> QED BY <1>1, <1>2, <1>3, <1>4, <1>5, <1>6, <1>7, <1>8, <1>9 DEF Recompute

LEMMA StepChosen ==
  ASSUME Fields, ChosenInv, NEW s \in Step,
         \/ AgentCompleted(s) \/ Lands(s) \/ Conflicts(s) \/ Retries(s) \/ Fails(s)
         \/ Throws(s) \/ Asks(s)
         \/ Retry(s) \/ Skip(s) \/ Confirm(s) \/ Confirmed(s) \/ Reject(s)
  PROVE  ChosenInv'
  <1>0. s \in Fiber /\ Loop \in Fiber /\ s # Loop /\ \A u \in Step : u \in Fiber /\ u # Loop
    BY GatesAssumption DEF Fiber
  <1>1. CASE AgentCompleted(s)
    <2>1. /\ UNCHANGED chosen
          /\ job[Loop] = "idle" /\ job[s] = "idle"
          /\ job'[s] = "working" /\ job'[Loop] = "testing"
          /\ \A g \in Fiber \ {s, Loop} : job'[g] = job[g]
          /\ status[s] = "in-progress" /\ status'[s] = "verifying"
          /\ \A u \in Step : u # s => status'[u] = status[u]
      BY <1>0, <1>1 DEF AgentCompleted, Fields, startVars
    <2>2. \A g \in Fiber : job'[g] = job[g] \/ {job[g], job'[g]} \cap StartingAt = {}
      BY <2>1 DEF StartingAt
    <2>3. \A u \in Step : u # s => status'[u] = status[u] /\ job'[u] = job[u]
      BY <1>0, <2>1
    <2> QED BY <2>1, <2>2, <2>3, StaysChosen
  <1>2. CASE \E st : Completed(s, st)
    <2>1. /\ UNCHANGED chosen
          /\ job[s] = "working" /\ job'[s] = "tickets"
          /\ \A g \in Fiber \ {s} : job'[g] = job[g]
          /\ \A u \in Step : u # s => status'[u] = status[u]
      BY <1>0, <1>2 DEF Completed, Goes, Fields, startVars
    <2>2. \A g \in Fiber : job'[g] = job[g] \/ {job[g], job'[g]} \cap StartingAt = {}
      BY <2>1 DEF StartingAt
    <2>3. \A u \in Step : u # s => status'[u] = status[u] /\ job'[u] = job[u]
      BY <1>0, <2>1
    <2> QED BY <2>1, <2>2, <2>3, StaysChosen
  (* The user's calls, which the loop handles when it is idle.             *)
  <1>3. ASSUME UNCHANGED chosen, job[Loop] \in {"idle", "confirming"},
               job'[Loop] \in {"tickets", "confirming"},
               \A u \in Step : job'[u] = job[u],
               \A u \in Step : u # s => status'[u] = status[u],
               \/ status'[s] \in {status[s], "skipped"}
               \/ status[s] \notin {"ready", "skipped", "verifying"}
        PROVE  ChosenInv'
    <2>1. \A g \in Fiber : job'[g] = job[g] \/ {job[g], job'[g]} \cap StartingAt = {}
      BY <1>3 DEF StartingAt, Fiber
    <2> QED BY <1>3, <2>1, StaysChosen
  <1>4. CASE Retry(s)
    BY <1>0, <1>3, <1>4 DEF Retry, Handles, Fields, startVars
  <1>5. CASE Skip(s)
    BY <1>0, <1>3, <1>5 DEF Skip, Handles, Fields, startVars
  <1>6. CASE Confirm(s)
    BY <1>0, <1>3, <1>6 DEF Confirm, Handles, Fields, startVars
  <1>7. CASE Confirmed(s)
    BY <1>0, <1>3, <1>7 DEF Confirmed, Goes, Fields, startVars
  <1>8. CASE Reject(s)
    BY <1>0, <1>3, <1>8 DEF Reject, Handles, Fields, startVars
  <1> QED BY <1>1, <1>2, <1>4, <1>5, <1>6, <1>7, <1>8
          DEF Lands, Conflicts, Retries, Fails, Throws, Asks

LEMMA LoopChosen ==
  ASSUME Fields, ChosenInv,
         FirstStart \/ LoopTests \/ Pause \/ Resume \/ Advance \/ Restart
  PROVE  ChosenInv'
  <1>0. Loop \in Fiber /\ \A s \in Step : s # Loop /\ s \in Fiber
    BY GatesAssumption DEF Fiber
  <1>1. CASE FirstStart
    <2>1. /\ \A g \in Fiber : job[g] \notin StartingAt
          /\ chosen' \in Starts(stage) /\ status' = status
      BY <1>1 DEF FirstStart, Starting, StartingAt
    <2>2. /\ job'[Loop] = IF chosen' = {} THEN "testing" ELSE "firstStarts"
          /\ \A g \in Fiber : g # Loop => job'[g] = job[g]
      BY <1>0, <1>1 DEF FirstStart, Goes, Fields
    <2>3. job'[Loop] # "working" /\ (job'[Loop] \in StartingAt <=> chosen' # {})
      BY <2>2 DEF StartingAt
    <2>4. Starting' <=> chosen' # {}
      BY <1>0, <2>1, <2>2, <2>3 DEF Starting, StartingAt
    <2>5. \A g, h \in Fiber : job'[g] \in StartingAt /\ job'[h] \in StartingAt => g = h
      BY <2>1, <2>2
    <2>6. \A s \in Step : job'[s] = "working" => status'[s] \in {"verifying", "skipped"}
      BY <1>0, <2>1, <2>2 DEF ChosenInv
    <2>7. \A s \in chosen' : status'[s] = "ready" /\ s \in Step
      BY <2>1, StartsType DEF Startable
    <2>8. \A s \in chosen' : job'[s] # "working"
      BY <2>6, <2>7
    <2> QED BY <2>4, <2>5, <2>6, <2>7, <2>8 DEF ChosenInv
  (* The loop is neither starting before nor afterwards.                   *)
  <1>01. ASSUME UNCHANGED chosen, job[Loop] \notin StartingAt, job'[Loop] \notin StartingAt,
                \A s \in Step :
                  \/ /\ status'[s] = status[s]
                     /\ job'[s] = job[s]
                  \/ /\ status[s] \in {"in-progress", "failed", "needs-rebase"}
                     /\ \/ job'[s] = job[s]
                        \/ /\ {job[s], job'[s]} \cap StartingAt = {}
                           /\ status'[s] = "verifying"
         PROVE  ChosenInv'
    <2>1. \A g \in Fiber : job'[g] = job[g] \/ {job[g], job'[g]} \cap StartingAt = {}
      BY <1>01 DEF Fiber
    <2> QED BY <1>01, <2>1, StaysChosen
  <1>2. CASE LoopTests
    BY <1>0, <1>01, <1>2 DEF LoopTests, Fields, StartingAt, startVars
  <1>3. CASE Pause
    BY <1>0, <1>01, <1>3 DEF Pause, Handles, Fields, StartingAt, startVars
  <1>4. CASE Resume
    <2>1. \A s \in Step :
            /\ status'[s] = IF s \in Remerged(status) THEN "verifying"
                            ELSE IF status[s] \in {"failed", "needs-rebase"} THEN "ready"
                            ELSE status[s]
            /\ job'[s] = IF s \in Remerged(status) THEN "working" ELSE job[s]
            /\ s \in Remerged(status) => status[s] = "needs-rebase" /\ job[s] = "idle"
      BY <1>0, <1>4 DEF Resume, Remerged
    <2>2. UNCHANGED chosen /\ job[Loop] = "idle" /\ job'[Loop] = "tickets"
      BY <1>0, <1>4 DEF Resume, Handles, startVars
    <2> QED BY <1>01, <2>1, <2>2 DEF StartingAt
  <1>5. CASE Advance
    BY <1>0, <1>01, <1>5 DEF Advance, Handles, Fields, StartingAt, startVars
  <1>6. CASE Restart
    <2>1. /\ chosen' = {}
          /\ \A f \in Fiber : job'[f] \in {"over", "starting", "working", "idle"}
          /\ \A s \in Step : job'[s] = "working" => status'[s] = "verifying"
      BY <1>0, <1>6 DEF Restart
    <2> QED BY <2>1 DEF ChosenInv, Starting, StartingAt
  <1> QED BY <1>1, <1>2, <1>3, <1>4, <1>5, <1>6

LEMMA ChosenStep == GatesTypeOK /\ ChosenInv /\ [GatesNext]_gateVars => ChosenInv'
  <1>1. CASE UNCHANGED gateVars
    BY <1>1 DEF gateVars, startVars, ChosenInv, Starting
  <1> QED BY <1>1, TypeTo, RecomputeChosen, StepChosen, LoopChosen DEF GatesNext

-----------------------------------------------------------------------------
(* Stages.  Where a stage has not been reached its steps have not been     *)
(* begun, and their handlers do not run; what was saved is as orderly as   *)
(* what is, or a restart would undo it.                                    *)

Fresh == {"blocked", "ready", "skipped"}

Orderly(st, i, ss) ==
  /\ ss[i] # "pending"
  /\ \A j \in Stage :
       /\ j < i => ss[j] \in {"completed", "failed"}
       /\ j > i => /\ ss[j] = "pending"
                   /\ \A s \in StepsOf(j) : st[s] \in Fresh

OrderInv ==
  Staged /\ ~config.autoContinue /\ ~early =>
    /\ Orderly(status, stage, stageStatus)
    /\ Orderly(saved.status, saved.stage, saved.stageStatus)
    /\ \A s \in Step : job[s] = "working" => StageOf[s] <= stage
    /\ \A s \in chosen : StageOf[s] <= stage

LEMMA OrderInit == GatesInit => OrderInv
  <1> SUFFICES ASSUME GatesInit PROVE OrderInv
    OBVIOUS
  <1>1. 1 \in Stage /\ \A j \in Stage : ~(j < 1)
    BY GatesAssumption DEF Stage
  <1>2. Orderly(status, stage, stageStatus)
    BY <1>1 DEF GatesInit, Orderly, Fresh, StepsOf
  <1>3. saved.status = status /\ saved.stage = stage /\ saved.stageStatus = stageStatus
    BY DEF GatesInit, Current
  <1>4. \A s \in Step : job[s] # "working"
    BY GatesAssumption DEF GatesInit, Fiber
  <1>5. chosen = {}
    BY DEF GatesInit
  <1> QED BY <1>2, <1>3, <1>4, <1>5 DEF OrderInv

LEMMA OrderlyMarked ==
  ASSUME NEW i \in Stage, NEW ss \in [Stage -> StageState], NEW st, NEW sm,
         Orderly(st, i, ss)
  PROVE  Orderly(st, i, Marked(i, ss, sm))
  BY DEF Orderly, Marked, StageState, Stage

(* A step that stays in its stage and begins nothing of a later one.       *)
LEMMA StaysOrdered ==
  ASSUME Fields, Fields', OrderInv,
         UNCHANGED <<config, early, stage>>,
         stageStatus' = stageStatus \/ \E sm : stageStatus' = Marked(stage, stageStatus, sm),
         Staged /\ ~config.autoContinue /\ ~early =>
           \A s \in Step : status[s] \in Fresh /\ StageOf[s] > stage => status'[s] \in Fresh,
         \A s \in Step : job'[s] = "working" => job[s] = "working" \/ status[s] \notin Fresh,
         Staged /\ ~config.autoContinue /\ ~early =>
           \A s \in chosen' : s \in chosen \/ StageOf[s] = stage,
         \/ saved' = saved \/ saved' = Current \/ saved' = Current'
         \/ saved' = [Current EXCEPT !.status = status']
  PROVE  OrderInv'
  <1> SUFFICES ASSUME Staged /\ ~config.autoContinue /\ ~early
               PROVE  /\ Orderly(status', stage', stageStatus')
                      /\ Orderly(saved'.status, saved'.stage, saved'.stageStatus)
                      /\ \A s \in Step : job'[s] = "working" => StageOf[s] <= stage'
                      /\ \A s \in chosen' : StageOf[s] <= stage'
    BY DEF OrderInv, Staged
  <1>1. /\ Orderly(status, stage, stageStatus)
        /\ Orderly(saved.status, saved.stage, saved.stageStatus)
        /\ \A s \in Step : job[s] = "working" => StageOf[s] <= stage
        /\ \A s \in chosen : StageOf[s] <= stage
    BY DEF OrderInv
  <1>2. \A s \in Step : StageOf[s] \in Stage /\ StageOf[s] \in Nat
    BY GatesAssumption DEF Stage
  <1>3. stage \in Nat
    BY DEF Fields, Stage
  <1>4. \A s \in Step : status[s] \notin Fresh => StageOf[s] <= stage
    BY <1>1, <1>2, <1>3 DEF Orderly, StepsOf
  <1>5. Orderly(status', stage, stageStatus)
    <2>1. \A j \in Stage : j > stage => \A s \in StepsOf(j) : status'[s] \in Fresh
      BY <1>1, <1>3 DEF Orderly, StepsOf, Stage
    <2> QED BY <1>1, <2>1 DEF Orderly
  <1>6. Orderly(status', stage', stageStatus')
    BY <1>5, OrderlyMarked DEF Fields
  <1>7. Orderly(saved'.status, saved'.stage, saved'.stageStatus)
    BY <1>1, <1>5, <1>6 DEF Current
  <1>8. \A s \in chosen' : StageOf[s] <= stage'
    BY <1>1, <1>3
  <1> QED BY <1>1, <1>4, <1>6, <1>7, <1>8

LEMMA StagesCompare ==
  ASSUME Fields, NEW s \in Step
  PROVE  /\ StageOf[s] > stage => StageOf[s] # stage
         /\ StageOf[s] <= stage => ~(StageOf[s] > stage)
  <1>1. StageOf[s] \in Nat /\ stage \in Nat
    BY GatesAssumption DEF Fields, Stage
  <1> QED BY <1>1

LEMMA ChooseOrdered ==
  ASSUME Fields, Fields', OrderInv, ChosenInv, NEW f \in Fiber,
         Choose(f, stage, stageStatus), UNCHANGED <<config, early>>,
         saved' = saved \/ saved' = Current
  PROVE  OrderInv'
  <1>1. chosen' \in Starts(stage) /\ stage' = stage /\ status' = status
    BY DEF Choose
  <1>2. Staged /\ ~config.autoContinue => \A s \in chosen' : StageOf[s] = stage
    BY <1>1, StartsType DEF Startable
  <1>3. \A s \in Step : job'[s] = "working" => job[s] = "working"
    <2>1. /\ job'[f] # "working"
          /\ \A g \in Fiber : g # f => job'[g] = job[g]
      BY TestTerminalAt DEF Choose, Goes, Fields
    <2> QED BY <2>1 DEF Fiber
  <1>4. stageStatus' = stageStatus \/ \E sm : stageStatus' = Marked(stage, stageStatus, sm)
    BY <1>1 DEF Choose, TestTerminal
  <1> QED BY <1>1, <1>2, <1>3, <1>4, StaysOrdered

LEMMA StartOrdered ==
  ASSUME Fields, Fields', OrderInv, ChosenInv, NEW f \in Fiber, Start(f)
  PROVE  OrderInv'
  <1>1. PICK s \in chosen :
          /\ chosen' = chosen \ {s} /\ s \in Step
          /\ \A u \in Step : u # s => status'[u] = status[u]
          /\ \/ saved' = saved
             \/ saved' = [Current EXCEPT !.status = status']
          /\ UNCHANGED <<config, stage, early>>
          /\ \A g \in Fiber : g # f => job'[g] = job[g]
          /\ job[f] \in StartingAt
          /\ job'[f] \in {job[f], "planSmoke", "testing", "idle"}
          /\ \E sm : stageStatus' \in {stageStatus, Marked(stage, stageStatus, sm)}
    BY StartOne DEF Fields
  <1>2. \A u \in Step : job'[u] = "working" => job[u] = "working"
    BY <1>1 DEF StartingAt, Fiber
  <1>3. Staged /\ ~config.autoContinue /\ ~early =>
          \A u \in Step : status[u] \in Fresh /\ StageOf[u] > stage => status'[u] \in Fresh
    <2>1. Staged /\ ~config.autoContinue /\ ~early => ~(StageOf[s] > stage)
      BY <1>1, StagesCompare DEF OrderInv
    <2> QED BY <1>1, <2>1
  <1>4. stageStatus' = stageStatus \/ \E sm : stageStatus' = Marked(stage, stageStatus, sm)
    BY <1>1
  <1> QED BY <1>1, <1>2, <1>3, <1>4, StaysOrdered

LEMMA RecomputeOrder ==
  ASSUME Fields, Fields', OrderInv, ChosenInv, NEW f \in Fiber, Recompute(f)
  PROVE  OrderInv'
  <1>0. /\ \A at : Goes(f, at) /\ at # "working" =>
                     \A s \in Step : job'[s] = "working" => job[s] = "working"
        /\ Ends(f) => \A s \in Step : job'[s] = "working" => job[s] = "working"
    BY DEF Goes, Ends, Fields, Fiber
  <1>00. \A st \in {"failed", "needs-rebase"} : DoneChildrenBecome(st) =>
           \A s \in Step : status[s] \in Fresh => status'[s] \in Fresh
    BY DEF DoneChildrenBecome, Fresh
  <1>1. CASE Tickets(f)
    <2>1. \A s \in Step : status[s] \in Fresh => status'[s] \in Fresh
      BY <1>1 DEF Tickets, Recomputed, Fresh
    <2> QED BY <1>0, <1>1, <2>1, StaysOrdered DEF Tickets, startVars
  <1>2. CASE Project(f)
    BY <1>0, <1>2, StaysOrdered DEF Project, startVars
  <1>3. CASE Gate(f)
    <2>1. \A s \in Step : status[s] \in Fresh => status'[s] \in Fresh
      BY <1>3, <1>00 DEF Gate
    <2> QED BY <1>0, <1>3, <2>1, StaysOrdered DEF Gate, startVars
  <1>4. CASE Land(f)
    <2>1. \A s \in Step : status[s] \in Fresh => status'[s] \in Fresh
      BY <1>4, <1>00 DEF Land
    <2> QED BY <1>0, <1>4, <2>1, StaysOrdered DEF Land, startVars
  <1>5. CASE Delete(f)
    BY <1>0, <1>5, StaysOrdered DEF Delete, startVars
  <1>6. CASE Save(f)
    <2>1. CASE planStatus = "executing" /\ ~StageOver(stage, stageStatus, status)
      BY <1>6, <2>1, ChooseOrdered DEF Save
    <2>2. CASE ~(planStatus = "executing" /\ ~StageOver(stage, stageStatus, status))
      BY <1>0, <1>6, <2>2, StaysOrdered DEF Save
    <2> QED BY <2>1, <2>2
  <1>7. CASE StageSmoke(f)
    <2>1. CASE /\ "smoke" \in Fault \/ (stage < Stages /\ ~config.autoContinue)
               /\ planStatus' = "paused"
               /\ UNCHANGED <<status, branch, stage, stageStatus, chosen, missed>>
               /\ SavePlan
               /\ Ends(f)
      BY <1>0, <1>7, <2>1, SavedIs, StaysOrdered DEF StageSmoke
    <2>2. CASE stage = Stages /\ Choose(f, stage, stageStatus) /\ UNCHANGED saved
      BY <1>7, <2>2, ChooseOrdered DEF StageSmoke
    <2>3. CASE stage < Stages /\ config.autoContinue
      BY <1>7, <2>3 DEF StageSmoke, OrderInv
    <2> QED BY <1>7, <2>1, <2>2, <2>3 DEF StageSmoke
  <1>8. CASE PlanSmoke(f)
    BY <1>0, <1>8, SavedIs, StaysOrdered DEF PlanSmoke, startVars
  <1>9. CASE Start(f)
    BY <1>9, StartOrdered
  <1> QED BY <1>1, <1>2, <1>3, <1>4, <1>5, <1>6, <1>7, <1>8, <1>9 DEF Recompute

LEMMA StepOrder ==
  ASSUME Fields, Fields', OrderInv, NEW s \in Step,
         \/ AgentCompleted(s) \/ Lands(s) \/ Conflicts(s) \/ Retries(s) \/ Fails(s)
         \/ Throws(s) \/ Asks(s)
         \/ Retry(s) \/ Skip(s) \/ Confirm(s) \/ Confirmed(s) \/ Reject(s)
  PROVE  OrderInv'
  <1>0. s \in Fiber /\ Loop \in Fiber /\ s # Loop
    BY GatesAssumption DEF Fiber
  (* What has been begun is of a stage that has been reached.              *)
  <1>00. ASSUME UNCHANGED <<config, early, stage, stageStatus, chosen>>,
                \A u \in Step : status'[u] = status[u] \/ (u = s /\ status'[u] \in Fresh),
                \A u \in Step : job'[u] = "working" => job[u] = "working",
                saved' = saved \/ saved' = Current'
         PROVE  OrderInv'
    <2>1. \A u \in Step : status[u] \in Fresh => status'[u] \in Fresh
      BY <1>00
    <2> QED BY <1>00, <2>1, StaysOrdered
  <1>1. CASE AgentCompleted(s)
    <2>1. \A u \in Step : status[u] \in Fresh => status'[u] \in Fresh
      BY <1>1 DEF AgentCompleted, Fields, Fresh
    <2>2. \A u \in Step : job'[u] = "working" => job[u] = "working" \/ status[u] \notin Fresh
      BY <1>0, <1>1 DEF AgentCompleted, Fields, Fiber, Fresh
    <2>3. saved' = saved \/ saved' = Current'
      BY <1>1 DEF AgentCompleted, Current
    <2> QED BY <1>1, <2>1, <2>2, <2>3, StaysOrdered DEF AgentCompleted, startVars
  (* The handler of a step has been at work, so its stage is reached.      *)
  <1>01. ASSUME NEW st, Completed(s, st), saved' = saved \/ saved' = Current'
         PROVE  OrderInv'
    <2>1. Staged /\ ~config.autoContinue /\ ~early =>
             \A u \in Step : status[u] \in Fresh /\ StageOf[u] > stage => status'[u] \in Fresh
      <3>1. \A u \in Step : u # s => status'[u] = status[u]
        BY <1>01 DEF Completed, Fields
      <3>2. Staged /\ ~config.autoContinue /\ ~early => ~(StageOf[s] > stage)
        BY <1>01, StagesCompare DEF Completed, OrderInv
      <3> QED BY <3>1, <3>2
    <2>2. \A u \in Step : job'[u] = "working" => job[u] = "working"
      BY <1>0, <1>01 DEF Completed, Goes, Fields, Fiber
    <2> QED BY <1>01, <2>1, <2>2, StaysOrdered DEF Completed, startVars
  <1>2. CASE Lands(s)
    BY <1>01, <1>2 DEF Lands
  <1>3. CASE Conflicts(s)
    BY <1>01, <1>3, SavedIs DEF Conflicts, PauseIfConfigured
  <1>4. CASE Fails(s)
    BY <1>01, <1>4, SavedIs DEF Fails, PauseIfConfigured
  <1>11. CASE Retries(s) \/ Throws(s)
    BY <1>01, <1>11 DEF Retries, Throws
  <1>5. CASE Asks(s)
    BY <1>01, <1>5, SavedIs DEF Asks
  <1>6. CASE Retry(s)
    <2>1. /\ \A u \in Step : status'[u] = status[u] \/ (u = s /\ status'[u] \in Fresh)
          /\ \A u \in Step : job'[u] = "working" => job[u] = "working"
      BY <1>0, <1>6 DEF Retry, Fields, Fresh, Fiber
    <2> QED BY <1>00, <1>6, <2>1 DEF Retry, Handles, startVars
  <1>7. CASE Skip(s)
    <2>1. /\ \A u \in Step : status'[u] = status[u] \/ (u = s /\ status'[u] \in Fresh)
          /\ \A u \in Step : job'[u] = "working" => job[u] = "working"
      BY <1>0, <1>7 DEF Skip, Fields, Fresh, Fiber
    <2> QED BY <1>00, <1>7, <2>1 DEF Skip, Handles, startVars
  <1>8. CASE Confirm(s)
    <2>1. \A u \in Step : status[u] \in Fresh => status'[u] \in Fresh
      BY <1>8 DEF Confirm, Fields, Fresh
    <2>2. \A u \in Step : job'[u] = "working" => job[u] = "working"
      BY <1>0, <1>8 DEF Confirm, Fields, Fiber
    <2> QED BY <1>8, <2>1, <2>2, StaysOrdered DEF Confirm, Handles, startVars
  <1>9. CASE Confirmed(s)
    <2>2. \A u \in Step : job'[u] = "working" => job[u] = "working"
      BY <1>0, <1>9 DEF Confirmed, Goes, Fields, Fiber
    <2> QED BY <1>9, <2>2, StaysOrdered DEF Confirmed, startVars
  <1>10. CASE Reject(s)
    <2>1. /\ \A u \in Step : status'[u] = status[u] \/ (u = s /\ status'[u] \in Fresh)
          /\ \A u \in Step : job'[u] = "working" => job[u] = "working"
      BY <1>0, <1>10 DEF Reject, Fields, Fresh, Fiber
    <2> QED BY <1>00, <1>10, <2>1 DEF Reject, Handles, startVars
  <1> QED BY <1>1, <1>2, <1>3, <1>4, <1>5, <1>6, <1>7, <1>8, <1>9, <1>10, <1>11

LEMMA LoopOrder ==
  ASSUME Fields, Fields', OrderInv, saved \in Plan,
         FirstStart \/ LoopTests \/ Pause \/ Resume \/ Advance \/ Restart
  PROVE  OrderInv'
  <1>0. Loop \in Fiber /\ \A s \in Step : s # Loop /\ s \in Fiber
    BY GatesAssumption DEF Fiber
  <1>1. CASE FirstStart
    <2>1. chosen' \in Starts(stage) /\ stage' = stage /\ status' = status
      BY <1>1 DEF FirstStart
    <2>2. Staged /\ ~config.autoContinue => \A s \in chosen' : StageOf[s] = stage
      BY <2>1, StartsType DEF Startable
    <2>3. \A s \in Step : job'[s] = "working" => job[s] = "working"
      BY <1>0, <1>1 DEF FirstStart, Goes, Fields
    <2> QED BY <1>1, <2>1, <2>2, <2>3, StaysOrdered DEF FirstStart
  <1>2. CASE LoopTests
    <2>1. \A s \in Step : job'[s] = "working" => job[s] = "working"
      BY <1>0, <1>2 DEF LoopTests, Fields
    <2> QED BY <1>2, <2>1, StaysOrdered DEF LoopTests, startVars
  <1>3. CASE Pause
    <2>1. \A s \in Step : job'[s] = "working" => job[s] = "working"
      BY <1>0, <1>3 DEF Pause, Fields
    <2>2. \A s \in Step : status[s] \in Fresh => status'[s] \in Fresh
      BY <1>3 DEF Pause, Fresh
    <2> QED BY <1>3, <2>1, <2>2, SavedIs, StaysOrdered DEF Pause, Handles, startVars
  <1>4. CASE Resume
    <2>1. \A s \in Step : job'[s] = "working" => job[s] = "working" \/ status[s] \notin Fresh
      BY <1>0, <1>4 DEF Resume, Fields, Remerged, Fresh
    <2>2. \A s \in Step : status[s] \in Fresh => status'[s] \in Fresh
      BY <1>4 DEF Resume, Fresh, Remerged
    <2> QED BY <1>4, <2>1, <2>2, StaysOrdered DEF Resume, Handles, startVars
  <1>5. CASE Advance
    <2> SUFFICES ASSUME Staged /\ ~config'.autoContinue /\ ~early'
                 PROVE  /\ Orderly(status', stage', stageStatus')
                        /\ Orderly(saved'.status, saved'.stage, saved'.stageStatus)
                        /\ \A s \in Step : job'[s] = "working" => StageOf[s] <= stage'
                        /\ \A s \in chosen' : StageOf[s] <= stage'
      BY DEF OrderInv, Staged
    <2>1. /\ config' = config /\ chosen' = chosen /\ saved' = saved /\ status' = status
          /\ ~early /\ stageStatus[stage] # "executing"
          /\ IF stage < Stages
             THEN /\ stage' = stage + 1
                  /\ stageStatus' = [stageStatus EXCEPT ![stage + 1] = "executing"]
             ELSE UNCHANGED <<stage, stageStatus>>
          /\ \A s \in Step : job'[s] = job[s]
      BY <1>0, <1>5 DEF Advance, Handles, Fields, startVars
    <2>2. /\ Orderly(status, stage, stageStatus)
          /\ Orderly(saved.status, saved.stage, saved.stageStatus)
          /\ \A s \in Step : job[s] = "working" => StageOf[s] <= stage
          /\ \A s \in chosen : StageOf[s] <= stage
      BY <2>1 DEF OrderInv
    <2>3. stageStatus[stage] \in {"completed", "failed"}
      BY <2>1, <2>2 DEF Orderly, Fields, StageState
    <2>4. CASE stage < Stages
      <3>1. \A j \in Stage : j \in Nat
        BY DEF Stage
      <3>2. stage \in Nat /\ stage + 1 \in Stage
        BY <2>4, GatesAssumption DEF Fields, Stage
      <3>3. Orderly(status', stage', stageStatus')
        BY <2>1, <2>2, <2>3, <2>4, <3>1, <3>2 DEF Orderly, Fields
      <3>4. (\A s \in Step : StageOf[s] \in Nat) /\ chosen \subseteq Step
        BY <3>1, GatesAssumption DEF Fields
      <3> QED BY <2>1, <2>2, <2>4, <3>2, <3>3, <3>4
    <2>5. CASE ~(stage < Stages)
      BY <2>1, <2>2, <2>5
    <2> QED BY <2>4, <2>5
  <1>6. CASE Restart
    <2>1. PICK W \in SUBSET {s \in Step : status[s] = "in-progress" /\ work[s] = "none"} :
            Restart!(W)
      BY <1>6 DEF Restart
    <2> DEFINE w == [s \in Step |-> IF s \in W THEN "worktree" ELSE work[s]]
               st == Reconciled(w)
               ended == st # saved.status /\ \A s \in Step : st[s] \in TerminalStatus
    <2>2. /\ status' = IF ended THEN st ELSE Recovered(st, w)
          /\ stage' = saved.stage /\ stageStatus' = saved.stageStatus
          /\ job' = [f \in Fiber |->
                IF f = Loop THEN IF ended THEN "over" ELSE "starting"
                ELSE IF ~ended /\ status'[f] = "verifying" THEN "working" ELSE "idle"]
          /\ UNCHANGED <<config, early>>
          /\ saved' = Current' /\ chosen' = {}
      BY <2>1, SavedIs
    <2>3. \A s \in Step : saved.status[s] \in Fresh =>
             st[s] \in Fresh /\ Recovered(st, w)[s] \in Fresh
      BY DEF Reconciled, Recovered, Fresh
    <2> HIDE DEF w, st, ended
    <2>4. \A s \in Step : saved.status[s] \in Fresh => status'[s] \in Fresh
      BY <2>2, <2>3
    <2> SUFFICES ASSUME Staged /\ ~config.autoContinue /\ ~early
                 PROVE  /\ Orderly(status', stage', stageStatus')
                        /\ \A s \in Step : job'[s] = "working" => StageOf[s] <= stage'
      BY <2>2 DEF OrderInv, Staged, Current
    <2>5. Orderly(saved.status, saved.stage, saved.stageStatus)
      BY DEF OrderInv
    <2>6. Orderly(status', stage', stageStatus')
      BY <2>2, <2>4, <2>5 DEF Orderly, StepsOf
    <2>7. \A s \in Step : job'[s] = "working" => status'[s] \notin Fresh
      BY <1>0, <2>2 DEF Fresh
    <2>8. stage' \in Nat /\ \A s \in Step : StageOf[s] \in Nat /\ StageOf[s] \in Stage
      BY GatesAssumption DEF Fields, Stage
    <2> QED BY <2>6, <2>7, <2>8 DEF Orderly, StepsOf
  <1> QED BY <1>1, <1>2, <1>3, <1>4, <1>5, <1>6

LEMMA OrderStep ==
  GatesTypeOK /\ GatesTypeOK' /\ ChosenInv /\ OrderInv /\ [GatesNext]_gateVars => OrderInv'
  <1> SUFFICES ASSUME GatesTypeOK, GatesTypeOK', ChosenInv, OrderInv,
                      [GatesNext]_gateVars
               PROVE  OrderInv'
    OBVIOUS
  <1>1. Fields /\ saved \in Plan
    BY TypeTo
  <1>2. Fields'
    BY DEF GatesTypeOK, Fields, Current, Plan, StageState
  <1>3. CASE UNCHANGED gateVars
    BY <1>3 DEF gateVars, startVars, OrderInv
  <1> QED BY <1>1, <1>2, <1>3, RecomputeOrder, StepOrder, LoopOrder DEF GatesNext

(* Without autoContinue the stages before the current one are over and     *)
(* those after it untouched, however handlers, smoke tests, the user's     *)
(* calls and crashes interleave, unless the user leaves a stage too early  *)
(* (executor.ts: checkStageCompletion, startReadySteps; reconcile.ts).     *)
THEOREM StagesAreInOrder == GatesSpec => []StagesInOrder
  <1>1. OrderInv => StagesInOrder
    BY DEF OrderInv, Orderly, StagesInOrder, Fresh, Under
  <1> QED BY <1>1, InitType, TypeStep, ChosenInit, ChosenStep, OrderInit, OrderStep, PTL
         DEF GatesSpec

-----------------------------------------------------------------------------
(* Slots.  Whoever leaves recomputeAndContinue() has started what there    *)
(* was room for, or failed to, so what holds when all rest has held since  *)
(* the last one left, also while the loop has an event to take; and while  *)
(* a fiber starts agents, what is still to be started counts as started.   *)

Resting == {"idle", "testing", "starts", "firstStarts"}

Rested ==
  planStatus = "executing" /\ running
    /\ (\A f \in Fiber : job[f] \in Resting)
    => Free - Cardinality(chosen) <= missed \/ Startable(stage) \subseteq chosen

LEMMA RestedInit == GatesInit => Rested
  BY DEF GatesInit, Rested, Resting, Fiber

(* startReadySteps() chooses as many as there is room for, or all.         *)
LEMMA ChosenFill ==
  ASSUME NEW i, NEW T \in Starts(i), Free \in Int
  PROVE  Free - Cardinality(T) <= 0 \/ Startable(i) \subseteq T
  <1> DEFINE S == Startable(i)
  <1>1. S \subseteq Step /\ T \subseteq S
    BY StartsType DEF Startable
  <1>2. IsFiniteSet(S) /\ IsFiniteSet(T)
    BY <1>1, GatesAssumption, FS_Subset
  <1>3. Cardinality(T) \in Nat /\ Cardinality(S) \in Nat
    BY <1>2, FS_CardinalityType
  <1>4. Cardinality(T) = IF Cardinality(S) <= Free THEN Cardinality(S)
                         ELSE IF Free > 0 THEN Free ELSE 0
    BY DEF Starts
  <1>5. CASE Cardinality(S) <= Free
    <2>1. T = S
      <3> HIDE DEF S
      <3> QED BY <1>1, <1>2, <1>4, <1>5, FS_Subset
    <2> QED BY <2>1
  <1>6. CASE ~(Cardinality(S) <= Free)
    <2> HIDE DEF S
    <2> QED BY <1>3, <1>4, <1>6
  <1> QED BY <1>5, <1>6

LEMMA FreeType == Free \in Int
  <1>1. IsFiniteSet(Under(status))
    BY GatesAssumption, FS_Subset DEF Under
  <1>2. Cardinality(Under(status)) \in Nat
    BY <1>1, FS_CardinalityType
  <1> QED BY <1>2, GatesAssumption DEF Free

LEMMA ChooseRests ==
  ASSUME NEW i, chosen' \in Starts(i), missed' = 0, stage' = i,
         UNCHANGED <<config, status>>
  PROVE  Rested'
  <1>1. Free' = Free /\ Startable(i)' = Startable(i)
    BY DEF Free, Startable, Staged
  <1>2. Free - Cardinality(chosen') <= 0 \/ Startable(i) \subseteq chosen'
    BY FreeType, ChosenFill
  <1>3. Startable(stage)' = Startable(i)
    BY DEF Startable, Staged
  <1> QED BY <1>1, <1>2, <1>3 DEF Rested

(* A start takes one slot, or is missed; in both cases one step less is    *)
(* to be started.                                                          *)
LEMMA StartRests ==
  ASSUME Fields, ChosenInv, Rested, NEW f \in Fiber, Start(f)
  PROVE  Rested'
  <1>1. PICK s \in chosen :
          /\ chosen' = chosen \ {s}
          /\ s \in Step /\ status[s] \in {"ready", "skipped"}
          /\ \/ /\ status' = [status EXCEPT ![s] = "in-progress"]
                /\ missed' = missed
             \/ /\ status' = [status EXCEPT ![s] = "failed"]
                /\ missed' = missed + 1
          /\ UNCHANGED <<config, planStatus, stage, running>>
          /\ \A g \in Fiber : g # f => job'[g] = job[g]
          /\ job[f] \in StartingAt
    BY StartOne
  <1>2. SUFFICES ASSUME planStatus = "executing" /\ running,
                        \A g \in Fiber : job[g] \in Resting
                 PROVE  Free' - Cardinality(chosen') <= missed' \/ Startable(stage)' \subseteq chosen'
    BY <1>1 DEF Rested, Resting, StartingAt
  <1>3. Free - Cardinality(chosen) <= missed \/ Startable(stage) \subseteq chosen
    BY <1>2 DEF Rested
  <1>4. IsFiniteSet(chosen) /\ Cardinality(chosen) \in Nat
        /\ Cardinality(chosen') = Cardinality(chosen) - 1
    <2>1. IsFiniteSet(chosen)
      BY GatesAssumption, FS_Subset DEF Fields
    <2> QED BY <1>1, <2>1, FS_CardinalityType, FS_RemoveElement
  <1>5. Startable(stage)' \subseteq Startable(stage) \ {s}
    BY <1>1 DEF Startable, Staged, Fields
  <1>6. /\ Free \in Int /\ missed \in Nat
        /\ \/ Free' = Free - 1 /\ missed' = missed
           \/ Free' = Free /\ missed' = missed + 1
    <2> DEFINE U == Under(status)
    <2>1. IsFiniteSet(U) /\ s \notin U
      BY <1>1, GatesAssumption, FS_Subset DEF Under
    <2>2. Cardinality(U) \in Nat /\ Cardinality(U \cup {s}) = Cardinality(U) + 1
      <3> HIDE DEF U
      <3> QED BY <2>1, FS_CardinalityType, FS_AddElement
    <2>3. CASE status' = [status EXCEPT ![s] = "in-progress"] /\ missed' = missed
      <3>1. Under(status') = U \cup {s}
        BY <1>1, <2>3 DEF Under, Fields
      <3> HIDE DEF U
      <3>2. Free' = MaxAgents - Cardinality(U \cup {s})
        BY <3>1 DEF Free
      <3>3. Free = MaxAgents - Cardinality(U)
        BY DEF Free, U
      <3> QED BY <2>2, <2>3, <3>2, <3>3, GatesAssumption, FreeType DEF Fields
    <2>4. CASE status' = [status EXCEPT ![s] = "failed"] /\ missed' = missed + 1
      <3>1. Under(status') = U
        BY <1>1, <2>4 DEF Under, Fields
      <3>2. Free' = Free
        BY <3>1 DEF Free
      <3> QED BY <2>4, <3>2, FreeType DEF Fields
    <2> QED BY <1>1, <2>3, <2>4
  <1>7. CASE Startable(stage) \subseteq chosen
    BY <1>1, <1>5, <1>7
  <1>8. CASE Free - Cardinality(chosen) <= missed
    BY <1>4, <1>6, <1>8
  <1> QED BY <1>3, <1>7, <1>8

(* A fiber that goes on to another await keeps the others waiting.         *)
LEMMA GoesOn ==
  ASSUME NEW f \in Fiber, job'[f] \notin Resting
  PROVE  Rested'
  BY DEF Rested

(* Nor does a step that changes nothing of what Rested is about.           *)
LEMMA StaysRested ==
  ASSUME Rested, UNCHANGED <<status, planStatus, running, stage, config, chosen, missed>>,
         \A f \in Fiber : job'[f] \in Resting => job[f] \in Resting
  PROVE  Rested'
  BY DEF Rested, Free, Startable, Staged

LEMMA RecomputeRested ==
  ASSUME Fields, ChosenInv, Rested, NEW f \in Fiber, Recompute(f)
  PROVE  Rested'
  <1>0. \A at : Goes(f, at) => job'[f] = at
    BY DEF Goes, Fields
  <1>01. ASSUME NEW i, NEW ss, Choose(f, i, ss), UNCHANGED config
         PROVE  Rested'
    BY <1>01, ChooseRests DEF Choose
  <1>1. CASE Tickets(f)
    BY <1>0, <1>1, GoesOn DEF Tickets, Resting
  <1>2. CASE Project(f)
    BY <1>0, <1>2, GoesOn DEF Project, Resting
  <1>3. CASE Gate(f)
    BY <1>0, <1>3, GoesOn DEF Gate, Resting
  <1>4. CASE Land(f)
    BY <1>0, <1>4, GoesOn DEF Land, Resting
  <1>5. CASE Delete(f)
    BY <1>0, <1>5, GoesOn DEF Delete, Resting
  <1>6. CASE Save(f)
    <2>1. CASE planStatus = "executing" /\ ~StageOver(stage, stageStatus, status)
      BY <1>6, <2>1, <1>01 DEF Save
    <2>2. CASE planStatus = "executing" /\ StageOver(stage, stageStatus, status)
      BY <1>0, <1>6, <2>2, GoesOn DEF Save, Resting
    <2>3. CASE planStatus # "executing"
      BY <1>6, <2>3 DEF Save, Rested
    <2> QED BY <2>1, <2>2, <2>3
  <1>7. CASE StageSmoke(f)
    <2> DEFINE next == [stageStatus EXCEPT ![stage + 1] = "executing"]
    <2>1. CASE planStatus' = "paused"
      BY <2>1 DEF Rested
    <2>2. CASE Choose(f, stage, stageStatus)
      BY <1>7, <2>2, <1>01 DEF StageSmoke
    <2>3. CASE Choose(f, stage + 1, next)
      <3> HIDE DEF next
      <3> QED BY <1>7, <2>3, <1>01 DEF StageSmoke
    <2>4. CASE Goes(f, "stageSmoke")
      BY <1>0, <2>4, GoesOn DEF Resting
    <2> QED BY <1>7, <2>1, <2>2, <2>3, <2>4 DEF StageSmoke
  <1>8. CASE PlanSmoke(f)
    BY <1>8 DEF PlanSmoke, Rested
  <1>9. CASE Start(f)
    BY <1>9, StartRests
  <1> QED BY <1>1, <1>2, <1>3, <1>4, <1>5, <1>6, <1>7, <1>8, <1>9 DEF Recompute

LEMMA StepRested ==
  ASSUME Fields, NEW s \in Step,
         \/ AgentCompleted(s) \/ Lands(s) \/ Conflicts(s) \/ Retries(s) \/ Fails(s)
         \/ Throws(s) \/ Asks(s)
         \/ Retry(s) \/ Skip(s) \/ Confirm(s) \/ Confirmed(s) \/ Reject(s)
  PROVE  Rested'
  <1>0. s \in Fiber /\ Loop \in Fiber /\ s # Loop
    BY GatesAssumption DEF Fiber
  <1>1. CASE AgentCompleted(s)
    <2>1. job'[s] = "working"
      BY <1>0, <1>1 DEF AgentCompleted, Fields
    <2> QED BY <1>0, <2>1, GoesOn DEF Resting
  <1>2. CASE \E st : Completed(s, st)
    <2>1. job'[s] = "tickets"
      BY <1>0, <1>2 DEF Completed, Goes, Fields
    <2> QED BY <1>0, <2>1, GoesOn DEF Resting
  <1>3. CASE Retry(s) \/ Skip(s) \/ Reject(s) \/ Confirm(s) \/ Confirmed(s)
    <2>1. job'[Loop] \in {"tickets", "confirming"}
      BY <1>0, <1>3 DEF Retry, Skip, Reject, Confirm, Confirmed, Goes, Fields
    <2> QED BY <1>0, <2>1, GoesOn DEF Resting
  <1> QED BY <1>1, <1>2, <1>3 DEF Lands, Conflicts, Retries, Fails, Throws, Asks

LEMMA LoopRested ==
  ASSUME Fields, Rested,
         FirstStart \/ LoopTests \/ Pause \/ Resume \/ Advance \/ Restart
  PROVE  Rested'
  <1>0. Loop \in Fiber /\ \A s \in Step : s # Loop /\ s \in Fiber
    BY GatesAssumption DEF Fiber
  <1>1. CASE FirstStart
    BY <1>1, ChooseRests DEF FirstStart
  <1>2. CASE LoopTests
    <2>1. \A f \in Fiber : job'[f] \in Resting => job[f] \in Resting
      BY <1>0, <1>2 DEF LoopTests, Fields, Resting
    <2> QED BY <1>2, <2>1, StaysRested DEF LoopTests, startVars
  <1>3. CASE Pause
    BY <1>3 DEF Pause, Rested
  <1>4. CASE Resume \/ Advance
    <2>1. job'[Loop] = "tickets"
      BY <1>0, <1>4 DEF Resume, Advance, Fields
    <2> QED BY <1>0, <2>1, GoesOn DEF Resting
  <1>5. CASE Restart
    <2>1. job'[Loop] \in {"over", "starting"}
      BY <1>0, <1>5 DEF Restart
    <2> QED BY <1>0, <2>1, GoesOn DEF Resting
  <1> QED BY <1>1, <1>2, <1>3, <1>4, <1>5

LEMMA RestedStep ==
  GatesTypeOK /\ ChosenInv /\ Rested /\ [GatesNext]_gateVars => Rested'
  <1>1. CASE UNCHANGED gateVars
    BY <1>1, StaysRested DEF gateVars, startVars
  <1> QED BY <1>1, TypeTo, RecomputeRested, StepRested, LoopRested DEF GatesNext

(* When no fiber is at work and a step of the current stage is left ready, *)
(* the slots that are free are those of steps that could not be started:   *)
(* whatever made a step ready has also started it, or filled the slots, or *)
(* somebody is still on the way to (executor.ts: recomputeAndContinue,     *)
(* startReadySteps, whose failed starts nobody makes up for).              *)
THEOREM NothingIsLeftReady == GatesSpec => []NothingLeftReady
  <1>1. GatesTypeOK /\ ChosenInv /\ Rested => NothingLeftReady
    <2> SUFFICES ASSUME GatesTypeOK, ChosenInv, Rested,
                        planStatus = "executing" /\ running /\ job[Loop] = "idle",
                        \A s \in Step : job[s] = "idle"
                 PROVE  Free <= missed \/ Startable(stage) = {}
      BY DEF NothingLeftReady
    <2>1. \A f \in Fiber : job[f] = "idle"
      BY DEF Fiber
    <2>2. chosen = {}
      BY <2>1 DEF ChosenInv, Starting
    <2>3. Free - Cardinality(chosen) <= missed \/ Startable(stage) \subseteq chosen
      BY <2>1 DEF Rested, Resting
    <2>4. Cardinality(chosen) = 0
      BY <2>2, FS_EmptySet
    <2> QED BY <2>2, <2>3, <2>4, FreeType
  <1> QED BY <1>1, InitType, TypeStep, ChosenInit, ChosenStep, RestedInit, RestedStep, PTL
         DEF GatesSpec

-----------------------------------------------------------------------------
(* Commits.  The integration branch is deleted unmerged only when all its  *)
(* children were skipped before they had done anything: a fiber that finds *)
(* them over finds the same ones over when it has read the project, and    *)
(* none gets there while another merges the branch.                        *)

NotLost ==
  \A s \in Step : work[s] # "lost" /\ (work[s] = "branch" => branch /\ s \in Child)

SkippedFirst ==
  \A s \in Child :
    /\ s \in config.skipped <=> status[s] = "skipped"
    /\ s \in config.skipped <=> saved.status[s] = "skipped"
    /\ s \in config.skipped => work[s] = "none" /\ s \notin chosen

AtWork == \A s \in Child : job[s] = "working" => status[s] = "verifying"

Finalising ==
  \A f \in Fiber :
    /\ job[f] = "project" => ChildrenOver
    /\ job[f] \in {"gate", "landing"} => finalized
    /\ job[f] = "landing" => \A g \in Fiber : job[g] # "project"
    /\ job[f] = "deleting" => Child \subseteq config.skipped

KeptInv == NotLost /\ SkippedFirst /\ AtWork /\ Finalising

LEMMA KeptInit == GatesInit => KeptInv
  <1> SUFFICES ASSUME GatesInit PROVE KeptInv
    OBVIOUS
  <1>1. \A s \in Child : s \in Step
    BY GatesAssumption
  <1>2. NotLost
    BY DEF GatesInit, NotLost
  <1>3. \A s \in Child : s \in config.skipped <=> status[s] = "skipped"
    BY <1>1 DEF GatesInit
  <1>4. saved.status = status
    BY DEF GatesInit, Current
  <1>5. SkippedFirst
    BY <1>1, <1>3, <1>4 DEF GatesInit, SkippedFirst
  <1>6. AtWork /\ Finalising
    BY <1>1, GatesAssumption DEF GatesInit, AtWork, Finalising, Fiber
  <1> QED BY <1>2, <1>5, <1>6 DEF KeptInv

LEMMA StaysSkipped ==
  ASSUME SkippedFirst, UNCHANGED config,
         \A s \in Child : status'[s] = "skipped" <=> status[s] = "skipped",
         \A s \in Child : status[s] = "skipped" => work'[s] = work[s],
         \A s \in Child : s \in chosen' => s \in chosen \/ status[s] # "skipped",
         \/ saved' = saved \/ saved' = Current \/ saved' = Current'
         \/ saved' = [Current EXCEPT !.status = status']
  PROVE  SkippedFirst'
  <1>1. \A s \in Child : saved'.status[s] = "skipped" <=> status[s] = "skipped"
    BY DEF SkippedFirst, Current
  <1> QED BY <1>1 DEF SkippedFirst

Finals == {"project", "gate", "landing", "deleting"}

LEMMA StaysFinalising ==
  ASSUME Finalising, UNCHANGED <<config, finalized>>,
         \A s \in Child : status[s] \in {"done", "skipped"} => status'[s] \in {"done", "skipped"},
         \A f \in Fiber : job'[f] \in Finals => job'[f] = job[f]
  PROVE  Finalising'
  <1>1. ChildrenOver => ChildrenOver'
    BY DEF ChildrenOver
  <1> QED BY <1>1 DEF Finalising, Finals

LEMMA ChooseKeeps ==
  ASSUME Fields, Fields', KeptInv, NEW f \in Fiber, NEW i, NEW ss,
         Choose(f, i, ss), UNCHANGED <<config, finalized, work>>,
         saved' = saved \/ saved' = Current
  PROVE  KeptInv'
  <1>1. chosen' \in Starts(i) /\ UNCHANGED <<status, branch>>
    BY DEF Choose
  <1>2. \A s \in chosen' : status[s] = "ready"
    BY <1>1, StartsType DEF Startable
  <1>3. \A s \in Child : s \in Fiber
    BY GatesAssumption DEF Fiber
  <1>4. \A g \in Fiber : job'[g] \in Finals \cup {"working"} => job'[g] = job[g]
    <2>1. /\ job'[f] \notin Finals \cup {"working"}
          /\ \A g \in Fiber : g # f => job'[g] = job[g]
      BY TestTerminalAt DEF Choose, Goes, Fields, Finals
    <2> QED BY <2>1
  <1>5. NotLost'
    BY <1>1 DEF KeptInv, NotLost
  <1>6. SkippedFirst'
    BY <1>1, <1>2, StaysSkipped DEF KeptInv
  <1>7. AtWork'
    BY <1>1, <1>3, <1>4 DEF KeptInv, AtWork
  <1>8. Finalising'
    BY <1>1, <1>4, StaysFinalising DEF KeptInv
  <1> QED BY <1>5, <1>6, <1>7, <1>8 DEF KeptInv

LEMMA StartKeeps ==
  ASSUME Fields, Fields', ChosenInv, KeptInv, NEW f \in Fiber, Start(f)
  PROVE  KeptInv'
  <1>1. PICK s \in chosen :
          /\ chosen' = chosen \ {s}
          /\ s \in Step /\ status[s] \in {"ready", "skipped"} /\ job[s] # "working"
          /\ status'[s] \in {"in-progress", "failed"}
          /\ \A u \in Step : u # s => status'[u] = status[u]
          /\ saved' = saved \/ saved' = [Current EXCEPT !.status = status']
          /\ branch => branch'
          /\ UNCHANGED <<config, finalized, work>>
          /\ \A g \in Fiber : g # f => job'[g] = job[g]
          /\ job[f] \in StartingAt
          /\ job'[f] \in {job[f], "planSmoke", "testing", "idle"}
    BY StartOne DEF Fields
  <1>2. s \in Child => status[s] = "ready"
    BY <1>1 DEF KeptInv, SkippedFirst
  <1>3. \A c \in Child : c \in Step /\ c \in Fiber
    BY GatesAssumption DEF Fiber
  <1>4. \A c \in Child : /\ status'[c] = "skipped" <=> status[c] = "skipped"
                         /\ status[c] \in {"done", "skipped"} => status'[c] = status[c]
                         /\ job[c] = "working" => status'[c] = status[c]
    BY <1>1, <1>2, <1>3
  <1>5. \A g \in Fiber : job'[g] \in Finals \cup {"working"} => job'[g] = job[g]
    BY <1>1 DEF StartingAt, Finals
  <1>6. NotLost'
    BY <1>1 DEF KeptInv, NotLost
  <1>7. SkippedFirst'
    BY <1>1, <1>4, StaysSkipped DEF KeptInv
  <1>8. AtWork'
    BY <1>3, <1>4, <1>5 DEF KeptInv, AtWork
  <1>9. Finalising'
    BY <1>1, <1>4, <1>5, StaysFinalising DEF KeptInv
  <1> QED BY <1>6, <1>7, <1>8, <1>9 DEF KeptInv

LEMMA RecomputeKeeps ==
  ASSUME Fields, Fields', ChosenInv, KeptInv, NEW f \in Fiber, Recompute(f)
  PROVE  KeptInv'
  <1>0. /\ \A at : Goes(f, at) => \A g \in Fiber : job'[g] = IF g = f THEN at ELSE job[g]
        /\ Ends(f) => \A g \in Fiber : job'[g] = IF g = f THEN job'[f] ELSE job[g]
        /\ Ends(f) => job'[f] \in {"testing", "idle"}
    BY DEF Goes, Ends, Fields
  <1>00. \A s \in Child : s \in Step /\ s \in Fiber
    BY GatesAssumption DEF Fiber
  <1>01. NotLost /\ SkippedFirst /\ AtWork /\ Finalising
    BY DEF KeptInv
  <1>02. ASSUME \A g \in Fiber : job'[g] = "working" => job[g] = "working",
                \A s \in Child : status[s] = "verifying" => status'[s] = "verifying"
         PROVE  AtWork'
    BY <1>00, <1>01, <1>02 DEF AtWork
  <1>03. \A st \in {"failed", "needs-rebase"} : DoneChildrenBecome(st) =>
           \A s \in Child : /\ status'[s] = "skipped" <=> status[s] = "skipped"
                            /\ status[s] = "verifying" => status'[s] = "verifying"
    BY <1>00 DEF DoneChildrenBecome
  <1>1. CASE Tickets(f)
    <2>1. \A s \in Child : /\ status'[s] = "skipped" <=> status[s] = "skipped"
                           /\ status[s] \in {"done", "skipped"} => status'[s] = status[s]
                           /\ status[s] = "verifying" => status'[s] = "verifying"
      BY <1>00, <1>1 DEF Tickets, Recomputed
    <2>2. \A g \in Fiber : g # f => job'[g] = job[g]
      BY <1>0, <1>1 DEF Tickets
    <2>3. \/ job'[f] = "project" /\ ~finalized /\ ChildrenOver
          \/ job'[f] = "saving"
      BY <1>0, <1>1 DEF Tickets
    <2>4. NotLost'
      BY <1>01, <1>1 DEF Tickets, NotLost
    <2>5. SkippedFirst'
      BY <1>01, <1>1, <2>1, StaysSkipped DEF Tickets, startVars
    <2>6. AtWork'
      BY <1>02, <2>1, <2>2, <2>3
    <2>7. ChildrenOver => ChildrenOver'
      BY <2>1 DEF ChildrenOver
    <2>8. Finalising'
      BY <1>01, <1>1, <2>2, <2>3, <2>7 DEF Tickets, Finalising
    <2> QED BY <2>4, <2>5, <2>6, <2>8 DEF KeptInv
  <1>2. CASE Project(f)
    <2>1. \A g \in Fiber : g # f => job'[g] = job[g]
      BY <1>0, <1>2 DEF Project
    <2>2. ChildrenOver
      BY <1>01, <1>2 DEF Project, Finalising
    <2>3. \/ job'[f] = "gate"
          \/ job'[f] = "deleting" /\ Child \subseteq config.skipped
      BY <1>0, <1>01, <1>2, <2>2 DEF Project, ChildrenOver, SkippedFirst
    <2>4. NotLost' /\ SkippedFirst'
      BY <1>01, <1>2 DEF Project, NotLost, SkippedFirst, startVars
    <2>5. AtWork'
      BY <1>02, <1>2, <2>1, <2>3 DEF Project
    <2>6. ChildrenOver' /\ finalized' /\ config' = config
      BY <1>2, <2>2 DEF Project, ChildrenOver
    <2>7. Finalising'
      BY <1>01, <1>2, <2>1, <2>3, <2>6 DEF Project, Finalising
    <2> QED BY <2>4, <2>5, <2>7 DEF KeptInv
  <1>3. CASE Gate(f)
    <2>1. \A g \in Fiber : g # f => job'[g] = job[g]
      BY <1>0, <1>3 DEF Gate
    <2>2. job'[f] \in {"saving", "landing"}
      BY <1>0, <1>3 DEF Gate
    <2>3. \A s \in Child : /\ status'[s] = "skipped" <=> status[s] = "skipped"
                           /\ status[s] = "verifying" => status'[s] = "verifying"
      BY <1>3, <1>03 DEF Gate
    <2>4. NotLost'
      BY <1>01, <1>3 DEF Gate, NotLost
    <2>5. SkippedFirst'
      BY <1>01, <1>3, <2>3, StaysSkipped DEF Gate, startVars
    <2>6. AtWork'
      BY <1>02, <2>1, <2>2, <2>3
    <2>7. Finalising'
      BY <1>01, <1>3, <2>1, <2>2 DEF Gate, Finalising
    <2> QED BY <2>4, <2>5, <2>6, <2>7 DEF KeptInv
  <1>4. CASE Land(f)
    <2>1. \A g \in Fiber : g # f => job'[g] = job[g]
      BY <1>0, <1>4 DEF Land
    <2>2. job'[f] = "saving"
      BY <1>0, <1>4 DEF Land
    <2>3. \A s \in Child : /\ status'[s] = "skipped" <=> status[s] = "skipped"
                           /\ status[s] = "verifying" => status'[s] = "verifying"
      BY <1>4, <1>03 DEF Land
    <2>4. NotLost'
      BY <1>01, <1>4 DEF Land, NotLost, Fields
    <2>5. SkippedFirst'
      <3>1. \A s \in Child : status[s] = "skipped" => work'[s] = work[s]
        BY <1>00, <1>01, <1>4 DEF Land, SkippedFirst
      <3> QED BY <1>01, <1>4, <2>3, <3>1, StaysSkipped DEF Land, startVars
    <2>6. AtWork'
      BY <1>02, <2>1, <2>2, <2>3
    <2>7. Finalising'
      BY <1>01, <1>4, <2>1, <2>2 DEF Land, Finalising
    <2> QED BY <2>4, <2>5, <2>6, <2>7 DEF KeptInv
  <1>5. CASE Delete(f)
    <2>1. \A g \in Fiber : g # f => job'[g] = job[g]
      BY <1>0, <1>5 DEF Delete
    <2>2. job'[f] = "saving"
      BY <1>0, <1>5 DEF Delete
    <2>3. Child \subseteq config.skipped
      BY <1>01, <1>5 DEF Delete, Finalising
    <2>4. \A s \in Step : work[s] # "branch"
      BY <1>01, <2>3 DEF NotLost, SkippedFirst
    <2>5. work' = work
      BY <1>5, <2>4 DEF Delete, Fields
    <2>6. NotLost'
      BY <1>01, <2>4, <2>5 DEF NotLost
    <2>7. SkippedFirst'
      BY <1>01, <1>5, <2>5 DEF Delete, SkippedFirst, startVars
    <2>8. AtWork'
      BY <1>02, <1>5, <2>1, <2>2 DEF Delete
    <2>9. Finalising'
      <3>1. \A s \in Child : status[s] \in {"done", "skipped"} => status'[s] \in {"done", "skipped"}
        BY <1>5 DEF Delete
      <3>2. \A g \in Fiber : job'[g] \in Finals => job'[g] = job[g]
        BY <2>1, <2>2 DEF Finals
      <3> QED BY <1>01, <1>5, <3>1, <3>2, StaysFinalising DEF Delete
    <2> QED BY <2>6, <2>7, <2>8, <2>9 DEF KeptInv
  <1>04. ASSUME UNCHANGED <<config, status, finalized, branch, work, chosen>>,
                \A g \in Fiber : job'[g] = IF g = f THEN job'[f] ELSE job[g],
                job'[f] \notin Finals \cup {"working"},
                saved' = saved \/ saved' = Current \/ saved' = Current'
         PROVE  KeptInv'
    <2>1. NotLost'
      BY <1>01, <1>04 DEF NotLost
    <2>2. SkippedFirst'
      BY <1>01, <1>04, StaysSkipped
    <2>3. AtWork'
      BY <1>02, <1>04
    <2>4. Finalising'
      <3>1. \A g \in Fiber : job'[g] \in Finals => job'[g] = job[g]
        BY <1>04
      <3> QED BY <1>01, <1>04, <3>1, StaysFinalising
    <2> QED BY <2>1, <2>2, <2>3, <2>4 DEF KeptInv
  <1>6. CASE Save(f)
    <2>1. CASE planStatus = "executing" /\ ~StageOver(stage, stageStatus, status)
      <3> QED BY <1>6, <2>1, ChooseKeeps DEF Save
    <2>2. CASE ~(planStatus = "executing" /\ ~StageOver(stage, stageStatus, status))
      <3>1. job'[f] \notin Finals \cup {"working"}
        BY <1>0, <1>6, <2>2 DEF Save, Finals
      <3>2. \A g \in Fiber : job'[g] = IF g = f THEN job'[f] ELSE job[g]
        BY <1>0, <1>6, <2>2 DEF Save
      <3> QED BY <1>04, <1>6, <2>2, <3>1, <3>2 DEF Save
    <2> QED BY <2>1, <2>2
  <1>7. CASE StageSmoke(f)
    <2> DEFINE next == [stageStatus EXCEPT ![stage + 1] = "executing"]
    <2>1. CASE /\ UNCHANGED <<status, branch, chosen>> /\ SavePlan /\ Ends(f)
      BY <1>0, <1>04, <1>7, <2>1, SavedIs DEF StageSmoke, Finals
    <2>2. CASE Choose(f, stage, stageStatus) /\ UNCHANGED saved
      BY <1>7, <2>2, ChooseKeeps DEF StageSmoke
    <2>3. CASE Choose(f, stage + 1, next) /\ UNCHANGED saved
      <3> HIDE DEF next
      <3> QED BY <1>7, <2>3, ChooseKeeps DEF StageSmoke
    <2>4. CASE UNCHANGED <<status, branch, saved, chosen>> /\ Goes(f, "stageSmoke")
      BY <1>0, <1>04, <1>7, <2>4 DEF StageSmoke, Finals
    <2> QED BY <1>7, <2>1, <2>2, <2>3, <2>4 DEF StageSmoke
  <1>8. CASE PlanSmoke(f)
    BY <1>0, <1>04, <1>8, SavedIs DEF PlanSmoke, Finals, startVars
  <1>9. CASE Start(f)
    BY <1>9, StartKeeps
  <1> QED BY <1>1, <1>2, <1>3, <1>4, <1>5, <1>6, <1>7, <1>8, <1>9 DEF Recompute

(* A child that is done has been merged: it waits for no confirmation.     *)
Delivered ==
  \A s \in Child :
    /\ "pending-confirmation" \notin {status[s], saved.status[s]}
    /\ "done" \in {status[s], saved.status[s]} => ~HasWorktree(work[s])
    /\ status[s] = "in-progress" => saved.status[s] = "in-progress"

LEMMA DeliveredInit == GatesInit => Delivered
  <1> SUFFICES ASSUME GatesInit PROVE Delivered
    OBVIOUS
  <1>1. \A s \in Child : s \in Step
    BY GatesAssumption
  <1>2. \A s \in Child : status[s] \in {"skipped", "ready", "blocked"} /\ work[s] = "none"
    BY <1>1 DEF GatesInit
  <1>3. saved.status = status
    BY DEF GatesInit, Current
  <1> QED BY <1>2, <1>3 DEF Delivered, HasWorktree

LEMMA StaysDelivered ==
  ASSUME Delivered,
         \A s \in Child : \/ status'[s] = status[s]
                          \/ status'[s] \notin {"in-progress", "pending-confirmation", "done"},
         \A s \in Child : HasWorktree(work'[s]) => HasWorktree(work[s]),
         saved' = saved \/ saved' = Current \/ saved' = Current'
  PROVE  Delivered'
  <1> SUFFICES ASSUME NEW s \in Child
               PROVE  /\ "pending-confirmation" \notin {status'[s], saved'.status[s]}
                      /\ "done" \in {status'[s], saved'.status[s]} => ~HasWorktree(work'[s])
                      /\ status'[s] = "in-progress" => saved'.status[s] = "in-progress"
    BY DEF Delivered, HasWorktree
  <1>1. saved'.status[s] \in {saved.status[s], status[s], status'[s]}
    BY DEF Current
  <1>2. saved' = saved \/ saved'.status[s] \in {status[s], status'[s]}
    BY DEF Current
  <1> QED BY <1>1, <1>2 DEF Delivered

LEMMA StartDelivered ==
  ASSUME Fields, ChosenInv, Delivered, NEW f \in Fiber, Start(f)
  PROVE  Delivered'
  <1>1. PICK s \in chosen :
           /\ s \in Step
           /\ \/ /\ status' = [status EXCEPT ![s] = "in-progress"]
                 /\ saved' = [Current EXCEPT !.status = status']
              \/ /\ status' = [status EXCEPT ![s] = "failed"]
                 /\ saved' = saved
           /\ UNCHANGED work
    BY StartOne
  <1>2. \A c \in Child : c \in Step
    BY GatesAssumption
  <1>3. CASE status' = [status EXCEPT ![s] = "failed"] /\ saved' = saved
    <2>1. \A c \in Child : status'[c] = status[c] \/ status'[c] = "failed"
      BY <1>2, <1>3 DEF Fields
    <2> QED BY <1>1, <1>3, <2>1, StaysDelivered
  <1>4. CASE /\ status' = [status EXCEPT ![s] = "in-progress"]
             /\ saved' = [Current EXCEPT !.status = status']
    <2>1. saved'.status = status'
      BY <1>4 DEF Current
    <2>2. \A c \in Child : status'[c] = status[c] \/ status'[c] = "in-progress"
      BY <1>2, <1>4 DEF Fields
    <2> QED BY <1>1, <2>1, <2>2 DEF Delivered
  <1> QED BY <1>1, <1>3, <1>4

LEMMA RecomputeDelivered ==
  ASSUME Fields, ChosenInv, Delivered, NEW f \in Fiber, Recompute(f)
  PROVE  Delivered'
  <1>0. \A s \in Child : s \in Step
    BY GatesAssumption
  <1>01. \A st \in {"failed", "needs-rebase"} : DoneChildrenBecome(st) =>
           \A s \in Child : \/ status'[s] = status[s]
                            \/ status'[s] \notin {"in-progress", "pending-confirmation", "done"}
    BY <1>0 DEF DoneChildrenBecome
  <1>02. ASSUME NEW i, NEW ss, Choose(f, i, ss), UNCHANGED work,
                saved' = saved \/ saved' = Current
         PROVE  Delivered'
    BY <1>02, StaysDelivered DEF Choose
  <1>1. CASE Tickets(f)
    <2>1. \A s \in Child : status'[s] = status[s] \/ status'[s] \in {"ready", "blocked"}
      BY <1>0, <1>1 DEF Tickets, Recomputed
    <2> QED BY <1>1, <2>1, StaysDelivered DEF Tickets
  <1>2. CASE Project(f)
    BY <1>2, StaysDelivered DEF Project
  <1>3. CASE Gate(f)
    BY <1>01, <1>3, StaysDelivered DEF Gate
  <1>4. CASE Land(f)
    <2>1. \A s \in Child : HasWorktree(work'[s]) => HasWorktree(work[s])
      BY <1>0, <1>4 DEF Land, HasWorktree
    <2> QED BY <1>01, <1>4, <2>1, StaysDelivered DEF Land
  <1>5. CASE Delete(f)
    <2>1. \A s \in Child : HasWorktree(work'[s]) => HasWorktree(work[s])
      BY <1>0, <1>5 DEF Delete, HasWorktree
    <2> QED BY <1>5, <2>1, StaysDelivered DEF Delete
  <1>6. CASE Save(f)
    BY <1>02, <1>6, StaysDelivered DEF Save
  <1>7. CASE StageSmoke(f)
    BY <1>02, <1>7, SavedIs, StaysDelivered DEF StageSmoke
  <1>8. CASE PlanSmoke(f)
    BY <1>8, SavedIs, StaysDelivered DEF PlanSmoke
  <1>9. CASE Start(f)
    BY <1>9, StartDelivered
  <1> QED BY <1>1, <1>2, <1>3, <1>4, <1>5, <1>6, <1>7, <1>8, <1>9 DEF Recompute

LEMMA StepDelivered ==
  ASSUME Fields, Delivered, Asked \cap Child = {}, NEW s \in Step,
         \/ AgentCompleted(s) \/ Lands(s) \/ Conflicts(s) \/ Retries(s) \/ Fails(s)
         \/ Throws(s) \/ Asks(s)
         \/ Retry(s) \/ Skip(s) \/ Confirm(s) \/ Confirmed(s) \/ Reject(s)
  PROVE  Delivered'
  <1>0. \A c \in Child : c \in Step
    BY GatesAssumption
  <1>1. CASE AgentCompleted(s)
    <2>1. \A c \in Child : c # s => status'[c] = status[c] /\ work'[c] = work[c]
      BY <1>0, <1>1 DEF AgentCompleted, Fields
    <2>2. status[s] = "in-progress" /\ status'[s] = "verifying"
      BY <1>1 DEF AgentCompleted, Fields
    <2>3. saved' = saved \/ saved' = Current'
      BY <1>1 DEF AgentCompleted, Current
    <2>4. \A c \in Child : saved'.status[c] \in {saved.status[c], status'[c]}
      BY <2>3 DEF Current
    <2>5. \A c \in Child : saved' = saved \/ saved'.status[c] = status'[c]
      BY <2>3 DEF Current
    <2> QED BY <2>1, <2>2, <2>4, <2>5 DEF Delivered
  <1>01. ASSUME NEW st, Completed(s, st)
         PROVE  /\ \A c \in Child : c # s => status'[c] = status[c]
                /\ status'[s] = st
    BY <1>0, <1>01 DEF Completed, Fields
  <1>2. CASE Lands(s)
    <2>1. /\ \A c \in Child : c # s => status'[c] = status[c] /\ work'[c] = work[c]
          /\ status'[s] = "done"
      BY <1>0, <1>01, <1>2 DEF Lands, Fields
    <2>2. work'[s] \in {"branch", "main"}
      BY <1>2 DEF Lands, Target, Fields
    <2>3. saved' = saved
      BY <1>2 DEF Lands
    <2> QED BY <2>1, <2>2, <2>3 DEF Delivered, HasWorktree
  <1>3. CASE Conflicts(s)
    BY <1>01, <1>3, SavedIs, StaysDelivered DEF Conflicts, PauseIfConfigured
  <1>4. CASE Fails(s)
    BY <1>01, <1>4, SavedIs, StaysDelivered DEF Fails, PauseIfConfigured
  <1>10. CASE Retries(s) \/ Throws(s)
    BY <1>01, <1>10, StaysDelivered DEF Retries, Throws
  <1>5. CASE Asks(s)
    <2>1. s \notin Child
      BY <1>5 DEF Asks
    <2> QED BY <1>01, <1>5, <2>1, SavedIs, StaysDelivered DEF Asks
  <1>6. CASE Retry(s) \/ Reject(s)
    <2>1. \A c \in Child : status'[c] = status[c] \/ status'[c] = "ready"
      BY <1>0, <1>6 DEF Retry, Reject, Fields
    <2> QED BY <1>6, <2>1, StaysDelivered DEF Retry, Reject
  <1>7. CASE Skip(s)
    <2>1. \A c \in Child : /\ status'[c] = status[c] \/ status'[c] = "skipped"
                           /\ HasWorktree(work'[c]) => HasWorktree(work[c])
      BY <1>0, <1>7 DEF Skip, Fields, HasWorktree
    <2> QED BY <1>7, <2>1, StaysDelivered DEF Skip
  <1>8. CASE Confirm(s)
    <2>1. s \notin Child
      BY <1>8 DEF Confirm, Delivered
    <2>2. \A c \in Child : status'[c] = status[c]
      BY <1>0, <1>8, <2>1 DEF Confirm, Fields
    <2> QED BY <1>8, <2>2, StaysDelivered DEF Confirm
  <1>9. CASE Confirmed(s)
    <2>1. \A c \in Child : HasWorktree(work'[c]) => HasWorktree(work[c])
      BY <1>0, <1>9 DEF Confirmed, Fields, Target, HasWorktree
    <2> QED BY <1>9, <2>1, StaysDelivered DEF Confirmed
  <1> QED BY <1>1, <1>2, <1>3, <1>4, <1>5, <1>6, <1>7, <1>8, <1>9, <1>10

LEMMA LoopDelivered ==
  ASSUME Fields, Delivered,
         FirstStart \/ LoopTests \/ Pause \/ Resume \/ Advance \/ Restart
  PROVE  Delivered'
  <1>0. \A c \in Child : c \in Step
    BY GatesAssumption
  <1>1. CASE FirstStart
    BY <1>1, StaysDelivered DEF FirstStart
  <1>2. CASE LoopTests \/ Advance
    BY <1>2, StaysDelivered DEF LoopTests, Advance
  <1>3. CASE Pause
    <2>1. \A c \in Child : status'[c] = status[c] \/ status'[c] = "ready"
      BY <1>0, <1>3 DEF Pause
    <2> QED BY <1>3, <2>1, SavedIs, StaysDelivered DEF Pause
  <1>4. CASE Resume
    <2>1. \A c \in Child : status'[c] = status[c] \/ status'[c] \in {"ready", "verifying"}
      BY <1>0, <1>4 DEF Resume
    <2>2. \A c \in Child : HasWorktree(work'[c]) => HasWorktree(work[c])
      BY <1>0, <1>4 DEF Resume, HasWorktree
    <2> QED BY <1>4, <2>1, <2>2, StaysDelivered DEF Resume
  <1>5. CASE Restart
    <2>1. PICK W \in SUBSET {s \in Step : status[s] = "in-progress" /\ work[s] = "none"} :
            Restart!(W)
      BY <1>5 DEF Restart
    <2> DEFINE w == [s \in Step |-> IF s \in W THEN "worktree" ELSE work[s]]
               st == Reconciled(w)
               ended == st # saved.status /\ \A s \in Step : st[s] \in TerminalStatus
    <2>2. /\ status' = IF ended THEN st ELSE Recovered(st, w)
          /\ work' = [s \in Step |-> IF ~HasWorktree(w[s]) THEN w[s]
                                     ELSE IF status'[s] = "verifying" THEN "worktree"
                                     ELSE "stray"]
          /\ saved' = Current'
      BY <2>1, SavedIs
    <2>3. \A c \in Child : /\ st[c] \in {saved.status[c], "ready", "failed"}
                           /\ Recovered(st, w)[c] \in {st[c], "verifying", "ready"}
                           /\ saved.status[c] = "in-progress" => st[c] # "in-progress"
      BY <1>0 DEF Reconciled, Recovered
    <2>4. \A c \in Child : HasWorktree(w[c]) => HasWorktree(work[c]) \/ status[c] = "in-progress"
      BY <1>0 DEF HasWorktree
    <2>5. \A c \in Child : HasWorktree(w[c]) => saved.status[c] # "done"
      BY <2>4 DEF Delivered
    <2> HIDE DEF w, st, ended
    <2>8. \A c \in Child : HasWorktree(work'[c]) => HasWorktree(w[c])
      BY <1>0, <2>2
    <2>6. \A c \in Child : /\ status'[c] \in {saved.status[c], "ready", "failed", "verifying"}
                           /\ status'[c] # "in-progress"
      <3>1. \A c \in Child : status'[c] \in {st[c], Recovered(st, w)[c]}
        BY <2>2
      <3> QED BY <2>3, <3>1
    <2>7. saved'.status = status'
      BY <2>2 DEF Current
    <2> QED BY <2>5, <2>6, <2>7, <2>8 DEF Delivered, HasWorktree
  <1> QED BY <1>1, <1>2, <1>3, <1>4, <1>5

LEMMA StepKeeps ==
  ASSUME Fields, Fields', KeptInv, Delivered, NEW s \in Step,
         Asked \cap Child = {}, "confirm" \notin Fault, "skip" \notin Call,
         \/ AgentCompleted(s) \/ Lands(s) \/ Conflicts(s) \/ Retries(s) \/ Fails(s)
         \/ Throws(s) \/ Asks(s)
         \/ Retry(s) \/ Skip(s) \/ Confirm(s) \/ Confirmed(s) \/ Reject(s)
  PROVE  KeptInv'
  <1>0. s \in Fiber /\ Loop \in Fiber /\ s # Loop /\ \A c \in Child : c \in Step /\ c \in Fiber /\ c # Loop
    BY GatesAssumption DEF Fiber
  <1>01. NotLost /\ SkippedFirst /\ AtWork /\ Finalising
    BY DEF KeptInv
  (* What a step may do that is no child: nothing of this.                 *)
  <1>02. ASSUME UNCHANGED <<config, finalized, chosen>>, NotLost',
                \A c \in Child : \/ status'[c] = status[c]
                                 \/ /\ status[c] \notin {"done", "skipped"}
                                    /\ status'[c] # "skipped"
                                    /\ job'[c] = "working" => status'[c] = "verifying",
                \A c \in Child : status[c] = "skipped" => work'[c] = work[c],
                \A f \in Fiber : job'[f] \in Finals \cup {"working"} =>
                                   \/ job'[f] = job[f]
                                   \/ f \in Step /\ job'[f] = "working" /\ status'[f] = "verifying",
                saved' = saved \/ saved' = Current \/ saved' = Current'
         PROVE  KeptInv'
    <2>1. SkippedFirst'
      BY <1>01, <1>02, StaysSkipped
    <2>2. AtWork'
      BY <1>0, <1>01, <1>02 DEF AtWork
    <2>3. Finalising'
      <3>1. \A f \in Fiber : job'[f] \in Finals => job'[f] = job[f]
        BY <1>02 DEF Finals
      <3>2. \A c \in Child : status[c] \in {"done", "skipped"} => status'[c] \in {"done", "skipped"}
        BY <1>02
      <3> QED BY <1>01, <1>02, <3>1, <3>2, StaysFinalising
    <2> QED BY <1>02, <2>1, <2>2, <2>3 DEF KeptInv
  <1>1. CASE AgentCompleted(s)
    <2>1. NotLost'
      BY <1>01, <1>1 DEF AgentCompleted, NotLost, Fields
    <2>2. /\ \A c \in Step : c # s => status'[c] = status[c] /\ work'[c] = work[c]
          /\ status[s] = "in-progress" /\ status'[s] = "verifying"
      BY <1>1 DEF AgentCompleted, Fields
    <2>3. \A f \in Fiber : \/ job'[f] = job[f]
                           \/ f = Loop /\ job'[f] = "testing"
                           \/ f = s /\ job'[f] = "working"
      BY <1>0, <1>1 DEF AgentCompleted, Fields
    <2>4. saved' = saved \/ saved' = Current'
      BY <1>1 DEF AgentCompleted, Current
    <2>5. UNCHANGED <<config, finalized, chosen>>
      BY <1>1 DEF AgentCompleted, startVars
    <2> QED BY <1>0, <1>02, <2>1, <2>2, <2>3, <2>4, <2>5 DEF Finals
  (* The handler of a child is at work, so it is in verification.          *)
  <1>03. ASSUME NEW st, s \in Child => st # "skipped", Completed(s, st), NotLost',
                \A c \in Child : c # s => work'[c] = work[c],
                saved' = saved \/ saved' = Current'
         PROVE  KeptInv'
    <2>1. /\ \A c \in Step : c # s => status'[c] = status[c]
          /\ \A f \in Fiber : job'[f] = job[f] \/ (f = s /\ job'[f] = "tickets")
          /\ job'[s] = "tickets"
          /\ status'[s] = st
      BY <1>0, <1>03 DEF Completed, Goes, Fields
    <2>2. s \in Child => status[s] = "verifying"
      BY <1>01, <1>03 DEF Completed, AtWork
    <2>3. UNCHANGED <<config, finalized, chosen>>
      BY <1>03 DEF Completed, startVars
    <2>4. \A c \in Child : \/ status'[c] = status[c]
                           \/ /\ status[c] \notin {"done", "skipped"}
                              /\ status'[c] # "skipped"
                              /\ job'[c] = "working" => status'[c] = "verifying"
      BY <1>0, <1>03, <2>1, <2>2
    <2>5. \A c \in Child : status[c] = "skipped" => work'[c] = work[c]
      BY <1>03, <2>2
    <2>6. \A f \in Fiber : job'[f] \in Finals \cup {"working"} => job'[f] = job[f]
      BY <2>1 DEF Finals
    <2> QED BY <1>02, <1>03, <2>3, <2>4, <2>5, <2>6
  <1>2. CASE Lands(s)
    <2>1. NotLost'
      BY <1>01, <1>2 DEF Lands, NotLost, Target, Mergeable, Completed, Fields
    <2>2. \A c \in Child : c # s => work'[c] = work[c]
      BY <1>0, <1>2 DEF Lands, Fields
    <2> QED BY <1>03, <1>2, <2>1, <2>2 DEF Lands
  <1>3. CASE Conflicts(s)
    <2>1. NotLost'
      BY <1>01, <1>3 DEF Conflicts, NotLost, Completed
    <2> QED BY <1>03, <1>3, <2>1, SavedIs DEF Conflicts, PauseIfConfigured
  <1>4. CASE Fails(s)
    <2>1. NotLost'
      BY <1>01, <1>4 DEF Fails, NotLost, Completed
    <2> QED BY <1>03, <1>4, <2>1, SavedIs DEF Fails, PauseIfConfigured
  <1>10. CASE Retries(s) \/ Throws(s)
    <2>1. NotLost'
      BY <1>01, <1>10 DEF Retries, Throws, NotLost, Completed
    <2>2. s \in Child => (IF status[s] = "verifying" THEN "failed" ELSE status[s]) # "skipped"
      BY <1>01, <1>10 DEF Retries, Throws, Completed, AtWork
    <2> QED BY <1>03, <1>10, <2>1, <2>2 DEF Retries, Throws
  <1>5. CASE Asks(s)
    <2>1. NotLost'
      BY <1>01, <1>5 DEF Asks, NotLost, Completed
    <2> QED BY <1>03, <1>5, <2>1, SavedIs DEF Asks
  <1>6. CASE Retry(s) \/ Reject(s)
    <2>1. NotLost'
      BY <1>01, <1>6 DEF Retry, Reject, Handles, NotLost
    <2>2. /\ \A c \in Step : c # s => status'[c] = status[c]
          /\ status[s] \in {"failed", "needs-rebase", "pending-confirmation"}
          /\ status'[s] = "ready"
          /\ \A f \in Fiber : job'[f] = IF f = Loop THEN "tickets" ELSE job[f]
      BY <1>6 DEF Retry, Reject, Fields
    <2>3. s \in Child => job'[s] # "working"
      BY <1>0, <1>01, <2>2 DEF AtWork
    <2>4. UNCHANGED <<config, finalized, work, saved, chosen>>
      BY <1>6 DEF Retry, Reject, Handles, startVars
    <2>5. \A f \in Fiber : job'[f] \in Finals \cup {"working"} => job'[f] = job[f]
      BY <2>2 DEF Finals
    <2>6. \A c \in Child : \/ status'[c] = status[c]
                           \/ /\ status[c] \notin {"done", "skipped"}
                              /\ status'[c] # "skipped"
                              /\ job'[c] = "working" => status'[c] = "verifying"
      BY <1>0, <2>2, <2>3
    <2> QED BY <1>02, <2>1, <2>4, <2>5, <2>6
  <1>7. CASE Skip(s)
    BY <1>7 DEF Skip, Handles
  <1>8. CASE Confirm(s)
    <2>1. NotLost'
      BY <1>01, <1>8 DEF Confirm, Handles, NotLost
    <2>2. s \notin Child
      BY <1>8 DEF Confirm, Delivered
    <2>3. \A c \in Child : status'[c] = status[c]
      BY <1>0, <1>8, <2>2 DEF Confirm, Fields
    <2>4. \A f \in Fiber : job'[f] \in Finals \cup {"working"} => job'[f] = job[f]
      BY <1>8 DEF Confirm, Fields, Finals
    <2> QED BY <1>02, <1>8, <2>1, <2>3, <2>4 DEF Confirm, Handles, startVars
  <1>9. CASE Confirmed(s)
    <2>1. s \notin Child
      BY <1>9 DEF Confirmed, Delivered, HasWorktree
    <2>2. work' = [work EXCEPT ![s] = "main"]
      BY <1>9, <2>1 DEF Confirmed, Mergeable, Target
    <2>3. NotLost'
      BY <1>01, <1>9, <2>2 DEF Confirmed, NotLost, Fields
    <2>4. \A f \in Fiber : job'[f] \in Finals \cup {"working"} => job'[f] = job[f]
      BY <1>9 DEF Confirmed, Goes, Fields, Finals
    <2>5. \A c \in Child : work'[c] = work[c]
      BY <1>0, <2>1, <2>2 DEF Fields
    <2> QED BY <1>02, <1>9, <2>3, <2>4, <2>5 DEF Confirmed, startVars
  <1> QED BY <1>1, <1>2, <1>3, <1>4, <1>5, <1>6, <1>7, <1>8, <1>9, <1>10

LEMMA LoopKeeps ==
  ASSUME Fields, Fields', KeptInv,
         FirstStart \/ LoopTests \/ Pause \/ Resume \/ Advance \/ Restart
  PROVE  KeptInv'
  <1>0. Loop \in Fiber /\ \A s \in Step : s # Loop /\ s \in Fiber
    BY GatesAssumption DEF Fiber
  <1>00. \A c \in Child : c \in Step
    BY GatesAssumption
  <1>01. NotLost /\ SkippedFirst /\ AtWork /\ Finalising
    BY DEF KeptInv
  <1>02. ASSUME UNCHANGED <<config, finalized, branch>>,
                \A s \in Step : work'[s] \in {"branch", "lost", "none"} \/ work[s] \in {"branch", "lost", "none"}
                                  => work'[s] = work[s],
                \A c \in Child : c \in chosen' => c \in chosen \/ status[c] # "skipped",
                \A c \in Child : /\ status'[c] = "skipped" <=> status[c] = "skipped"
                                 /\ status[c] = "done" => status'[c] = "done"
                                 /\ job'[c] = "working" => status'[c] = "verifying",
                \A f \in Fiber : job'[f] \in Finals => job'[f] = job[f],
                saved' = saved \/ saved' = Current \/ saved' = Current'
         PROVE  KeptInv'
    <2>1. NotLost'
      BY <1>01, <1>02 DEF NotLost
    <2>5. \A c \in Child : status[c] = "skipped" => work'[c] = work[c]
      BY <1>00, <1>01, <1>02 DEF SkippedFirst
    <2>2. SkippedFirst'
      BY <1>01, <1>02, <2>5, StaysSkipped
    <2>3. AtWork'
      BY <1>02 DEF AtWork
    <2>4. Finalising'
      BY <1>01, <1>02, StaysFinalising
    <2> QED BY <2>1, <2>2, <2>3, <2>4 DEF KeptInv
  <1>1. CASE FirstStart
    <2>1. chosen' \in Starts(stage) /\ UNCHANGED status
      BY <1>1 DEF FirstStart
    <2>2. \A s \in chosen' : status[s] = "ready"
      BY <2>1, StartsType DEF Startable
    <2>3. \A f \in Fiber : job'[f] \in Finals \cup {"working"} => job'[f] = job[f]
      BY <1>1 DEF FirstStart, Goes, Fields, Finals
    <2>4. \A c \in Child : job'[c] = "working" => status'[c] = "verifying"
      BY <1>0, <1>00, <1>01, <2>1, <2>3 DEF AtWork
    <2> QED BY <1>02, <1>1, <2>1, <2>2, <2>3, <2>4 DEF FirstStart
  <1>2. CASE LoopTests \/ Advance
    <2>1. \A f \in Fiber : f # Loop => job'[f] = job[f]
      BY <1>2 DEF LoopTests, Advance, Fields
    <2>2. job'[Loop] \in {"over", "idle", "tickets"}
      BY <1>0, <1>2 DEF LoopTests, Advance, Fields
    <2>3. \A f \in Fiber : job'[f] \in Finals => job'[f] = job[f]
      BY <2>1, <2>2 DEF Finals
    <2>4. UNCHANGED <<config, finalized, work, branch, status, saved, chosen>>
      BY <1>2 DEF LoopTests, Advance, Handles, startVars
    <2>5. \A c \in Child : job'[c] = "working" => status'[c] = "verifying"
      BY <1>0, <1>00, <1>01, <2>1, <2>4 DEF AtWork
    <2> QED BY <1>02, <2>3, <2>4, <2>5
  <1>3. CASE Pause
    <2>1. \A f \in Fiber : job'[f] = IF f = Loop THEN "testing" ELSE job[f]
      BY <1>3 DEF Pause, Fields
    <2>2. \A f \in Fiber : job'[f] \in Finals => job'[f] = job[f]
      BY <2>1 DEF Finals
    <2>3. \A c \in Child : /\ status'[c] = "skipped" <=> status[c] = "skipped"
                           /\ status[c] = "done" => status'[c] = "done"
                           /\ job'[c] = "working" => status'[c] = "verifying"
      BY <1>0, <1>00, <1>01, <1>3, <2>1 DEF Pause, AtWork
    <2> QED BY <1>02, <1>3, <2>2, <2>3, SavedIs DEF Pause, Handles, startVars
  <1>4. CASE Resume
    <2> DEFINE R == Remerged(status)
    <2>1. \A f \in Fiber : job'[f] = IF f = Loop THEN "tickets"
                                     ELSE IF f \in R THEN "working" ELSE job[f]
      BY <1>4 DEF Resume
    <2>2. \A f \in Fiber : job'[f] \in Finals => job'[f] = job[f]
      BY <2>1 DEF Finals
    <2>3. \A c \in Child :
            status'[c] = IF c \in R THEN "verifying"
                         ELSE IF status[c] \in {"failed", "needs-rebase"} THEN "ready"
                         ELSE status[c]
      BY <1>00, <1>4 DEF Resume
    <2>4. \A c \in R : status[c] = "needs-rebase"
      BY DEF Remerged
    <2>5. \A c \in Child : /\ status'[c] = "skipped" <=> status[c] = "skipped"
                           /\ status[c] = "done" => status'[c] = "done"
                           /\ job'[c] = "working" => status'[c] = "verifying"
      BY <1>0, <1>00, <1>01, <2>1, <2>3, <2>4 DEF AtWork
    <2>6. \A s \in Step : \/ work'[s] = work[s]
                          \/ work[s] = "stray" /\ work'[s] = "worktree"
      BY <1>4 DEF Resume
    <2>7. UNCHANGED <<config, finalized, branch, saved, chosen>>
      BY <1>4 DEF Resume, Handles, startVars
    <2> QED BY <1>02, <2>2, <2>5, <2>6, <2>7
  <1>5. CASE Restart
    <2>1. PICK W \in SUBSET {s \in Step : status[s] = "in-progress" /\ work[s] = "none"} :
            Restart!(W)
      BY <1>5 DEF Restart
    <2> DEFINE w == [s \in Step |-> IF s \in W THEN "worktree" ELSE work[s]]
               st == Reconciled(w)
               ended == st # saved.status /\ \A s \in Step : st[s] \in TerminalStatus
    <2>2. /\ status' = IF ended THEN st ELSE Recovered(st, w)
          /\ work' = [s \in Step |-> IF ~HasWorktree(w[s]) THEN w[s]
                                     ELSE IF status'[s] = "verifying" THEN "worktree"
                                     ELSE "stray"]
          /\ saved' = Current' /\ finalized' = FALSE /\ chosen' = {}
          /\ job' = [f \in Fiber |->
                IF f = Loop THEN IF ended THEN "over" ELSE "starting"
                ELSE IF ~ended /\ status'[f] = "verifying" THEN "working" ELSE "idle"]
          /\ UNCHANGED <<config, branch>>
      BY <2>1, SavedIs
    <2>3. \A c \in Child : /\ st[c] = "skipped" <=> saved.status[c] = "skipped"
                           /\ Recovered(st, w)[c] = "skipped" <=> st[c] = "skipped"
      BY <1>00 DEF Reconciled, Recovered
    <2>4. \A s \in Step : w[s] = work[s] \/ (w[s] = "worktree" /\ status[s] = "in-progress")
      OBVIOUS
    <2> HIDE DEF w, st, ended
    <2>5. \A c \in Child : status'[c] = "skipped" <=> saved.status[c] = "skipped"
      <3>1. \A c \in Child : status'[c] \in {st[c], Recovered(st, w)[c]}
        BY <2>2
      <3> QED BY <2>3, <3>1
    <2>12. \A s \in Step : \/ work'[s] = w[s]
                           \/ work'[s] \in {"worktree", "stray"} /\ HasWorktree(w[s])
      BY <2>2
    <2>6. NotLost'
      BY <1>01, <2>2, <2>4, <2>12 DEF NotLost
    <2>7. \A c \in Child : c \in config.skipped => w[c] = "none"
      BY <1>00, <1>01, <2>4 DEF SkippedFirst
    <2>8. SkippedFirst'
      <3>1. saved'.status = status'
        BY <2>2 DEF Current
      <3>2. \A c \in Child : c \in config.skipped => work'[c] = "none"
        BY <1>00, <2>7, <2>12 DEF HasWorktree
      <3> QED BY <1>01, <2>2, <2>5, <3>1, <3>2 DEF SkippedFirst
    <2>9. \A f \in Fiber : job'[f] \in {"over", "starting", "idle", "working"}
      BY <2>2
    <2>10. AtWork'
      BY <1>0, <1>00, <2>2 DEF AtWork
    <2>11. Finalising'
      BY <2>9 DEF Finalising
    <2> QED BY <2>6, <2>8, <2>10, <2>11 DEF KeptInv
  <1> QED BY <1>1, <1>2, <1>3, <1>4, <1>5

(* No commit is lost with its worktree or with an integration branch,      *)
(* whatever fails, however often the user pauses, resumes, retries,        *)
(* confirms or rejects and however often the executor dies, if no step is  *)
(* skipped while the plan runs, no child of the integration branch waits   *)
(* for a confirmation and merging what has been confirmed does not fail    *)
(* (executor.ts: recomputeAndContinue, runFinalIntegrationGate,            *)
(* cleanupIntegrationBranch, confirmStep; reconcile.ts).                   *)
THEOREM NoneIsLost ==
  ASSUME Asked \cap Child = {}, "confirm" \notin Fault, "skip" \notin Call
  PROVE  GatesSpec => []NoneLost
  <1> DEFINE Inv == GatesTypeOK /\ ChosenInv /\ KeptInv /\ Delivered
  <1>1. GatesInit => Inv
    BY InitType, ChosenInit, KeptInit, DeliveredInit
  <1>2. Inv /\ [GatesNext]_gateVars => Inv'
    <2> SUFFICES ASSUME Inv, [GatesNext]_gateVars PROVE Inv'
      OBVIOUS
    <2>1. GatesTypeOK' /\ ChosenInv'
      BY TypeStep, ChosenStep
    <2>2. Fields
      BY TypeTo
    <2>3. Fields'
      BY <2>1 DEF GatesTypeOK, Fields, Current, Plan, StageState
    <2>4. CASE UNCHANGED gateVars
      BY <2>1, <2>4 DEF gateVars, KeptInv, NotLost, SkippedFirst, AtWork, Finalising,
                        Delivered, ChildrenOver, startVars
    <2>5. ASSUME NEW f \in Fiber, Recompute(f) PROVE Inv'
      BY <2>1, <2>2, <2>3, <2>5, RecomputeKeeps, RecomputeDelivered
    <2>6. ASSUME NEW s \in Step,
                 \/ AgentCompleted(s) \/ Lands(s) \/ Conflicts(s) \/ Retries(s)
                 \/ Fails(s) \/ Throws(s) \/ Asks(s)
                 \/ Retry(s) \/ Skip(s) \/ Confirm(s) \/ Confirmed(s) \/ Reject(s)
          PROVE  Inv'
      BY <2>1, <2>2, <2>3, <2>6, StepKeeps, StepDelivered
    <2>7. CASE FirstStart \/ LoopTests \/ Pause \/ Resume \/ Advance \/ Restart
      BY <2>1, <2>2, <2>3, <2>7, LoopKeeps, LoopDelivered
    <2> QED BY <2>4, <2>5, <2>6, <2>7 DEF GatesNext
  <1>3. Inv => NoneLost
    BY DEF KeptInv, NotLost, NoneLost
  <1> QED BY <1>1, <1>2, <1>3, PTL DEF GatesSpec

=============================================================================
