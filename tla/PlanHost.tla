------------------------------ MODULE PlanHost ------------------------------
(***************************************************************************)
(* The station as the host of plan executors (server/station.ts): its map  *)
(* from plans to executors, the commands that arrive over HTTP and         *)
(* WebSocket, the plan files (orchestrator/persistence.ts), and of each    *)
(* executor what the station can notice.                                   *)
(*                                                                         *)
(* A command waits where it reads or writes a plan file; meanwhile other   *)
(* commands and the executors go on.  stop() only asks: an executor ends   *)
(* when its loop looks again, and its completion handlers, which nobody    *)
(* waits for, go on after that.                                            *)
(***************************************************************************)
EXTENDS Naturals

CONSTANTS
  Plan,         \* the plans
  Run,          \* identities of executors
  NoRun,        \* executors.get(...) = undefined
  HostClient,   \* those who send commands
  MaxHostCalls  \* bound: commands

ASSUME HostAssumption == NoRun \notin Run /\ MaxHostCalls \in Nat

(* What a plan file says; none: there is no such file.                     *)
PlanState == {"none", "planning", "executing", "paused", "done", "cancelled"}

(* An executor: told: running is false; status: plan.status in its memory; *)
(* handlers: completion handlers are at work.                              *)
RunRec == [plan: Plan, at: {"new", "starting", "running", "ended"},
           status: PlanState, told: BOOLEAN, handlers: BOOLEAN]

(* A command: loading: it reads the plan; loaded: and has what it said;    *)
(* saving, deleting: it writes or removes the file.                        *)
HostCall == [at: {"idle", "loading", "loaded", "saving", "deleting"},
             op: {"execute", "resume", "cancel", "delete"},
             plan: Plan, said: PlanState]

VARIABLES
  planFile,   \* what the plan files say
  executors,  \* Station.executors
  run,        \* the executors
  hostCall,   \* the command of each client that is under way
  hostCalls,  \* how many there have been
  early       \* history: plans started while an executor of theirs, stopped
              \* or about to be replaced, was still at work

hostVars == <<planFile, executors, run, hostCall, hostCalls, early>>

HostTypeOK ==
  /\ planFile \in [Plan -> PlanState]
  /\ executors \in [Plan -> Run \cup {NoRun}]
  /\ run \in [Run -> RunRec]
  /\ hostCall \in [HostClient -> HostCall]
  /\ hostCalls \in 0..MaxHostCalls
  /\ early \in [Plan -> BOOLEAN]

HostInit ==
  /\ planFile \in [Plan -> {"planning", "paused", "cancelled"}]
  /\ executors = [p \in Plan |-> NoRun]
  /\ \E p \in Plan :
       /\ run = [r \in Run |-> [plan |-> p, at |-> "new", status |-> "none",
                                told |-> FALSE, handlers |-> FALSE]]
       /\ hostCall = [c \in HostClient |-> [at |-> "idle", op |-> "execute",
                                            plan |-> p, said |-> "none"]]
  /\ hostCalls = 0
  /\ early = [p \in Plan |-> FALSE]

-----------------------------------------------------------------------------
(* Executors of p that the code counts on, and those that have been        *)
(* stopped or have failed but still do something.                          *)
Active(r, p) == /\ run[r].plan = p /\ run[r].at \in {"starting", "running"}
                /\ ~run[r].told
Lingers(r, p) == /\ run[r].plan = p /\ run[r].at # "new"
                 /\ run[r].at # "ended" \/ run[r].handlers
                 /\ ~Active(r, p)

(* startExecutor(): in the map before anything else happens.               *)
StartExecutor(p) ==
  \E r \in Run :
    /\ run[r].at = "new"
    /\ executors' = [executors EXCEPT ![p] = r]
    /\ run' = [run EXCEPT ![r] = [plan |-> p, at |-> "starting",
                                  status |-> "executing", told |-> FALSE,
                                  handlers |-> FALSE]]

Finish(c) == hostCall' = [hostCall EXCEPT ![c].at = "idle"]
Await(c, at) == hostCall' = [hostCall EXCEPT ![c].at = at]

(* stop(), and out of the map; there may be no executor.                   *)
StopExecutor(p) ==
  /\ executors' = [executors EXCEPT ![p] = NoRun]
  /\ run' = IF executors[p] = NoRun THEN run
            ELSE [run EXCEPT ![executors[p]].told = TRUE]

-----------------------------------------------------------------------------
(* Commands.                                                               *)

NewCall(c, op, p, at) ==
  /\ hostCall[c].at = "idle" /\ hostCalls < MaxHostCalls
  /\ hostCalls' = hostCalls + 1
  /\ hostCall' = [hostCall EXCEPT ![c] = [at |-> at, op |-> op, plan |-> p,
                                          said |-> "none"]]

(* execute_plan, cancel_plan: the plan is read first.                      *)
Execute(c, p) ==
  NewCall(c, "execute", p, "loading") /\ UNCHANGED <<planFile, executors, run, early>>
Cancel(c, p) ==
  NewCall(c, "cancel", p, "loading") /\ UNCHANGED <<planFile, executors, run, early>>

(* delete_plan stops the executor at once.                                 *)
Delete(c, p) ==
  /\ NewCall(c, "delete", p, "deleting")
  /\ StopExecutor(p)
  /\ UNCHANGED <<planFile, early>>

(* pause_plan; without an executor it is refused.                          *)
Pause(c, p) ==
  /\ hostCall[c].at = "idle" /\ hostCalls < MaxHostCalls /\ executors[p] # NoRun
  /\ hostCalls' = hostCalls + 1
  /\ run' = [run EXCEPT ![executors[p]].status = "paused"]
  /\ UNCHANGED <<planFile, executors, hostCall, early>>

(* resume_plan: the executor takes it as an event (Resumed); without one   *)
(* the plan is read.                                                       *)
Resume(c, p) ==
  /\ executors[p] = NoRun
  /\ NewCall(c, "resume", p, "loading")
  /\ UNCHANGED <<planFile, executors, run, early>>

(* The file is read, ...                                                   *)
Read(c) ==
  /\ hostCall[c].at = "loading"
  /\ hostCall' = [hostCall EXCEPT ![c].at = "loaded",
                                  ![c].said = planFile[hostCall[c].plan]]
  /\ UNCHANGED <<planFile, executors, run, hostCalls, early>>

(* ... and the command goes on.  There is no such plan: ...                *)
NotFound(c) ==
  /\ hostCall[c].at = "loaded" /\ hostCall[c].said = "none"
  /\ Finish(c)
  /\ UNCHANGED <<planFile, executors, run, hostCalls, early>>

Found(c, op) == /\ hostCall[c].at = "loaded" /\ hostCall[c].op = op
                /\ hostCall[c].said # "none"

(* Mutant of MayExecute: who executes a plan does not ask.                 *)
MayExecuteAlways(p) == TRUE
MayExecute(p) == executors[p] = NoRun

(* ... it is executed unless it is being executed, ...                     *)
FoundExecute(c) ==
  LET p == hostCall[c].plan IN
  /\ Found(c, "execute")
  /\ IF MayExecute(p)
     THEN /\ StartExecutor(p)
          /\ early' = [early EXCEPT ![p] = @ \/ \E r \in Run : Lingers(r, p)]
     ELSE UNCHANGED <<executors, run, early>>
  /\ Finish(c)
  /\ UNCHANGED <<planFile, hostCalls>>

(* ... cancelled, ...                                                      *)
FoundCancel(c) ==
  /\ Found(c, "cancel")
  /\ StopExecutor(hostCall[c].plan)
  /\ Await(c, "saving")
  /\ UNCHANGED <<planFile, hostCalls, early>>

(* ... or resumed, if it says that it is paused.                           *)
FoundResume(c) ==
  /\ Found(c, "resume")
  /\ IF hostCall[c].said = "paused" THEN Await(c, "saving") ELSE Finish(c)
  /\ UNCHANGED <<planFile, executors, run, hostCalls, early>>

(* A resumed plan is saved and started, without another look at the map.   *)
SavedResumed(c) ==
  LET p == hostCall[c].plan IN
  /\ hostCall[c].at = "saving" /\ hostCall[c].op = "resume"
  /\ planFile' = [planFile EXCEPT ![p] = "executing"]
  /\ StartExecutor(p)
  /\ early' = [early EXCEPT ![p] = @ \/ \E r \in Run : Lingers(r, p) \/ Active(r, p)]
  /\ Finish(c)
  /\ UNCHANGED hostCalls

SavedCancelled(c) ==
  /\ hostCall[c].at = "saving" /\ hostCall[c].op = "cancel"
  /\ planFile' = [planFile EXCEPT ![hostCall[c].plan] = "cancelled"]
  /\ Finish(c)
  /\ UNCHANGED <<executors, run, hostCalls, early>>

Deleted(c) ==
  /\ hostCall[c].at = "deleting"
  /\ planFile' = [planFile EXCEPT ![hostCall[c].plan] = "none"]
  /\ Finish(c)
  /\ UNCHANGED <<executors, run, hostCalls, early>>

-----------------------------------------------------------------------------
(* The executor r.                                                         *)

AtWork(r) == run[r].at = "running" \/ run[r].handlers

(* run() has saved the plan and starts agents.                             *)
Boot(r) ==
  /\ run[r].at = "starting"
  /\ planFile' = [planFile EXCEPT ![run[r].plan] = "executing"]
  /\ run' = [run EXCEPT ![r].at = "running"]
  /\ UNCHANGED <<executors, hostCall, hostCalls, early>>

(* A completion handler begins, or the last one has ended.                 *)
HandlerBegins(r) ==
  /\ run[r].at = "running" /\ ~run[r].handlers
  /\ run' = [run EXCEPT ![r].handlers = TRUE]
  /\ UNCHANGED <<planFile, executors, hostCall, hostCalls, early>>

HandlersEnd(r) ==
  /\ run[r].handlers
  /\ run' = [run EXCEPT ![r].handlers = FALSE]
  /\ UNCHANGED <<planFile, executors, hostCall, hostCalls, early>>

Resumed(r) ==
  /\ run[r].at = "running" /\ run[r].status = "paused"
  /\ run' = [run EXCEPT ![r].status = "executing"]
  /\ UNCHANGED <<planFile, executors, hostCall, hostCalls, early>>

(* recomputeAndContinue() saves the plan, whoever has cancelled it since.  *)
SavePlan(r) ==
  /\ AtWork(r)
  /\ planFile' = [planFile EXCEPT ![run[r].plan] = run[r].status]
  /\ UNCHANGED <<executors, run, hostCall, hostCalls, early>>

(* plan_completed takes the plan's executor out of the map.                *)
Complete(r) ==
  /\ AtWork(r) /\ run[r].status # "paused"
  /\ run' = [run EXCEPT ![r] = [@ EXCEPT !.status = "done", !.told = TRUE]]
  /\ planFile' = [planFile EXCEPT ![run[r].plan] = "done"]
  /\ executors' = [executors EXCEPT ![run[r].plan] = NoRun]
  /\ UNCHANGED <<hostCall, hostCalls, early>>

(* Mutant of OutOfMap: nothing is done at the end of run().                *)
OutOfMapNever(p) == UNCHANGED executors

(* .finally(): whichever executor the plan has by now.                     *)
OutOfMap(p) == executors' = [executors EXCEPT ![p] = NoRun]

(* run() returns once running is false, or throws at any time.             *)
End(r) ==
  /\ run[r].at \in {"starting", "running"}
  /\ run' = [run EXCEPT ![r].at = "ended"]
  /\ OutOfMap(run[r].plan)
  /\ UNCHANGED <<planFile, hostCall, hostCalls, early>>

-----------------------------------------------------------------------------
CommandStep(c) ==
  \/ \E p \in Plan : Execute(c, p) \/ Cancel(c, p) \/ Delete(c, p) \/ Pause(c, p)
                     \/ Resume(c, p)
  \/ Read(c) \/ NotFound(c) \/ FoundExecute(c) \/ FoundCancel(c) \/ FoundResume(c)
  \/ SavedResumed(c) \/ SavedCancelled(c) \/ Deleted(c)

ExecutorStep(r) ==
  \/ Boot(r) \/ HandlerBegins(r) \/ HandlersEnd(r) \/ Resumed(r) \/ SavePlan(r)
  \/ Complete(r) \/ End(r)

HostNext == \/ \E c \in HostClient : CommandStep(c)
            \/ \E r \in Run : ExecutorStep(r)

HostSpec == HostInit /\ [][HostNext]_hostVars

-----------------------------------------------------------------------------
(* Properties.                                                             *)

(* The map never names an executor that has ended: a plan that is not      *)
(* executed can be executed, and is not answered "already executing"       *)
(* (station.ts:443).                                                       *)
MapIsLive ==
  \A p \in Plan : executors[p] # NoRun =>
    run[executors[p]].plan = p /\ run[executors[p]].at \in {"starting", "running"}

(* An executor that has not been told to stop is in the map, where         *)
(* pause_plan and cancel_plan find it: so no plan has two.                 *)
InMap(p) == \A r \in Run : Active(r, p) => executors[p] = r

(* Executors are in the map from start to end and no plan is run by two at *)
(* once, unless a plan has been started over while a stopped executor of   *)
(* it was still at work, or has been resumed twice at once.                *)
PlansRunOnce == MapIsLive /\ \A p \in Plan : ~early[p] => InMap(p)

(* station.ts:443-445: a plan that is executing is not executed again.     *)
NeverTwice == \A p \in Plan : InMap(p)
=============================================================================
