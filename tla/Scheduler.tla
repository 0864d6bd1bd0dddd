----------------------------- MODULE Scheduler ------------------------------
(***************************************************************************)
(* Scheduled tasks (scheduling/scheduler.ts): a timer per task, replaced   *)
(* when the task has been executed, and the calls that change tasks while  *)
(* timers are armed and commands are running.                              *)
(*                                                                         *)
(* The map of timers keeps the entry of a timer that has fired or has been *)
(* cleared for another that was never set.  A timer that was dropped from  *)
(* the map without being cleared goes on all the same, so what is armed is *)
(* counted on its own.                                                     *)
(***************************************************************************)
EXTENDS Naturals

CONSTANTS
  Task,
  Rare,          \* the tasks whose schedule may have no run within two years
  MaxExecuting   \* bound: executions of one task at a time

ASSUME SchedulerAssumption == MaxExecuting \in Nat /\ Rare \subseteq Task

VARIABLES
  scheduling,    \* running
  listed,        \* the tasks in tasks
  enabled,       \* tasks[].enabled
  timer,         \* the entry in timers
  armed,         \* how many timers of the task are armed
  executing,     \* how many executions of the task wait for the command
  skipped        \* history: the enabled tasks that the last start() has not
                 \* reached, and that nobody has scheduled since

schedulerVars == <<scheduling, listed, enabled, timer, armed, executing, skipped>>

(* "added": neither enabled nor disabled since it was added.               *)

SchedulerTypeOK ==
  /\ scheduling \in BOOLEAN
  /\ listed \in [Task -> {"new", "added", "listed", "removed"}]
  /\ enabled \in [Task -> BOOLEAN]
  /\ timer \in [Task -> {"none", "armed", "spent"}]
  /\ armed \in [Task -> Nat]
  /\ executing \in [Task -> 0..MaxExecuting]
  /\ skipped \subseteq Task

SchedulerInit ==
  /\ scheduling = FALSE
  /\ listed = [t \in Task |-> "new"]
  /\ enabled = [t \in Task |-> FALSE]
  /\ timer = [t \in Task |-> "none"]
  /\ armed = [t \in Task |-> 0]
  /\ executing = [t \in Task |-> 0]
  /\ skipped = {}

Tasks == {t \in Task : listed[t] \in {"added", "listed"}}

(* mutant of Cleared: whatever the map holds is taken for an armed timer.  *)
ClearedAlways(t) == armed[t] - 1

(* What clearing the timer in the map leaves armed.                        *)
Cleared(t) == IF timer[t] = "armed" THEN armed[t] - 1 ELSE armed[t]

(* mutant of ScheduleNext: the timer before is not cleared.                *)
ScheduleAnother(T, R) ==
  /\ timer' = [t \in Task |-> IF t \in T THEN "armed" ELSE timer[t]]
  /\ armed' = [t \in Task |-> IF t \in T THEN armed[t] + 1 ELSE armed[t]]

(* scheduleNext(), for the tasks T, and for R, where no next run is found: *)
(* that throws when the timer before has been cleared.                     *)
ScheduleNext(T, R) ==
  /\ timer' = [t \in Task |->
                 IF t \in T THEN "armed"
                 ELSE IF t \in R /\ timer[t] = "armed" THEN "spent" ELSE timer[t]]
  /\ armed' = [t \in Task |-> IF t \in T THEN Cleared(t) + 1
                              ELSE IF t \in R THEN Cleared(t) ELSE armed[t]]

(* A call schedules the task, if it is to be scheduled.                    *)
Schedule(t, due) ==
  IF due THEN /\ ScheduleNext({t}, {}) \/ (t \in Rare /\ ScheduleNext({}, {t}))
              /\ skipped' = skipped \ {t}
         ELSE UNCHANGED <<timer, armed, skipped>>

ClearTimers(T) ==
  /\ timer' = [t \in Task |-> IF t \in T THEN "none" ELSE timer[t]]
  /\ armed' = [t \in Task |-> IF t \in T THEN Cleared(t) ELSE armed[t]]
  /\ UNCHANGED skipped

(* addTask(), enabled or not, and loadSchedules() before start().          *)
AddTask(t) ==
  /\ listed[t] = "new"
  /\ listed' = [listed EXCEPT ![t] = "added"]
  /\ \E on \in BOOLEAN : enabled' = [enabled EXCEPT ![t] = on]
  /\ Schedule(t, scheduling)
  /\ UNCHANGED <<scheduling, executing>>

RemoveTask(t) ==
  /\ t \in Tasks
  /\ listed' = [listed EXCEPT ![t] = "removed"]
  /\ ClearTimers({t})
  /\ UNCHANGED <<scheduling, enabled, executing>>

EnableTask(t) ==
  /\ t \in Tasks
  /\ listed' = [listed EXCEPT ![t] = "listed"]
  /\ enabled' = [enabled EXCEPT ![t] = TRUE]
  /\ Schedule(t, scheduling)
  /\ UNCHANGED <<scheduling, executing>>

DisableTask(t) ==
  /\ t \in Tasks
  /\ listed' = [listed EXCEPT ![t] = "listed"]
  /\ enabled' = [enabled EXCEPT ![t] = FALSE]
  /\ ClearTimers({t})
  /\ UNCHANGED <<scheduling, executing>>

(* start() schedules one task after another, in the order of the list, ... *)
StartScheduler ==
  /\ scheduling' = TRUE
  /\ ScheduleNext({t \in Tasks : enabled[t]}, {})
  /\ skipped' = {}
  /\ UNCHANGED <<listed, enabled, executing>>

(* ... up to the first that throws: the scheduler is running all the same. *)
StartThrows ==
  /\ scheduling' = TRUE
  /\ \E r \in Tasks \cap Rare :
       /\ enabled[r]
       /\ LET others == {t \in Tasks : enabled[t]} \ {r} IN
          \E before \in SUBSET others :
            ScheduleNext(before, {r}) /\ skipped' = others \ before
  /\ UNCHANGED <<listed, enabled, executing>>

StopScheduler ==
  /\ scheduling' = FALSE
  /\ ClearTimers(Task)
  /\ UNCHANGED <<listed, enabled, executing>>

(* A timer fires: execute() up to the end of the command.                  *)
Fire(t) ==
  /\ armed[t] > 0 /\ executing[t] < MaxExecuting
  /\ armed' = [armed EXCEPT ![t] = @ - 1]
  /\ timer' = [timer EXCEPT ![t] = IF @ = "armed" THEN "spent" ELSE @]
  /\ executing' = [executing EXCEPT ![t] = @ + 1]
  /\ UNCHANGED <<scheduling, listed, enabled, skipped>>

(* The command has ended.  The task may be off the list: nobody asks.  A   *)
(* throw is caught by the timer and no more than reported.                 *)
Executed(t) ==
  /\ executing[t] > 0
  /\ executing' = [executing EXCEPT ![t] = @ - 1]
  /\ Schedule(t, scheduling /\ enabled[t])
  /\ UNCHANGED <<scheduling, listed, enabled>>

SchedulerNext ==
  \/ \E t \in Task :
       AddTask(t) \/ RemoveTask(t) \/ EnableTask(t) \/ DisableTask(t)
         \/ Fire(t) \/ Executed(t)
  \/ StartScheduler \/ StartThrows \/ StopScheduler

SchedulerSpec == SchedulerInit /\ [][SchedulerNext]_schedulerVars

-----------------------------------------------------------------------------
(* Properties.                                                             *)

(* A task has at most one timer, which the map knows, so that it can be    *)
(* cleared; nothing is armed after stop(), nor for a task that was         *)
(* disabled.  (One that is added disabled is armed, and runs once.)        *)
OneTimerEach ==
  \A t \in Task :
    /\ armed[t] = IF timer[t] = "armed" THEN 1 ELSE 0
    /\ armed[t] > 0 => scheduling /\ (enabled[t] \/ listed[t] = "added")

(* A task that is listed and enabled has its next run to come as long as   *)
(* the scheduler runs, whatever was called while its command was running,  *)
(* unless no next run may be found for it, or start() has not reached it   *)
(* because that happened to another.                                       *)
NoneForgotten ==
  \A t \in Tasks \ (Rare \cup skipped) :
    scheduling /\ enabled[t] => armed[t] > 0 \/ executing[t] > 0

(* Both hold while timers, commands and calls overlap.                     *)
Scheduled == OneTimerEach /\ NoneForgotten
=============================================================================
