--------------------------- MODULE ServicesProofs ---------------------------
(***************************************************************************)
(* Proofs about the services inside the station, for any agents, tasks,    *)
(* services and plans: MessageRouter, Scheduler, Environment and PlanHost, *)
(* each about its own specification, and then the four together as         *)
(* MCServices composes them.                                               *)
(***************************************************************************)
EXTENDS MCServices, FiniteSetTheorems, TLAPS

-----------------------------------------------------------------------------
(***************************************************************************)
(* Proofs about Scheduler, for any tasks: every task has the one timer     *)
(* that the scheduler knows of, and no task is forgotten but those that a  *)
(* throw has left out.                                                     *)
(*                                                                         *)
(* Scheduled is inductive together with the type invariant: each call and  *)
(* each end of a command arms and clears through ScheduleNext and          *)
(* ClearTimers, so what these two do to one task is stated first.          *)
(***************************************************************************)
SInv == SchedulerTypeOK /\ Scheduled

LEMMA SInvInit == SchedulerInit => SInv
<1> SUFFICES ASSUME SchedulerInit PROVE SInv
  OBVIOUS
<1>1. SchedulerTypeOK
  <2>1. /\ scheduling \in BOOLEAN /\ enabled \in [Task -> BOOLEAN]
        /\ skipped \subseteq Task
    BY DEF SchedulerInit
  <2>2. executing \in [Task -> 0..MaxExecuting]
    BY SchedulerAssumption DEF SchedulerInit
  <2>3. /\ listed \in [Task -> {"new", "added", "listed", "removed"}]
        /\ timer \in [Task -> {"none", "armed", "spent"}]
        /\ armed \in [Task -> Nat]
    BY DEF SchedulerInit
  <2> QED
    BY <2>1, <2>2, <2>3 DEF SchedulerTypeOK
<1>2. OneTimerEach
  <2>1. \A t \in Task : armed[t] = 0 /\ timer[t] = "none"
    BY DEF SchedulerInit
  <2>2. \A t \in Task : (armed[t] = IF timer[t] = "armed" THEN 1 ELSE 0) /\ ~(armed[t] > 0)
    <3> TAKE t \in Task
    <3>1. armed[t] = 0 /\ timer[t] = "none"
      BY <2>1
    <3>2. armed[t] = IF timer[t] = "armed" THEN 1 ELSE 0
      BY <3>1, Zenon
    <3>3. ~(armed[t] > 0)
      BY <3>1
    <3> QED
      BY <3>2, <3>3
  <2> QED
    BY <2>2, Zenon DEF OneTimerEach
<1>3. NoneForgotten
  BY DEF SchedulerInit, NoneForgotten
<1> QED
  BY <1>1, <1>2, <1>3 DEF SInv, Scheduled

(* What scheduleNext() leaves: a timer for each task of T, none for one of *)
(* R, and the others as they were.                                         *)
LEMMA Arms ==
  ASSUME SInv, NEW T \in SUBSET Task, NEW R \in SUBSET Task, T \cap R = {},
         ScheduleNext(T, R)
  PROVE  /\ timer' \in [Task -> {"none", "armed", "spent"}]
         /\ armed' \in [Task -> Nat]
         /\ \A t \in Task : armed'[t] = IF timer'[t] = "armed" THEN 1 ELSE 0
         /\ \A t \in T : armed'[t] = 1
         /\ \A t \in R : armed'[t] = 0
         /\ \A t \in Task \ (T \cup R) : armed'[t] = armed[t]
<1>2. \A t \in Task : /\ timer[t] \in {"none", "armed", "spent"} /\ armed[t] \in Nat
                      /\ armed[t] = IF timer[t] = "armed" THEN 1 ELSE 0
  BY DEF SInv, SchedulerTypeOK, Scheduled, OneTimerEach
<1>1. \A t \in Task : Cleared(t) = 0
  <2> TAKE t \in Task
  <2> QED
    BY <1>2, SMTT(30) DEF Cleared
<1> QED
  BY <1>1, <1>2 DEF ScheduleNext

(* What clearing the timers of T leaves.                                   *)
LEMMA Clears ==
  ASSUME SInv, NEW T \in SUBSET Task, ClearTimers(T)
  PROVE  /\ timer' \in [Task -> {"none", "armed", "spent"}]
         /\ armed' \in [Task -> Nat]
         /\ \A t \in Task : armed'[t] = IF timer'[t] = "armed" THEN 1 ELSE 0
         /\ \A t \in T : armed'[t] = 0
         /\ \A t \in Task \ T : armed'[t] = armed[t]
         /\ skipped' = skipped
  BY DEF SInv, SchedulerTypeOK, Scheduled, OneTimerEach, ClearTimers, Cleared

(* What a call leaves that schedules t if it is due.                       *)
LEMMA SchedulesOne ==
  ASSUME SInv, NEW t \in Task, NEW due \in BOOLEAN, Schedule(t, due)
  PROVE  /\ timer' \in [Task -> {"none", "armed", "spent"}]
         /\ armed' \in [Task -> Nat]
         /\ skipped' \subseteq Task
         /\ \A u \in Task : armed'[u] = IF timer'[u] = "armed" THEN 1 ELSE 0
         /\ \A u \in Task \ {t} :
              armed'[u] = armed[u] /\ (u \in skipped' <=> u \in skipped)
         /\ due => armed'[t] = 1 \/ (t \in Rare /\ armed'[t] = 0)
         /\ ~due => armed'[t] = armed[t] /\ skipped' = skipped
<1>1. CASE ~due
  BY <1>1 DEF Schedule, SInv, SchedulerTypeOK, Scheduled, OneTimerEach
<1>2. CASE due
  <2>1. skipped' = skipped \ {t}
    BY <1>2 DEF Schedule
  <2>2. CASE ScheduleNext({t}, {})
    BY <1>2, <2>1, <2>2, Arms DEF SInv, SchedulerTypeOK
  <2>3. CASE t \in Rare /\ ScheduleNext({}, {t})
    <3>1. {} \in SUBSET Task /\ {t} \in SUBSET Task /\ {} \cap {t} = {}
      OBVIOUS
    <3>2. /\ timer' \in [Task -> {"none", "armed", "spent"}]
          /\ armed' \in [Task -> Nat]
          /\ \A u \in Task : armed'[u] = IF timer'[u] = "armed" THEN 1 ELSE 0
          /\ armed'[t] = 0
          /\ \A u \in Task \ {t} : armed'[u] = armed[u]
      BY <2>3, <3>1, Arms
    <3> QED
      BY <1>2, <2>1, <2>3, <3>2 DEF SInv, SchedulerTypeOK
  <2> QED
    BY <1>2, <2>2, <2>3 DEF Schedule
<1> QED
  BY <1>1, <1>2

LEMMA SInvNext == SInv /\ [SchedulerNext]_schedulerVars => SInv'
<1> SUFFICES ASSUME SInv, [SchedulerNext]_schedulerVars PROVE SInv'
  OBVIOUS
<1> USE SchedulerAssumption
<1>0. /\ SchedulerTypeOK
      /\ \A u \in Task :
           /\ armed[u] \in Nat /\ enabled[u] \in BOOLEAN
           /\ armed[u] > 0 => scheduling /\ (enabled[u] \/ listed[u] = "added")
           /\ u \in Tasks \ (Rare \cup skipped) /\ scheduling /\ enabled[u]
                => armed[u] > 0 \/ executing[u] > 0
  BY DEF SInv, SchedulerTypeOK, Scheduled, OneTimerEach, NoneForgotten
<1>1. CASE UNCHANGED schedulerVars
  BY <1>1 DEF schedulerVars, SInv, SchedulerTypeOK, Scheduled, OneTimerEach,
              NoneForgotten, Tasks
<1>2. ASSUME NEW t \in Task, AddTask(t) PROVE SInv'
  <2>1. Schedule(t, scheduling) /\ scheduling \in BOOLEAN
    BY <1>2, <1>0 DEF AddTask, SchedulerTypeOK
  <2>2. SchedulerTypeOK'
    BY <1>2, <1>0, <2>1, SchedulesOne DEF AddTask, SchedulerTypeOK
  <2>3. OneTimerEach'
    BY <1>2, <1>0, <2>1, SchedulesOne DEF AddTask, SchedulerTypeOK, OneTimerEach
  <2>4. NoneForgotten'
    <3> SUFFICES ASSUME NEW u \in Tasks' \ (Rare \cup skipped'), scheduling', enabled'[u]
                 PROVE  armed'[u] > 0 \/ executing'[u] > 0
      BY DEF NoneForgotten
    <3>1. u \in Task /\ UNCHANGED <<scheduling, executing>>
      BY <1>2 DEF AddTask, Tasks
    <3>2. CASE u = t
      BY <2>1, <3>1, <3>2, SchedulesOne
    <3>3. CASE u # t
      <4>1. u \in Tasks /\ enabled[u]
        BY <1>2, <1>0, <3>1, <3>3 DEF AddTask, Tasks, SchedulerTypeOK
      <4>2. armed'[u] = armed[u] /\ u \notin skipped
        BY <2>1, <3>1, <3>3, SchedulesOne
      <4> QED
        BY <1>0, <3>1, <4>1, <4>2
    <3> QED
      BY <3>2, <3>3
  <2> QED
    BY <2>2, <2>3, <2>4 DEF SInv, Scheduled
<1>3. ASSUME NEW t \in Task, RemoveTask(t) PROVE SInv'
  <2>1. ClearTimers({t})
    BY <1>3 DEF RemoveTask
  <2>2. SchedulerTypeOK'
    BY <1>3, <1>0, <2>1, Clears DEF RemoveTask, SchedulerTypeOK
  <2>3. OneTimerEach'
    BY <1>3, <1>0, <2>1, Clears DEF RemoveTask, SchedulerTypeOK, OneTimerEach
  <2>4. NoneForgotten'
    BY <1>3, <1>0, <2>1, Clears DEF RemoveTask, SchedulerTypeOK, NoneForgotten, Tasks
  <2> QED
    BY <2>2, <2>3, <2>4 DEF SInv, Scheduled
<1>4. ASSUME NEW t \in Task, EnableTask(t) PROVE SInv'
  <2>1. Schedule(t, scheduling) /\ scheduling \in BOOLEAN
    BY <1>4, <1>0 DEF EnableTask, SchedulerTypeOK
  <2>2. SchedulerTypeOK'
    BY <1>4, <1>0, <2>1, SchedulesOne DEF EnableTask, SchedulerTypeOK
  <2>3. OneTimerEach'
    BY <1>4, <1>0, <2>1, SchedulesOne DEF EnableTask, SchedulerTypeOK, OneTimerEach
  <2>4. NoneForgotten'
    <3> SUFFICES ASSUME NEW u \in Tasks' \ (Rare \cup skipped'), scheduling', enabled'[u]
                 PROVE  armed'[u] > 0 \/ executing'[u] > 0
      BY DEF NoneForgotten
    <3>1. u \in Task /\ UNCHANGED <<scheduling, executing>>
      BY <1>4 DEF EnableTask, Tasks
    <3>2. CASE u = t
      BY <2>1, <3>1, <3>2, SchedulesOne
    <3>3. CASE u # t
      <4>1. u \in Tasks /\ enabled[u]
        BY <1>4, <1>0, <3>1, <3>3 DEF EnableTask, Tasks, SchedulerTypeOK
      <4>2. armed'[u] = armed[u] /\ u \notin skipped
        BY <2>1, <3>1, <3>3, SchedulesOne
      <4> QED
        BY <1>0, <3>1, <4>1, <4>2
    <3> QED
      BY <3>2, <3>3
  <2> QED
    BY <2>2, <2>3, <2>4 DEF SInv, Scheduled
<1>5. ASSUME NEW t \in Task, DisableTask(t) PROVE SInv'
  <2>1. ClearTimers({t})
    BY <1>5 DEF DisableTask
  <2>2. SchedulerTypeOK'
    BY <1>5, <1>0, <2>1, Clears DEF DisableTask, SchedulerTypeOK
  <2>3. OneTimerEach'
    BY <1>5, <1>0, <2>1, Clears DEF DisableTask, SchedulerTypeOK, OneTimerEach
  <2>4. NoneForgotten'
    BY <1>5, <1>0, <2>1, Clears
    DEF DisableTask, SchedulerTypeOK, NoneForgotten, Tasks
  <2> QED
    BY <2>2, <2>3, <2>4 DEF SInv, Scheduled
<1>6. ASSUME NEW t \in Task, Fire(t) PROVE SInv'
  <2>1. SchedulerTypeOK'
    BY <1>6, <1>0 DEF Fire, SchedulerTypeOK
  <2>2. OneTimerEach' /\ NoneForgotten'
    BY <1>6 DEF Fire, SInv, SchedulerTypeOK, Scheduled, OneTimerEach, NoneForgotten,
                Tasks
  <2> QED
    BY <2>1, <2>2 DEF SInv, Scheduled
<1>7. ASSUME NEW t \in Task, Executed(t) PROVE SInv'
  <2>1. Schedule(t, scheduling /\ enabled[t]) /\ (scheduling /\ enabled[t]) \in BOOLEAN
    BY <1>7, <1>0 DEF Executed, SchedulerTypeOK
  <2>2. SchedulerTypeOK'
    <3>1. executing' \in [Task -> 0..MaxExecuting]
      BY <1>7, <1>0 DEF Executed, SchedulerTypeOK
    <3>2. UNCHANGED <<scheduling, listed, enabled>>
      BY <1>7 DEF Executed
    <3>3. /\ timer' \in [Task -> {"none", "armed", "spent"}]
          /\ armed' \in [Task -> Nat] /\ skipped' \subseteq Task
      BY <2>1, SchedulesOne
    <3> QED
      BY <1>0, <3>1, <3>2, <3>3 DEF SchedulerTypeOK
  <2>3. OneTimerEach'
    <3>1. UNCHANGED <<scheduling, listed, enabled>>
      BY <1>7 DEF Executed
    <3>2. /\ \A u \in Task : armed'[u] = IF timer'[u] = "armed" THEN 1 ELSE 0
          /\ \A u \in Task \ {t} : armed'[u] = armed[u]
          /\ (scheduling /\ enabled[t]) \/ armed'[t] = armed[t]
      BY <2>1, SchedulesOne
    <3> QED
      BY <1>0, <3>1, <3>2 DEF OneTimerEach
  <2>4. NoneForgotten'
    <3>1. /\ UNCHANGED <<scheduling, listed, enabled>>
          /\ \A u \in Task \ {t} : executing'[u] = executing[u]
      BY <1>7, <1>0 DEF Executed, SchedulerTypeOK
    <3>2. /\ \A u \in Task \ {t} :
               armed'[u] = armed[u] /\ (u \in skipped' <=> u \in skipped)
          /\ scheduling /\ enabled[t] => armed'[t] = 1 \/ t \in Rare
      BY <2>1, SchedulesOne
    <3> QED
      BY <1>0, <3>1, <3>2 DEF NoneForgotten, Tasks
  <2> QED
    BY <2>2, <2>3, <2>4 DEF SInv, Scheduled
<1>8. CASE StartScheduler
  <2> DEFINE T == {t \in Tasks : enabled[t]}
  <2>1. T \in SUBSET Task /\ ScheduleNext(T, {})
    BY <1>8 DEF StartScheduler, Tasks
  <2>2. /\ armed' \in [Task -> Nat]
        /\ timer' \in [Task -> {"none", "armed", "spent"}]
        /\ \A u \in Task : armed'[u] = IF timer'[u] = "armed" THEN 1 ELSE 0
        /\ \A u \in T : armed'[u] = 1
        /\ \A u \in Task \ T : armed'[u] = armed[u]
    <3>1. {} \in SUBSET Task /\ T \cap {} = {} /\ T \cup {} = T
      OBVIOUS
    <3> HIDE DEF T
    <3> QED
      BY <2>1, <3>1, Arms
  <2>3. SchedulerTypeOK'
    BY <1>8, <1>0, <2>2 DEF StartScheduler, SchedulerTypeOK
  <2>4. OneTimerEach' /\ NoneForgotten'
    BY <1>8, <1>0, <2>2 DEF StartScheduler, OneTimerEach, NoneForgotten, Tasks
  <2> QED
    BY <2>3, <2>4 DEF SInv, Scheduled
<1>9. CASE StartThrows
  <2>1. PICK r \in Tasks \cap Rare :
          /\ enabled[r]
          /\ LET others == {t \in Tasks : enabled[t]} \ {r} IN
             \E before \in SUBSET others :
               ScheduleNext(before, {r}) /\ skipped' = others \ before
    BY <1>9 DEF StartThrows
  <2> DEFINE others == {t \in Tasks : enabled[t]} \ {r}
  <2>2. PICK before \in SUBSET others :
          ScheduleNext(before, {r}) /\ skipped' = others \ before
    BY <2>1
  <2>3. before \in SUBSET Task /\ {r} \in SUBSET Task /\ before \cap {r} = {}
    BY DEF Tasks
  <2>4. /\ armed' \in [Task -> Nat]
        /\ timer' \in [Task -> {"none", "armed", "spent"}]
        /\ \A u \in Task : armed'[u] = IF timer'[u] = "armed" THEN 1 ELSE 0
        /\ \A u \in before : armed'[u] = 1
        /\ armed'[r] = 0
        /\ \A u \in Task \ (before \cup {r}) : armed'[u] = armed[u]
    BY <2>2, <2>3, Arms
  <2>5. /\ scheduling' = TRUE /\ UNCHANGED <<listed, enabled, executing>>
        /\ skipped' \subseteq Task
    BY <1>9, <2>2 DEF StartThrows, Tasks
  <2>6. SchedulerTypeOK'
    BY <1>0, <2>4, <2>5 DEF SchedulerTypeOK
  <2>7. OneTimerEach'
    BY <1>0, <2>1, <2>4, <2>5 DEF OneTimerEach
  <2>8. NoneForgotten'
    <3> SUFFICES ASSUME NEW u \in Tasks \ (Rare \cup skipped'), enabled[u]
                 PROVE  armed'[u] > 0
      BY <2>5 DEF NoneForgotten, Tasks
    <3>1. u \in others
      OBVIOUS
    <3> QED
      BY <2>2, <2>4, <3>1
  <2> QED
    BY <2>6, <2>7, <2>8 DEF SInv, Scheduled
<1>10. CASE StopScheduler
  <2>1. ClearTimers(Task) /\ Task \in SUBSET Task
    BY <1>10 DEF StopScheduler
  <2>2. /\ armed' \in [Task -> Nat]
        /\ timer' \in [Task -> {"none", "armed", "spent"}]
        /\ \A u \in Task : armed'[u] = IF timer'[u] = "armed" THEN 1 ELSE 0
        /\ \A u \in Task : armed'[u] = 0
        /\ skipped' = skipped
    BY <2>1, Clears
  <2>3. SchedulerTypeOK'
    BY <1>10, <1>0, <2>2 DEF StopScheduler, SchedulerTypeOK
  <2>4. OneTimerEach' /\ NoneForgotten'
    BY <1>10, <2>2 DEF StopScheduler, OneTimerEach, NoneForgotten
  <2> QED
    BY <2>3, <2>4 DEF SInv, Scheduled
<1> QED
  BY <1>1, <1>2, <1>3, <1>4, <1>5, <1>6, <1>7, <1>8, <1>9, <1>10 DEF SchedulerNext

LEMMA SInvAlways == SchedulerSpec => []SInv
<1> QED
  BY SInvInit, SInvNext, PTL DEF SchedulerSpec

(* Every variable of the scheduler keeps its type.                         *)
THEOREM SchedulerTypeCorrect == SchedulerSpec => []SchedulerTypeOK
<1>1. SInv => SchedulerTypeOK
  BY DEF SInv
<1> QED
  BY <1>1, SInvAlways, PTL

(* Whatever is called while commands run, and whichever schedules turn out *)
(* to have no next run, each task has at most one timer, which stop() and  *)
(* disableTask() can clear, and a task that is listed and enabled has its  *)
(* next run to come, but for one that has none or that a start() which     *)
(* threw has not reached (scheduler.ts: scheduleNext, start, execute).     *)
THEOREM TasksAreScheduled == SchedulerSpec => []Scheduled
<1>1. SInv => Scheduled
  BY DEF SInv
<1> QED
  BY <1>1, SInvAlways, PTL

-----------------------------------------------------------------------------
(***************************************************************************)
(* Proofs about MessageRouter, for any agents and any length of the log:   *)
(* what the router promises about each message (Routed).                   *)
(*                                                                         *)
(* Routed is not inductive.  At the end of a turn an iterator is given the *)
(* whole queue of its agent, so the follow-ups it has must be older than   *)
(* those in the queue, and what it has must not be queued: this is         *)
(* NotOvertaken and Given.  It holds because an iterator hears one agent   *)
(* only (OneAgent).                                                        *)
(***************************************************************************)
FollowUp(m) == log[m].delivery = "followUp"

OneAgent ==
  \A a, b \in Agent : \A s \in handlers[a] \cap handlers[b] : a = b

Given ==
  \A s \in Subscriber : \A i \in DOMAIN received[s] :
    received[s][i] \in DOMAIN log /\ log[received[s][i]].delivered

NotOvertaken ==
  \A a \in Agent : \A s \in handlers[a] : \A i \in DOMAIN received[s] :
    FollowUp(received[s][i]) => \A j \in DOMAIN queue[a] : received[s][i] < queue[a][j]

RInv == RouterTypeOK /\ Routed /\ OneAgent /\ Given /\ NotOvertaken

LEMMA RInvInit == RouterInit => RInv
<1> SUFFICES ASSUME RouterInit PROVE RInv
  OBVIOUS
<1>1. RouterTypeOK
  BY RouterAssumption DEF RouterInit, RouterTypeOK
<1>2. (\A a \in Agent : queue[a] = <<>> /\ handlers[a] = {})
      /\ \A s \in Subscriber : received[s] = <<>>
  BY DEF RouterInit
<1>3. Routed
  BY <1>2 DEF Routed, QueuedInOrder, FollowUpsInOrder, NoneSurvivesTurn
<1>4. OneAgent /\ Given /\ NotOvertaken
  BY <1>2 DEF OneAgent, Given, NotOvertaken
<1> QED
  BY <1>1, <1>3, <1>4 DEF RInv

(* What an iterator has been given after a delivery.                       *)
LEMMA Gets ==
  ASSUME RouterTypeOK, NEW a \in Agent, NEW msgs \in Seq(MessageId),
         Deliver(a, msgs), NEW s \in Subscriber
  PROVE  /\ received'[s] \in Seq(MessageId)
         /\ s \notin handlers[a] => received'[s] = received[s]
         /\ s \in handlers[a] =>
              LET n == Len(received[s]) IN
              /\ Len(received'[s]) = n + Len(msgs)
              /\ \A i \in 1..n : received'[s][i] = received[s][i]
              /\ \A i \in (n + 1)..(n + Len(msgs)) : received'[s][i] = msgs[i - n]
<1>1. received[s] \in Seq(MessageId)
  BY DEF RouterTypeOK
<1>2. received'[s] = IF s \in handlers[a] THEN received[s] \o msgs ELSE received[s]
  BY DEF Deliver
<1>3. /\ received[s] \o msgs \in Seq(MessageId)
      /\ Len(received[s] \o msgs) = Len(received[s]) + Len(msgs)
      /\ \A i \in 1..(Len(received[s]) + Len(msgs)) :
           (received[s] \o msgs)[i] = IF i <= Len(received[s]) THEN received[s][i]
                                      ELSE msgs[i - Len(received[s])]
  BY <1>1
<1> QED
  BY <1>1, <1>2, <1>3

LEMMA GetsType ==
  ASSUME RouterTypeOK, NEW a \in Agent, NEW msgs \in Seq(MessageId), Deliver(a, msgs)
  PROVE  received' \in [Subscriber -> Seq(MessageId)]
<1>1. \A s \in Subscriber : received'[s] \in Seq(MessageId)
  BY Gets
<1> QED
  BY <1>1 DEF Deliver

-----------------------------------------------------------------------------
(* send(): a message that is delivered at once is no follow-up, and one    *)
(* that is queued is younger than all others.                              *)
LEMMA SendKeeps ==
  ASSUME RInv, NEW a \in Agent, NEW d \in Delivery, Send(a, d)
  PROVE  RInv'
<1> USE DEF RInv
<1> DEFINE n == Len(log) + 1
           new == [to |-> a, delivery |-> d, delivered |-> AtOnce(a, d), turn |-> turn[a]]
<1>1. /\ log' = Append(log, new) /\ new \in Message
      /\ n \in MessageId /\ log \in Seq(Message)
  <2>1. AtOnce(a, d) \in BOOLEAN
    BY DEF AtOnce
  <2>2. new \in Message
    BY <2>1 DEF Message, RouterTypeOK
  <2> QED
    BY <2>2, RouterAssumption DEF Send, RouterTypeOK, MessageId
<1> HIDE DEF new
<1>2. /\ log' \in Seq(Message) /\ DOMAIN log' = 1..n /\ DOMAIN log = 1..(n - 1)
      /\ \A m \in DOMAIN log : m \in DOMAIN log' /\ log'[m] = log[m] /\ m < n
      /\ log'[n] = new /\ n \in Nat \ {0} /\ Len(log') <= MaxMessages
  BY <1>1, RouterAssumption DEF RouterTypeOK, MessageId
<1> HIDE DEF n
<1>3. handlers' = handlers /\ turn' = turn /\ agentState' = agentState
  BY DEF Send
<1>4. \A b \in Agent : queue[b] \in Seq(MessageId)
  BY DEF RouterTypeOK
<1>5. CASE AtOnce(a, d)
  <2>1. Deliver(a, <<n>>) /\ queue' = queue /\ <<n>> \in Seq(MessageId)
    BY <1>1, <1>5 DEF Send, n
  <2>2. d # "followUp" /\ new.delivered /\ new.delivery = d
    BY <1>5 DEF AtOnce, new
  <2>3. ASSUME NEW s \in Subscriber, NEW i \in DOMAIN received'[s]
        PROVE  \/ /\ i \in DOMAIN received[s] /\ received'[s][i] = received[s][i]
               \/ /\ received'[s][i] = n
                  /\ \A j \in DOMAIN received'[s] : j # i =>
                       j \in DOMAIN received[s] /\ received'[s][j] = received[s][j]
                                                /\ j < i
    <3>1. received[s] \in Seq(MessageId) /\ received'[s] \in Seq(MessageId)
      BY <2>1, Gets DEF RouterTypeOK
    <3>2. CASE s \notin handlers[a]
      BY <2>1, <3>2, Gets
    <3>3. CASE s \in handlers[a]
      <4>1. /\ Len(received'[s]) = Len(received[s]) + 1
            /\ \A j \in 1..Len(received[s]) : received'[s][j] = received[s][j]
            /\ received'[s][Len(received[s]) + 1] = n
        <5>1. received'[s] = received[s] \o <<n>>
          BY <2>1, <3>3 DEF Deliver
        <5> QED
          BY <2>1, <3>1, <5>1
      <4>2. DOMAIN received'[s] = 1..(Len(received[s]) + 1)
            /\ DOMAIN received[s] = 1..Len(received[s]) /\ Len(received[s]) \in Nat
        BY <3>1, <4>1
      <4>3. CASE i \in 1..Len(received[s])
        BY <4>1, <4>2, <4>3
      <4>4. CASE i = Len(received[s]) + 1
        BY <4>1, <4>2, <4>4
      <4> QED
        BY <4>2, <4>3, <4>4
    <3> QED
      BY <3>2, <3>3
  <2>4. RouterTypeOK'
    BY <1>2, <1>3, <2>1, GetsType DEF RouterTypeOK
  <2>5. QueuedInOrder' /\ NoneSurvivesTurn'
    BY <1>2, <1>3, <2>1 DEF Routed, QueuedInOrder, NoneSurvivesTurn
  <2>6. Given'
    <3> SUFFICES ASSUME NEW s \in Subscriber, NEW i \in DOMAIN received'[s]
                 PROVE  received'[s][i] \in DOMAIN log'
                        /\ log'[received'[s][i]].delivered
      BY DEF Given
    <3>1. CASE i \in DOMAIN received[s] /\ received'[s][i] = received[s][i]
      BY <1>2, <3>1 DEF Given
    <3>2. CASE received'[s][i] = n
      BY <1>2, <2>2, <3>2
    <3> QED
      BY <2>3, <3>1, <3>2
  <2>7. FollowUpsInOrder'
    <3> SUFFICES ASSUME NEW s \in Subscriber, NEW i \in DOMAIN received'[s],
                        NEW j \in DOMAIN received'[s], i < j
                 PROVE  /\ received'[s][i] # received'[s][j]
                        /\ received'[s][i] \in DOMAIN log'
                        /\ received'[s][j] \in DOMAIN log'
                        /\ (/\ log'[received'[s][i]].delivery = "followUp"
                            /\ log'[received'[s][j]].delivery = "followUp")
                             => received'[s][i] < received'[s][j]
      BY DEF FollowUpsInOrder
    <3>1. received'[s] \in Seq(MessageId) /\ i \in Nat /\ j \in Nat
      <4>1. received'[s] \in Seq(MessageId)
        BY <2>4 DEF RouterTypeOK
      <4> QED
        BY <4>1
    <3>2. received'[s][i] \in DOMAIN log' /\ received'[s][j] \in DOMAIN log'
      BY <2>6 DEF Given
    <3>3. i \in DOMAIN received[s] /\ received'[s][i] = received[s][i]
      BY <2>3, <3>1
    <3>4. received[s][i] \in DOMAIN log
      BY <3>3 DEF Given
    <3>5. CASE received'[s][j] = n
      BY <1>2, <2>2, <3>2, <3>3, <3>4, <3>5
    <3>6. CASE j \in DOMAIN received[s] /\ received'[s][j] = received[s][j]
      BY <1>2, <3>2, <3>3, <3>6 DEF Routed, FollowUpsInOrder
    <3> QED
      BY <2>3, <3>5, <3>6
  <2>8. NotOvertaken'
    <3> SUFFICES ASSUME NEW b \in Agent, NEW s \in handlers[b],
                        NEW i \in DOMAIN received'[s],
                        log'[received'[s][i]].delivery = "followUp",
                        NEW j \in DOMAIN queue[b]
                 PROVE  received'[s][i] < queue[b][j]
      BY <1>3, <2>1 DEF NotOvertaken, FollowUp
    <3>1. s \in Subscriber
      BY DEF RouterTypeOK
    <3>2. received'[s][i] # n
      BY <1>2, <2>2
    <3>3. i \in DOMAIN received[s] /\ received'[s][i] = received[s][i]
      BY <2>3, <3>1, <3>2
    <3>4. received[s][i] \in DOMAIN log
      BY <3>1, <3>3 DEF Given
    <3> QED
      BY <1>2, <3>3, <3>4 DEF NotOvertaken, FollowUp
  <2> QED
    BY <1>3, <2>4, <2>5, <2>6, <2>7, <2>8 DEF Routed, OneAgent
<1>6. CASE ~AtOnce(a, d)
  <2>1. queue' = [queue EXCEPT ![a] = Append(@, n)] /\ received' = received
    BY <1>6 DEF Send, n
  <2>2. new.to = a /\ ~new.delivered /\ new.turn = turn[a]
    BY <1>6 DEF new
  <2>3. queue' \in [Agent -> Seq(MessageId)]
    BY <1>1, <2>1 DEF RouterTypeOK
  <2>4. ASSUME NEW b \in Agent, NEW i \in DOMAIN queue'[b]
        PROVE  \/ i \in DOMAIN queue[b] /\ queue'[b][i] = queue[b][i]
               \/ /\ b = a /\ queue'[b][i] = n
                  /\ \A j \in DOMAIN queue'[b] : j <= i
    <3>1. queue[b] \in Seq(MessageId)
      BY <1>4
    <3>2. queue'[b] = IF b = a THEN Append(queue[b], n) ELSE queue[b]
      BY <2>1 DEF RouterTypeOK
    <3> QED
      BY <3>1, <3>2
  <2>5. \A b \in Agent : \A i \in DOMAIN queue[b] : queue[b][i] \in DOMAIN log
    BY DEF Routed, QueuedInOrder
  <2>6. RouterTypeOK'
    BY <1>2, <1>3, <2>1, <2>3 DEF RouterTypeOK
  <2>7. QueuedInOrder'
    <3> SUFFICES ASSUME NEW b \in Agent, NEW i \in DOMAIN queue'[b]
                 PROVE  /\ queue'[b][i] \in DOMAIN log'
                        /\ log'[queue'[b][i]].to = b
                        /\ ~log'[queue'[b][i]].delivered
                        /\ \A j \in DOMAIN queue'[b] : i < j => queue'[b][i] < queue'[b][j]
      BY DEF QueuedInOrder
    <3>1. DOMAIN queue'[b] \subseteq Nat
      BY <2>3
    <3>2. CASE i \in DOMAIN queue[b] /\ queue'[b][i] = queue[b][i]
      <4>1. /\ queue[b][i] \in DOMAIN log /\ log[queue[b][i]].to = b
            /\ ~log[queue[b][i]].delivered
        BY <3>2 DEF Routed, QueuedInOrder
      <4>2. ASSUME NEW j \in DOMAIN queue'[b], i < j
            PROVE  queue'[b][i] < queue'[b][j]
        <5>1. CASE queue'[b][j] = n
          BY <1>2, <3>2, <4>1, <5>1
        <5>2. CASE j \in DOMAIN queue[b] /\ queue'[b][j] = queue[b][j]
          BY <3>2, <4>2, <5>2 DEF Routed, QueuedInOrder
        <5> QED
          BY <2>4, <5>1, <5>2
      <4> QED
        BY <1>2, <3>2, <4>1, <4>2
    <3>3. CASE b = a /\ queue'[b][i] = n /\ \A j \in DOMAIN queue'[b] : j <= i
      <4>1. n \in DOMAIN log' /\ log'[n].to = a /\ ~log'[n].delivered
        BY <1>2, <2>2
      <4>2. \A j \in DOMAIN queue'[b] : ~(i < j)
        BY <3>1, <3>3
      <4> QED
        BY <3>3, <4>1, <4>2
    <3> QED
      BY <2>4, <3>2, <3>3
  <2>8. NoneSurvivesTurn'
    <3> SUFFICES ASSUME NEW b \in Agent, NEW i \in DOMAIN queue'[b]
                 PROVE  log'[queue'[b][i]].turn = turn[b]
      BY <1>3 DEF NoneSurvivesTurn
    <3> QED
      BY <1>2, <2>2, <2>4, <2>5 DEF Routed, NoneSurvivesTurn
  <2>9. Given' /\ FollowUpsInOrder'
    BY <1>2, <2>1 DEF Given, Routed, FollowUpsInOrder
  <2>10. NotOvertaken'
    <3> SUFFICES ASSUME NEW b \in Agent, NEW s \in handlers[b],
                        NEW i \in DOMAIN received[s],
                        log'[received[s][i]].delivery = "followUp",
                        NEW j \in DOMAIN queue'[b]
                 PROVE  received[s][i] < queue'[b][j]
      BY <1>3, <2>1 DEF NotOvertaken, FollowUp
    <3>1. received[s][i] \in DOMAIN log
      BY DEF RouterTypeOK, Given
    <3> QED
      BY <1>2, <2>4, <3>1 DEF NotOvertaken, FollowUp
  <2> QED
    BY <1>3, <2>6, <2>7, <2>8, <2>9, <2>10 DEF Routed, OneAgent
<1> QED
  BY <1>5, <1>6

(* The end of a turn: what the iterators of the agent have is older than   *)
(* what they are given, and none of it is the same message.                *)
LEMMA TurnEnds ==
  ASSUME RInv, NEW a \in Agent, SetAgentState(a, "idle"), Streaming(a)
  PROVE  RInv'
<1> USE DEF RInv
<1>1. /\ turn' = [turn EXCEPT ![a] = @ + 1]
      /\ log' = [m \in DOMAIN log |->
                   IF \E i \in DOMAIN queue[a] : queue[a][i] = m
                   THEN [log[m] EXCEPT !.delivered = TRUE] ELSE log[m]]
      /\ Deliver(a, queue[a]) /\ queue' = [queue EXCEPT ![a] = <<>>]
      /\ handlers' = handlers /\ agentState' = [agentState EXCEPT ![a] = "idle"]
  BY DEF SetAgentState
<1>2. log \in Seq(Message) /\ \A b \in Agent : queue[b] \in Seq(MessageId)
  BY DEF RouterTypeOK
<1>3. DOMAIN log' = DOMAIN log /\ log' \in Seq(Message) /\ Len(log') = Len(log)
  <2>1. \A m \in DOMAIN log : log'[m] \in Message
    <3> SUFFICES ASSUME NEW m \in DOMAIN log PROVE log'[m] \in Message
      OBVIOUS
    <3>1. log[m] \in Message
      BY <1>2
    <3>2. [log[m] EXCEPT !.delivered = TRUE] \in Message
      BY <3>1 DEF Message
    <3>3. log'[m] = log[m] \/ log'[m] = [log[m] EXCEPT !.delivered = TRUE]
      BY <1>1
    <3> QED
      BY <3>1, <3>2, <3>3
  <2>2. DOMAIN log' = 1..Len(log) /\ Len(log) \in Nat
    BY <1>1, <1>2
  <2> QED
    BY <1>1, <1>2, <2>1, <2>2
<1>4. ASSUME NEW m \in DOMAIN log
      PROVE  /\ log'[m].to = log[m].to /\ log'[m].delivery = log[m].delivery
             /\ log'[m].turn = log[m].turn
             /\ log[m].delivered => log'[m].delivered
             /\ (\E i \in DOMAIN queue[a] : queue[a][i] = m) => log'[m].delivered
             /\ log[m].to # a => log'[m] = log[m]
  <2>1. log[m] \in Message
    BY <1>2
  <2>2. (\E i \in DOMAIN queue[a] : queue[a][i] = m) => log[m].to = a
    BY DEF Routed, QueuedInOrder
  <2> QED
    BY <1>1, <2>1, <2>2 DEF Message
<1>5. \A b \in Agent : queue'[b] = IF b = a THEN <<>> ELSE queue[b]
  BY <1>1 DEF RouterTypeOK
<1>6. RouterTypeOK'
  <2>1. received' \in [Subscriber -> Seq(MessageId)]
    BY <1>1, <1>2, GetsType
  <2>2. queue' \in [Agent -> Seq(MessageId)]
    BY <1>1 DEF RouterTypeOK
  <2> QED
    BY <1>1, <1>3, <2>1, <2>2 DEF RouterTypeOK
<1>7. QueuedInOrder'
  BY <1>3, <1>4, <1>5 DEF Routed, QueuedInOrder
<1>8. NoneSurvivesTurn'
  <2> SUFFICES ASSUME NEW b \in Agent, NEW i \in DOMAIN queue'[b]
               PROVE  log'[queue'[b][i]].turn = turn'[b]
    BY DEF NoneSurvivesTurn
  <2>1. b # a /\ queue'[b] = queue[b] /\ turn'[b] = turn[b]
    BY <1>1, <1>5 DEF RouterTypeOK
  <2>2. queue[b][i] \in DOMAIN log
    BY <2>1 DEF Routed, QueuedInOrder
  <2> QED
    BY <1>4, <2>1, <2>2 DEF Routed, NoneSurvivesTurn
<1>9. ASSUME NEW s \in Subscriber, NEW i \in DOMAIN received'[s]
      PROVE  \/ i \in DOMAIN received[s] /\ received'[s][i] = received[s][i]
             \/ /\ s \in handlers[a] /\ i > Len(received[s])
                /\ i - Len(received[s]) \in DOMAIN queue[a]
                /\ received'[s][i] = queue[a][i - Len(received[s])]
  <2> DEFINE n == Len(received[s])
  <2>1. received[s] \in Seq(MessageId) /\ queue[a] \in Seq(MessageId)
    BY DEF RouterTypeOK
  <2>2. CASE s \notin handlers[a]
    BY <1>1, <2>2 DEF Deliver
  <2>3. CASE s \in handlers[a]
    <3>1. received'[s] = received[s] \o queue[a]
      BY <1>1, <2>3 DEF Deliver
    <3>2. /\ DOMAIN received'[s] = 1..(n + Len(queue[a])) /\ n \in Nat
          /\ DOMAIN received[s] = 1..n /\ DOMAIN queue[a] = 1..Len(queue[a])
          /\ Len(queue[a]) \in Nat
      BY <2>1, <3>1
    <3>3. CASE i \in 1..n
      BY <2>1, <3>1, <3>2, <3>3
    <3>4. CASE i \in (n + 1)..(n + Len(queue[a]))
      <4>1. received'[s][i] = queue[a][i - n]
        BY <2>1, <3>1, <3>2, <3>4
      <4>2. i > n /\ i - n \in 1..Len(queue[a])
        <5> DEFINE q == Len(queue[a])
        <5>1. n \in Nat /\ q \in Nat /\ i \in (n + 1)..(n + q)
          BY <3>2, <3>4
        <5> HIDE DEF n, q
        <5>2. i > n /\ i - n \in 1..q
          BY <5>1
        <5> QED
          BY <5>2 DEF n, q
      <4> QED
        BY <2>3, <3>2, <4>1, <4>2
    <3> QED
      <4>1. i \in 1..n \/ i \in (n + 1)..(n + Len(queue[a]))
        <5> DEFINE q == Len(queue[a])
        <5>1. n \in Nat /\ q \in Nat /\ i \in 1..(n + q)
          BY <3>2
        <5> HIDE DEF n, q
        <5>2. i \in 1..n \/ i \in (n + 1)..(n + q)
          BY <5>1
        <5> QED
          BY <5>2 DEF n, q
      <4> QED
        BY <3>3, <3>4, <4>1
  <2> QED
    BY <2>2, <2>3
<1>10. Given'
  <2> SUFFICES ASSUME NEW s \in Subscriber, NEW i \in DOMAIN received'[s]
               PROVE  received'[s][i] \in DOMAIN log'
                      /\ log'[received'[s][i]].delivered
    BY DEF Given
  <2>1. CASE i \in DOMAIN received[s] /\ received'[s][i] = received[s][i]
    BY <1>3, <1>4, <2>1 DEF Given
  <2>2. CASE \E k \in DOMAIN queue[a] : received'[s][i] = queue[a][k]
    <3>1. received'[s][i] \in DOMAIN log
      BY <2>2 DEF Routed, QueuedInOrder
    <3> QED
      BY <1>3, <1>4, <2>2, <3>1
  <2> QED
    BY <1>9, <2>1, <2>2
<1>11. FollowUpsInOrder'
  <2> SUFFICES ASSUME NEW s \in Subscriber, NEW i \in DOMAIN received'[s],
                      NEW j \in DOMAIN received'[s], i < j
               PROVE  /\ received'[s][i] # received'[s][j]
                      /\ received'[s][i] \in DOMAIN log'
                      /\ received'[s][j] \in DOMAIN log'
                      /\ (/\ log'[received'[s][i]].delivery = "followUp"
                          /\ log'[received'[s][j]].delivery = "followUp")
                           => received'[s][i] < received'[s][j]
    BY DEF FollowUpsInOrder
  <2> DEFINE n == Len(received[s])
  <2>1. /\ received'[s][i] \in DOMAIN log' /\ received'[s][j] \in DOMAIN log'
        /\ received'[s][i] \in DOMAIN log /\ received'[s][j] \in DOMAIN log
    BY <1>3, <1>10 DEF Given
  <2>2. i \in Nat /\ j \in Nat /\ n \in Nat /\ DOMAIN received[s] = 1..n
    <3>1. received'[s] \in Seq(MessageId) /\ received[s] \in Seq(MessageId)
      BY <1>6 DEF RouterTypeOK
    <3> QED
      BY <3>1
  <2>3. CASE j \in DOMAIN received[s] /\ received'[s][j] = received[s][j]
    <3>1. i \in DOMAIN received[s] /\ received'[s][i] = received[s][i]
      BY <1>9, <2>2, <2>3
    <3> QED
      BY <1>4, <2>1, <2>3, <3>1 DEF Routed, FollowUpsInOrder
  <2>4. CASE /\ i \in DOMAIN received[s] /\ received'[s][i] = received[s][i]
             /\ s \in handlers[a]
             /\ \E k \in DOMAIN queue[a] : received'[s][j] = queue[a][k]
    <3>1. PICK k \in DOMAIN queue[a] : received'[s][j] = queue[a][k]
      BY <2>4
    <3>2. log[received[s][i]].delivered /\ ~log[queue[a][k]].delivered
      BY <2>4 DEF Given, Routed, QueuedInOrder
    <3>3. FollowUp(received[s][i]) => received[s][i] < queue[a][k]
      BY <2>4 DEF NotOvertaken
    <3> QED
      BY <1>4, <2>1, <2>4, <3>1, <3>2, <3>3 DEF FollowUp
  <2>5. CASE /\ i - n \in DOMAIN queue[a] /\ received'[s][i] = queue[a][i - n]
             /\ j - n \in DOMAIN queue[a] /\ received'[s][j] = queue[a][j - n]
    <3>1. i - n < j - n
      BY <2>2
    <3>2. queue[a][i - n] < queue[a][j - n]
      BY <2>5, <3>1 DEF Routed, QueuedInOrder
    <3>3. queue[a][i - n] \in MessageId /\ queue[a][j - n] \in MessageId
      BY <1>2, <2>5
    <3> QED
      BY <2>1, <2>5, <3>2, <3>3 DEF MessageId
  <2> QED
    BY <1>9, <2>2, <2>3, <2>4, <2>5
<1>12. NotOvertaken'
  <2> SUFFICES ASSUME NEW b \in Agent, NEW s \in handlers[b],
                      NEW i \in DOMAIN received'[s],
                      log'[received'[s][i]].delivery = "followUp",
                      NEW j \in DOMAIN queue'[b]
               PROVE  received'[s][i] < queue'[b][j]
    BY <1>1 DEF NotOvertaken, FollowUp
  <2>1. b # a /\ queue'[b] = queue[b]
    BY <1>5
  <2>2. s \notin handlers[a] /\ s \in Subscriber
    BY <2>1 DEF OneAgent, RouterTypeOK
  <2>3. received'[s] = received[s]
    BY <1>1, <2>2 DEF Deliver
  <2>4. received[s][i] \in DOMAIN log
    BY <2>2, <2>3 DEF Given
  <2> QED
    BY <1>4, <2>1, <2>3, <2>4 DEF NotOvertaken, FollowUp
<1> QED
  BY <1>1, <1>6, <1>7, <1>8, <1>10, <1>11, <1>12 DEF Routed, OneAgent

LEMMA SetAgentStateKeeps ==
  ASSUME RInv, NEW a \in Agent, NEW st \in {"idle", "streaming"}, SetAgentState(a, st)
  PROVE  RInv'
<1>1. CASE st = "idle" /\ Streaming(a)
  BY <1>1, TurnEnds
<1>2. CASE ~(st = "idle" /\ Streaming(a))
  <2>1. UNCHANGED <<turn, log, queue, received, handlers>>
        /\ agentState' = [agentState EXCEPT ![a] = st]
    BY <1>2 DEF SetAgentState
  <2>2. RouterTypeOK'
    BY <2>1 DEF RInv, RouterTypeOK
  <2> QED
    BY <2>1, <2>2 DEF RInv, Routed, QueuedInOrder, FollowUpsInOrder,
                      NoneSurvivesTurn, OneAgent, Given, NotOvertaken, FollowUp
<1> QED
  BY <1>1, <1>2

-----------------------------------------------------------------------------
(* subscribe(), return() and clearAgent() change who listens, and queues   *)
(* only to empty them.                                                     *)
LEMMA ListenersKeep ==
  ASSUME RInv, UNCHANGED <<log, received, turn>>,
         RouterTypeOK',
         \A b \in Agent : queue'[b] = queue[b] \/ queue'[b] = <<>>,
         OneAgent',
         \A b \in Agent : \A s \in handlers'[b] :
           (s \in handlers[b]) \/ (received[s] = <<>>)
  PROVE  RInv'
<1> USE DEF RInv
<1>1. QueuedInOrder' /\ NoneSurvivesTurn'
  BY DEF Routed, QueuedInOrder, NoneSurvivesTurn
<1>2. FollowUpsInOrder' /\ Given'
  BY DEF Routed, FollowUpsInOrder, Given
<1>3. NotOvertaken'
  BY DEF NotOvertaken, FollowUp
<1> QED
  BY <1>1, <1>2, <1>3 DEF Routed

LEMMA SubscribeKeeps ==
  ASSUME RInv, NEW a \in Agent, NEW s \in Subscriber, Subscribe(a, s)
  PROVE  RInv'
<1>1. RouterTypeOK' /\ \A b \in Agent : queue'[b] = queue[b]
  BY DEF RInv, RouterTypeOK, Subscribe
<1>2. \A b \in Agent : handlers'[b] = IF b = a THEN handlers[b] \cup {s} ELSE handlers[b]
  BY DEF RInv, RouterTypeOK, Subscribe
<1>3. OneAgent'
  BY <1>2 DEF RInv, OneAgent, Subscribe
<1>4. received[s] = <<>> /\ UNCHANGED <<log, received, turn>>
  BY DEF Subscribe
<1> QED
  BY <1>1, <1>2, <1>3, <1>4, ListenersKeep

LEMMA FewerListeners ==
  ASSUME RInv, NEW a \in Agent,
         ClearAgent(a) \/ \E s \in Subscriber : ReturnIterator(a, s)
  PROVE  RInv'
<1>1. RouterTypeOK'
  <2>1. CASE ClearAgent(a)
    BY <2>1 DEF RInv, RouterTypeOK, ClearAgent
  <2>2. ASSUME NEW s \in Subscriber, ReturnIterator(a, s)
        PROVE  RouterTypeOK'
    BY <2>2 DEF RInv, RouterTypeOK, ReturnIterator
  <2> QED
    BY <2>1, <2>2
<1>2. \A b \in Agent : /\ queue'[b] = queue[b] \/ queue'[b] = <<>>
                       /\ handlers'[b] \subseteq handlers[b]
  BY DEF RInv, RouterTypeOK, ClearAgent, ReturnIterator
<1>3. OneAgent'
  BY <1>2 DEF RInv, OneAgent
<1>4. UNCHANGED <<log, received, turn>>
  BY DEF ClearAgent, ReturnIterator
<1> QED
  BY <1>1, <1>2, <1>3, <1>4, ListenersKeep

LEMMA RouterStep == RInv /\ [RouterNext]_routerVars => RInv'
<1> SUFFICES ASSUME RInv, [RouterNext]_routerVars PROVE RInv'
  OBVIOUS
<1>1. CASE RouterCalls
  BY <1>1, SendKeeps, SubscribeKeeps, FewerListeners DEF RouterCalls
<1>2. ASSUME NEW a \in Agent, NEW st \in {"idle", "streaming"}, SetAgentState(a, st)
      PROVE  RInv'
  BY <1>2, SetAgentStateKeeps
<1>3. CASE UNCHANGED routerVars
  BY <1>3 DEF routerVars, RInv, RouterTypeOK, Routed, QueuedInOrder, FollowUpsInOrder,
              NoneSurvivesTurn, OneAgent, Given, NotOvertaken, FollowUp
<1> QED
  BY <1>1, <1>2, <1>3 DEF RouterNext

(* Whoever sends, listens and stops listening, and however the turns of    *)
(* the agents end: what is queued is undelivered, in the order of sending  *)
(* and of the current turn, and no iterator is given a message twice or a  *)
(* follow-up before an older one.                                          *)
THEOREM MessagesAreRouted == RouterSpec => []Routed
<1>1. RInv => Routed
  BY DEF RInv
<1> QED
  BY RInvInit, RouterStep, <1>1, PTL DEF RouterSpec

-----------------------------------------------------------------------------
(***************************************************************************)
(* Proofs about PlanHost, for any plans, executors and clients: executors  *)
(* that have ended are not in the map, and a plan has one executor at a    *)
(* time unless it has been started while another was still at work.        *)
(*                                                                         *)
(* InMap is not inductive: a stopped executor takes its successor out of   *)
(* the map when it ends.  What keeps it is Alone, that nothing lingers     *)
(* beside the executor in the map, and early says where it fails.          *)
(***************************************************************************)
(* Completion handlers belong to an executor that has been started.        *)
HandlersStarted == \A r \in Run : run[r].handlers => run[r].at # "new"

(* No stopped executor of p is at work beside the one in the map.          *)
Alone(p) == executors[p] # NoRun =>
              \A r \in Run : r # executors[p] => ~Lingers(r, p)

MapInv == /\ MapIsLive
          /\ HandlersStarted
          /\ \A p \in Plan : ~early[p] => InMap(p) /\ Alone(p)

HInv == HostTypeOK /\ MapInv

USE HostAssumption

-----------------------------------------------------------------------------
(* Types.                                                                  *)

LEMMA InitType == HostInit => HostTypeOK
<1> QED
  BY DEF HostInit, HostTypeOK, RunRec, HostCall, PlanState

(* A command begins.                                                       *)
LEMMA NewCallType ==
  ASSUME HostTypeOK, NEW c \in HostClient, NEW p \in Plan,
         NEW op \in {"execute", "resume", "cancel", "delete"},
         NEW at \in {"loading", "deleting"}, NewCall(c, op, p, at)
  PROVE  hostCall' \in [HostClient -> HostCall] /\ hostCalls' \in 0..MaxHostCalls
<1> QED
  BY DEF NewCall, HostTypeOK, HostCall, PlanState

(* A command goes on or has ended.                                         *)
LEMMA CallType ==
  ASSUME HostTypeOK, NEW c \in HostClient,
         NEW at \in {"idle", "loading", "loaded", "saving", "deleting"},
         hostCall' = [hostCall EXCEPT ![c].at = at]
  PROVE  hostCall' \in [HostClient -> HostCall]
<1> QED
  BY DEF HostTypeOK, HostCall

LEMMA StopType ==
  ASSUME HostTypeOK, NEW p \in Plan, StopExecutor(p)
  PROVE  executors' \in [Plan -> Run \cup {NoRun}] /\ run' \in [Run -> RunRec]
<1> QED
  BY DEF HostTypeOK, StopExecutor, RunRec

LEMMA StartType ==
  ASSUME HostTypeOK, NEW p \in Plan, StartExecutor(p)
  PROVE  executors' \in [Plan -> Run \cup {NoRun}] /\ run' \in [Run -> RunRec]
<1> QED
  BY DEF HostTypeOK, StartExecutor, RunRec, PlanState

LEMMA CommandType ==
  ASSUME HostTypeOK, NEW c \in HostClient, CommandStep(c)
  PROVE  HostTypeOK'
<1> DEFINE p0 == hostCall[c].plan
<1>0. p0 \in Plan /\ hostCall[c] \in HostCall
  BY DEF HostTypeOK, HostCall
<1>1. ASSUME NEW p \in Plan, Execute(c, p) PROVE HostTypeOK'
  BY <1>1, NewCallType DEF Execute, HostTypeOK
<1>2. ASSUME NEW p \in Plan, Cancel(c, p) PROVE HostTypeOK'
  BY <1>2, NewCallType DEF Cancel, HostTypeOK
<1>3. ASSUME NEW p \in Plan, Delete(c, p) PROVE HostTypeOK'
  BY <1>3, NewCallType, StopType DEF Delete, HostTypeOK
<1>4. ASSUME NEW p \in Plan, Pause(c, p) PROVE HostTypeOK'
  BY <1>4 DEF Pause, HostTypeOK, RunRec, PlanState
<1>5. ASSUME NEW p \in Plan, Resume(c, p) PROVE HostTypeOK'
  BY <1>5, NewCallType DEF Resume, HostTypeOK
<1>6. CASE Read(c)
  BY <1>6, ZenonT(40) DEF Read, HostTypeOK, HostCall
<1>7. CASE NotFound(c)
  BY <1>7, CallType DEF NotFound, Finish, HostTypeOK
<1>8. CASE FoundExecute(c)
  <2>1. hostCall' \in [HostClient -> HostCall]
    BY <1>8, CallType DEF FoundExecute, Finish
  <2>2. executors' \in [Plan -> Run \cup {NoRun}] /\ run' \in [Run -> RunRec]
    BY <1>0, <1>8, StartType DEF FoundExecute, HostTypeOK
  <2>3. early' \in [Plan -> BOOLEAN]
    BY <1>0, <1>8 DEF FoundExecute, HostTypeOK
  <2> QED
    BY <1>8, <2>1, <2>2, <2>3 DEF FoundExecute, HostTypeOK
<1>9. CASE FoundCancel(c)
  BY <1>0, <1>9, CallType, StopType DEF FoundCancel, Await, HostTypeOK
<1>10. CASE FoundResume(c)
  BY <1>10, CallType DEF FoundResume, Finish, Await, HostTypeOK
<1>11. CASE SavedResumed(c)
  <2>1. hostCall' \in [HostClient -> HostCall]
    BY <1>11, CallType DEF SavedResumed, Finish
  <2>2. executors' \in [Plan -> Run \cup {NoRun}] /\ run' \in [Run -> RunRec]
    BY <1>0, <1>11, StartType DEF SavedResumed
  <2>3. early' \in [Plan -> BOOLEAN] /\ planFile' \in [Plan -> PlanState]
    BY <1>0, <1>11 DEF SavedResumed, HostTypeOK, PlanState
  <2> QED
    BY <1>11, <2>1, <2>2, <2>3 DEF SavedResumed, HostTypeOK
<1>12. CASE SavedCancelled(c)
  BY <1>12, CallType DEF SavedCancelled, Finish, HostTypeOK, PlanState
<1>13. CASE Deleted(c)
  BY <1>13, CallType DEF Deleted, Finish, HostTypeOK, PlanState
<1> QED
  BY <1>1, <1>2, <1>3, <1>4, <1>5, <1>6, <1>7, <1>8, <1>9, <1>10, <1>11, <1>12,
     <1>13 DEF CommandStep

LEMMA ExecutorType ==
  ASSUME HostTypeOK, NEW r \in Run, ExecutorStep(r)
  PROVE  HostTypeOK'
<1>0. run[r] \in RunRec
  BY DEF HostTypeOK
<1>1. CASE Boot(r)
  BY <1>0, <1>1 DEF Boot, HostTypeOK, RunRec, PlanState
<1>2. CASE HandlerBegins(r)
  BY <1>0, <1>2 DEF HandlerBegins, HostTypeOK, RunRec, PlanState
<1>6. CASE HandlersEnd(r)
  BY <1>0, <1>6 DEF HandlersEnd, HostTypeOK, RunRec, PlanState
<1>7. CASE Resumed(r)
  BY <1>0, <1>7 DEF Resumed, HostTypeOK, RunRec, PlanState
<1>3. CASE SavePlan(r)
  BY <1>0, <1>3 DEF SavePlan, HostTypeOK, RunRec
<1>4. CASE Complete(r)
  BY <1>0, <1>4 DEF Complete, HostTypeOK, RunRec, PlanState
<1>5. CASE End(r)
  BY <1>0, <1>5 DEF End, OutOfMap, HostTypeOK, RunRec
<1> QED
  BY <1>1, <1>2, <1>3, <1>4, <1>5, <1>6, <1>7 DEF ExecutorStep

(* Every step keeps the types.                                             *)
LEMMA StepType == HostTypeOK /\ [HostNext]_hostVars => HostTypeOK'
<1> SUFFICES ASSUME HostTypeOK, [HostNext]_hostVars PROVE HostTypeOK'
  OBVIOUS
<1>1. CASE UNCHANGED hostVars
  BY <1>1 DEF hostVars, HostTypeOK
<1>2. CASE HostNext
  BY <1>2, CommandType, ExecutorType DEF HostNext
<1> QED
  BY <1>1, <1>2

(* Every variable of the host keeps its type (station.ts:1119-1142).       *)
THEOREM HostTypeCorrect == HostSpec => []HostTypeOK
<1> QED
  BY InitType, StepType, PTL DEF HostSpec

-----------------------------------------------------------------------------
(* The map.                                                                *)

LEMMA InitMap == HostInit => MapInv
<1> QED
  BY DEF HostInit, MapInv, MapIsLive, HandlersStarted, InMap, Alone, Active, Lingers

(* A step that does not touch the map and at most the status of executors. *)
LEMMA QuietMap ==
  ASSUME HInv, UNCHANGED <<executors, early>>,
         \A r \in Run : /\ run'[r].plan = run[r].plan /\ run'[r].at = run[r].at
                        /\ run'[r].told = run[r].told
                        /\ run'[r].handlers = run[r].handlers
  PROVE  MapInv'
<1> QED
  BY DEF HInv, HostTypeOK, MapInv, MapIsLive, HandlersStarted, InMap, Alone,
         Active, Lingers

(* Stopping: whoever was active has been told, and the map is empty.       *)
LEMMA StopMap ==
  ASSUME HInv, NEW p \in Plan, StopExecutor(p), UNCHANGED early
  PROVE  MapInv'
<1>1. executors' = [executors EXCEPT ![p] = NoRun] /\ early' = early
  BY DEF StopExecutor
<1>2. \A r \in Run :
        /\ run'[r].plan = run[r].plan /\ run'[r].at = run[r].at
        /\ run'[r].handlers = run[r].handlers
        /\ run'[r].told = (run[r].told \/ r = executors[p])
  BY DEF HInv, HostTypeOK, StopExecutor, RunRec
<1>3. MapIsLive' /\ HandlersStarted'
  BY <1>1, <1>2 DEF HInv, HostTypeOK, MapInv, MapIsLive, HandlersStarted
<1>4. ASSUME NEW q \in Plan, ~early[q] PROVE InMap(q)' /\ Alone(q)'
  <2>1. InMap(q) /\ Alone(q)
    BY <1>4 DEF HInv, MapInv
  <2>2. CASE q = p
    BY <1>1, <1>2, <2>1, <2>2 DEF HInv, HostTypeOK, InMap, Alone, Active
  <2>3. CASE q # p
    <3>1. executors'[q] = executors[q]
      BY <1>1, <2>3 DEF HInv, HostTypeOK
    <3>2. \A r \in Run : run[r].plan = q => run'[r].told = run[r].told
      BY <1>2, <2>3 DEF HInv, HostTypeOK, RunRec, MapInv, MapIsLive
    <3> QED
      BY <1>2, <2>1, <3>1, <3>2 DEF InMap, Alone, Active, Lingers
  <2> QED
    BY <2>2, <2>3
<1> QED
  BY <1>1, <1>3, <1>4 DEF MapInv

(* Starting: alone unless early says otherwise.                            *)
LEMMA StartMap ==
  ASSUME HInv, NEW p \in Plan, StartExecutor(p),
         \A q \in Plan : ~early'[q] => ~early[q],
         ~early'[p] => \A r \in Run : ~Lingers(r, p) /\ ~Active(r, p)
  PROVE  MapInv'
<1>1. PICK n \in Run :
        /\ run[n].at = "new"
        /\ executors' = [executors EXCEPT ![p] = n]
        /\ run' = [run EXCEPT ![n] = [plan |-> p, at |-> "starting",
                                      status |-> "executing", told |-> FALSE,
                                      handlers |-> FALSE]]
  BY DEF StartExecutor
<1>2. /\ run'[n].plan = p /\ run'[n].at = "starting"
      /\ run'[n].told = FALSE /\ run'[n].handlers = FALSE
      /\ \A r \in Run : r # n => run'[r] = run[r]
  BY <1>1 DEF HInv, HostTypeOK
<1>3. \A q \in Plan : executors'[q] = IF q = p THEN n ELSE executors[q]
  BY <1>1 DEF HInv, HostTypeOK
<1>4. \A q \in Plan : executors[q] # n
  BY <1>1 DEF HInv, MapInv, MapIsLive
<1>5. MapIsLive'
  BY <1>2, <1>3, <1>4 DEF HInv, HostTypeOK, MapInv, MapIsLive
<1>6. HandlersStarted'
  BY <1>2 DEF HInv, MapInv, HandlersStarted
<1>7. ASSUME NEW q \in Plan, ~early'[q] PROVE InMap(q)' /\ Alone(q)'
  <2>1. InMap(q) /\ Alone(q)
    BY <1>7 DEF HInv, MapInv
  <2>2. CASE q = p
    BY <1>2, <1>3, <1>7, <2>2 DEF InMap, Alone, Active, Lingers
  <2>3. CASE q # p
    BY <1>2, <1>3, <1>4, <2>1, <2>3 DEF InMap, Alone, Active, Lingers
  <2> QED
    BY <2>2, <2>3
<1> QED
  BY <1>5, <1>6, <1>7 DEF MapInv

(* Out of the map: what leaves is what was there, if the plan was started  *)
(* when nothing lingered.                                                  *)
LEMMA OutMap ==
  ASSUME HInv, NEW r \in Run, AtWork(r) \/ run[r].at = "starting",
         executors' = [executors EXCEPT ![run[r].plan] = NoRun], UNCHANGED early,
         \A s \in Run : run'[s].plan = run[s].plan,
         \A s \in Run : s # r => run'[s] = run[s],
         run'[r].handlers = run[r].handlers,
         run'[r].told \/ run'[r].at = "ended",
         run'[r].at \in {run[r].at, "ended"}
  PROVE  MapInv'
<1> DEFINE p == run[r].plan
<1>1. p \in Plan /\ run[r].at # "new"
  BY DEF HInv, HostTypeOK, RunRec, MapInv, HandlersStarted, AtWork
<1>2. \A q \in Plan : executors'[q] = IF q = p THEN NoRun ELSE executors[q]
  BY DEF HInv, HostTypeOK
<1>3. MapIsLive'
  BY <1>2 DEF HInv, HostTypeOK, MapInv, MapIsLive
<1>4. HandlersStarted'
  BY <1>1 DEF HInv, MapInv, HandlersStarted
<1>5. ASSUME NEW q \in Plan, ~early[q] PROVE InMap(q)' /\ Alone(q)'
  <2>1. InMap(q) /\ Alone(q)
    BY <1>5 DEF HInv, MapInv
  <2>2. CASE q = p
    <3>1. ~Active(r, p)'
      BY DEF Active
    <3>2. executors[p] = NoRun \/ executors[p] = r
      BY <1>1, <2>1, <2>2 DEF InMap, Alone, Active, Lingers, AtWork
    <3>3. \A s \in Run : s # r => ~Active(s, p)
      BY <2>1, <2>2, <3>2 DEF InMap
    <3> QED
      BY <1>2, <2>2, <3>1, <3>3 DEF InMap, Alone, Active
  <2>3. CASE q # p
    BY <1>2, <2>1, <2>3 DEF InMap, Alone, Active, Lingers
  <2> QED
    BY <2>2, <2>3
<1> QED
  BY <1>3, <1>4, <1>5 DEF MapInv

LEMMA CommandMap ==
  ASSUME HInv, NEW c \in HostClient, CommandStep(c)
  PROVE  MapInv'
<1> DEFINE p0 == hostCall[c].plan
<1>0. p0 \in Plan
  BY DEF HInv, HostTypeOK, HostCall
<1>1. ASSUME NEW p \in Plan, Execute(c, p) \/ Cancel(c, p) \/ Resume(c, p)
      PROVE  MapInv'
  BY <1>1, QuietMap DEF Execute, Cancel, Resume
<1>2. ASSUME NEW p \in Plan, Delete(c, p) PROVE MapInv'
  BY <1>2, StopMap DEF Delete
<1>3. ASSUME NEW p \in Plan, Pause(c, p) PROVE MapInv'
  <2>1. UNCHANGED <<executors, early>>
    BY <1>3 DEF Pause
  <2>2. \A r \in Run : /\ run'[r].plan = run[r].plan /\ run'[r].at = run[r].at
                       /\ run'[r].told = run[r].told
                       /\ run'[r].handlers = run[r].handlers
    BY <1>3 DEF Pause, HInv, HostTypeOK, RunRec
  <2> QED
    BY <2>1, <2>2, QuietMap
<1>4. CASE Read(c) \/ NotFound(c) \/ FoundResume(c) \/ SavedCancelled(c) \/ Deleted(c)
  BY <1>4, QuietMap DEF Read, NotFound, FoundResume, SavedCancelled, Deleted
<1>5. CASE FoundExecute(c) /\ MayExecute(p0)
  <2>1. StartExecutor(p0)
    BY <1>5 DEF FoundExecute
  <2>2. \A q \in Plan : early'[q] = IF q = p0 THEN early[q] \/ \E r \in Run : Lingers(r, p0)
                                    ELSE early[q]
    BY <1>5 DEF FoundExecute, HInv, HostTypeOK
  <2>3. ~early[p0] => \A r \in Run : ~Active(r, p0)
    BY <1>0, <1>5 DEF MayExecute, HInv, MapInv, InMap
  <2>4. ~early'[p0] => \A r \in Run : ~Lingers(r, p0) /\ ~Active(r, p0)
    BY <1>0, <2>2, <2>3
  <2>5. \A q \in Plan : ~early'[q] => ~early[q]
    BY <2>2
  <2> QED
    BY <1>0, <2>1, <2>4, <2>5, StartMap
<1>6. CASE FoundExecute(c) /\ ~MayExecute(p0)
  BY <1>6, QuietMap DEF FoundExecute
<1>7. CASE FoundCancel(c)
  BY <1>0, <1>7, StopMap DEF FoundCancel
<1>8. CASE SavedResumed(c)
  <2>1. StartExecutor(p0)
    BY <1>8 DEF SavedResumed
  <2>2. \A q \in Plan : early'[q] = IF q = p0 THEN early[q] \/ \E r \in Run : Lingers(r, p0)
                                                                   \/ Active(r, p0)
                                    ELSE early[q]
    BY <1>8 DEF SavedResumed, HInv, HostTypeOK
  <2>3. ~early'[p0] => \A r \in Run : ~Lingers(r, p0) /\ ~Active(r, p0)
    BY <1>0, <2>2
  <2>4. \A q \in Plan : ~early'[q] => ~early[q]
    BY <2>2
  <2> QED
    BY <1>0, <2>1, <2>3, <2>4, StartMap
<1> QED
  BY <1>1, <1>2, <1>3, <1>4, <1>5, <1>6, <1>7, <1>8 DEF CommandStep

LEMMA ExecutorMap ==
  ASSUME HInv, NEW r \in Run, ExecutorStep(r)
  PROVE  MapInv'
<1>0. run \in [Run -> RunRec]
  BY DEF HInv, HostTypeOK
<1>1. CASE Boot(r) \/ HandlerBegins(r) \/ HandlersEnd(r)
  <2>1. UNCHANGED <<executors, early>>
    BY <1>1 DEF Boot, HandlerBegins, HandlersEnd
  <2>2. \A s \in Run : /\ run'[s].plan = run[s].plan /\ run'[s].told = run[s].told
                       /\ s # r => run'[s] = run[s]
    BY <1>0, <1>1 DEF Boot, HandlerBegins, HandlersEnd, RunRec
  <2>3. \/ run[r].at = "starting" /\ run'[r].at = "running"
           /\ run'[r].handlers = run[r].handlers
        \/ run[r].at = "running" /\ run'[r].at = "running"
        \/ run'[r].at = run[r].at /\ run[r].handlers /\ run'[r].handlers = FALSE
    BY <1>0, <1>1 DEF Boot, HandlerBegins, HandlersEnd, RunRec
  <2>4. MapIsLive'
    BY <2>1, <2>2, <2>3 DEF HInv, HostTypeOK, MapInv, MapIsLive
  <2>5. HandlersStarted'
    BY <2>2, <2>3 DEF HInv, MapInv, HandlersStarted
  <2>6. \A s \in Run, q \in Plan : /\ Active(s, q)' <=> Active(s, q)
                                   /\ Lingers(s, q)' => Lingers(s, q)
    BY <2>2, <2>3 DEF Active, Lingers
  <2>7. \A q \in Plan : ~early'[q] => InMap(q)' /\ Alone(q)'
    BY <2>1, <2>6 DEF HInv, MapInv, InMap, Alone
  <2> QED
    BY <2>4, <2>5, <2>7 DEF MapInv
<1>2. CASE Resumed(r) \/ SavePlan(r)
  <2>1. UNCHANGED <<executors, early>>
    BY <1>2 DEF Resumed, SavePlan
  <2>2. \A s \in Run : /\ run'[s].plan = run[s].plan /\ run'[s].at = run[s].at
                       /\ run'[s].told = run[s].told
                       /\ run'[s].handlers = run[s].handlers
    BY <1>0, <1>2 DEF Resumed, SavePlan, RunRec
  <2> QED
    BY <2>1, <2>2, QuietMap
<1>3. CASE Complete(r)
  <2>1. /\ \A s \in Run : run'[s].plan = run[s].plan
        /\ \A s \in Run : s # r => run'[s] = run[s]
        /\ run'[r].handlers = run[r].handlers
        /\ run'[r].told /\ run'[r].at = run[r].at
    BY <1>0, <1>3 DEF Complete, RunRec
  <2>2. AtWork(r) /\ UNCHANGED early
        /\ executors' = [executors EXCEPT ![run[r].plan] = NoRun]
    BY <1>3 DEF Complete
  <2> QED
    BY <2>1, <2>2, OutMap
<1>4. CASE End(r)
  <2>1. /\ \A s \in Run : run'[s].plan = run[s].plan
        /\ \A s \in Run : s # r => run'[s] = run[s]
        /\ run'[r].handlers = run[r].handlers
        /\ run'[r].at = "ended"
    BY <1>0, <1>4 DEF End, RunRec
  <2>2. (AtWork(r) \/ run[r].at = "starting") /\ UNCHANGED early
        /\ executors' = [executors EXCEPT ![run[r].plan] = NoRun]
    BY <1>4 DEF End, OutOfMap, AtWork
  <2> QED
    BY <2>1, <2>2, OutMap
<1> QED
  BY <1>1, <1>2, <1>3, <1>4 DEF ExecutorStep

LEMMA StepMap == HInv /\ [HostNext]_hostVars => HInv'
<1> SUFFICES ASSUME HInv, [HostNext]_hostVars PROVE HInv'
  OBVIOUS
<1>1. HostTypeOK'
  BY StepType DEF HInv
<1>2. MapInv'
  <2>1. CASE UNCHANGED hostVars
    BY <2>1, QuietMap DEF hostVars
  <2>2. CASE HostNext
    BY <2>2, CommandMap, ExecutorMap DEF HostNext
  <2> QED
    BY <2>1, <2>2
<1> QED
  BY <1>1, <1>2 DEF HInv

(* The map names only executors that have not ended, and no plan is run by *)
(* two that have not been told to stop, unless it was started while one    *)
(* lingered (station.ts:443-445, 1130-1141).                               *)
THEOREM PlansAreRunOnce == HostSpec => []PlansRunOnce
<1>1. HostInit => HInv
  BY InitType, InitMap DEF HInv
<1>2. HInv => PlansRunOnce
  BY DEF HInv, MapInv, PlansRunOnce
<1> QED
  BY <1>1, <1>2, StepMap, PTL DEF HostSpec

-----------------------------------------------------------------------------
(***************************************************************************)
(* Proofs about Environment, for any services, ports and callers: no two   *)
(* live processes have one port but through a service that is astray.      *)
(*                                                                         *)
(* EInv says that whatever a call or the file holds gives no port twice;   *)
(* Kept that the registry still says of a service that is not astray what  *)
(* its process was given, which rests on at most one call being at work on *)
(* the service, and on there being no process while it is.                 *)
(***************************************************************************)
Disjoint(al) ==
  \A s, t \in Service : s # t /\ al[s] # 0 => al[s] # al[t]

Sound(k) ==
  k \in EnvCall /\ (k.at # "idle" => k.of \in Service) /\ Disjoint(k.copy)

EInv ==
  /\ EnvTypeOK
  /\ Disjoint(registry) /\ Disjoint(file)
  /\ \A c \in EnvClient : Sound(envCall[c])

OnItBy(c, s) ==
  envCall[c].of = s /\ envCall[c].at \notin {"idle", "waiting"}

(* The port of a live process is the one allocated to it.                  *)
PortKept(s) ==
  entry[s].alive => /\ entry[s].state # "none"
                    /\ registry[s] = entry[s].port /\ registry[s] # 0

(* One call at most is at work on s, and on no live process unless it is   *)
(* stopping it; a port to be given is the one allocated.                   *)
CallsKept(s) ==
  \A c \in EnvClient : OnItBy(c, s) =>
    /\ envCall[c].at # "stopping" => ~entry[s].alive
    /\ envCall[c].at = "saving" /\ envCall[c].then = "start"
         => registry[s] = envCall[c].copy[s] /\ registry[s] # 0
    /\ \A d \in EnvClient : OnItBy(d, s) => d = c

Kept == \A s \in Service \ astray : PortKept(s) /\ CallsKept(s)

USE EnvironmentAssumption

-----------------------------------------------------------------------------
(* The registry.                                                           *)

LEMMA BaseIsPort == \A s \in Service : Base[s] \in Port
<1> SUFFICES ASSUME NEW s \in Service PROVE Base[s] \in Port
  OBVIOUS
<1>1. Base[s] \in Nat /\ Offset \in Nat /\ Attempts \in Nat
  OBVIOUS
<1>2. 0 * Offset = 0
  BY <1>1
<1>3. 0 \in 0..Attempts /\ Base[s] = Base[s] + 0 * Offset
  BY <1>1, <1>2
<1>4. Base[s] \in PortsOf(s)
  BY <1>3 DEF PortsOf
<1> QED
  BY <1>4 DEF Port

LEMMA PortsPositive == \A p \in Port : p # 0
<1> SUFFICES ASSUME NEW s \in Service, NEW i \in 0..Attempts
             PROVE  Base[s] + i * Offset # 0
  BY DEF Port, PortsOf
<1>1. Base[s] \in Nat /\ Base[s] # 0 /\ Offset \in Nat /\ i \in Nat
  OBVIOUS
<1>2. i * Offset \in Nat
  BY <1>1
<1> QED
  BY <1>1, <1>2

(* The port found is a port that nobody has.                               *)
LEMMA NextIsFree ==
  ASSUME NEW al \in Allocation, NEW s \in Service
  PROVE  NextAvailable(al, s) \in Port /\ ~Taken(al, NextAvailable(al, s))
<1>1. PICK i \in FreeTries(al, s) : \A j \in FreeTries(al, s) : i <= j
  BY AttemptsSuffice
<1>2. FreeTries(al, s) # {}
  BY <1>1
<1>3. FirstTry(al, s) = CHOOSE m \in FreeTries(al, s) : \A j \in FreeTries(al, s) : m <= j
  BY <1>2, Zenon DEF FirstTry
<1>4. FirstTry(al, s) \in FreeTries(al, s)
  BY <1>1, <1>3, Zenon
<1>5. FirstTry(al, s) \in 0..Attempts /\ ~Taken(al, NextAvailable(al, s))
  BY <1>4 DEF FreeTries, NextAvailable
<1>6. NextAvailable(al, s) = Base[s] + FirstTry(al, s) * Offset
  BY Zenon DEF NextAvailable
<1>7. NextAvailable(al, s) \in PortsOf(s)
  BY <1>5, <1>6 DEF PortsOf
<1>8. NextAvailable(al, s) \in Port
  BY <1>7 DEF Port
<1> QED
  BY <1>5, <1>8

(* Whatever else is allocated, a service gets a port of its own.           *)
LEMMA AllocatedDisjoint ==
  ASSUME NEW al \in Allocation, NEW s \in Service
  PROVE  /\ Allocated(al, s) \in Allocation
         /\ Disjoint(al) => Disjoint(Allocated(al, s))
         /\ Allocated(al, s)[s] # 0
<1> DEFINE p == IF Conflict(al, s) THEN NextAvailable(al, s) ELSE Base[s]
<1>1. p \in Port /\ \A t \in Service : t # s => al[t] # p
  BY BaseIsPort, NextIsFree DEF Conflict, Taken
<1>3. p # 0
  BY <1>1, PortsPositive
<1>2. Allocated(al, s) = [al EXCEPT ![s] = p]
  BY DEF Allocated
<1> HIDE DEF p
<1> QED
  BY <1>1, <1>2, <1>3 DEF Allocation, Disjoint

LEMMA ReleasedDisjoint ==
  ASSUME NEW al \in Allocation, NEW s \in Service
  PROVE  /\ [al EXCEPT ![s] = 0] \in Allocation
         /\ Disjoint(al) => Disjoint([al EXCEPT ![s] = 0])
<1> QED
  BY DEF Allocation, Disjoint

LEMMA NoneDisjoint == NonePorts \in Allocation /\ Disjoint(NonePorts)
<1> QED
  BY DEF NonePorts, Allocation, Disjoint

LEMMA IdleIsCall == EnvIdle \in EnvCall /\ EnvIdle.copy = NonePorts
<1> QED
  BY NoneDisjoint DEF EnvIdle, EnvCall

-----------------------------------------------------------------------------
(* Calls.                                                                  *)

(* The calls after a step.                                                 *)
Calls(cs) == cs \in [EnvClient -> EnvCall] /\ \A d \in EnvClient : Sound(cs[d])

(* One call is replaced by a sound one.                                    *)
LEMMA PutCall ==
  ASSUME EInv, NEW c \in EnvClient, NEW k, Sound(k),
         envCall' = [envCall EXCEPT ![c] = k]
  PROVE  /\ Calls(envCall')
         /\ envCall'[c] = k
         /\ \A d \in EnvClient \ {c} : envCall'[d] = envCall[d]
<1>1. envCall' = [d \in EnvClient |-> IF d = c THEN k ELSE envCall[d]]
  BY DEF EInv, EnvTypeOK
<1> QED
  BY <1>1 DEF Calls, Sound, EInv

LEMMA IdleIsSound == Sound(EnvIdle)
<1> QED
  BY IdleIsCall, NoneDisjoint DEF Sound, EnvIdle

(* Getting to the next service of an order.                                *)
LEMMA ReachIsSound ==
  ASSUME EInv, NEW c \in EnvClient, NEW order \in Seq(Service),
         envCall' = Reach(c, order)
  PROVE  /\ Calls(envCall')
         /\ envCall'[c].at \in {"idle", "waiting"}
         /\ \A d \in EnvClient \ {c} : envCall'[d] = envCall[d]
<1> DEFINE k == IF order = <<>> THEN EnvIdle
                ELSE [EnvIdle EXCEPT !.at = "waiting", !.of = Head(order),
                                     !.rest = Tail(order),
                                     !.deps = Depends[Head(order)]]
<1>1. CASE order = <<>>
  <2>1. envCall' = [envCall EXCEPT ![c] = EnvIdle]
    BY <1>1 DEF Reach
  <2>2. EnvIdle.at = "idle"
    BY DEF EnvIdle
  <2> QED
    BY <2>1, <2>2, PutCall, IdleIsSound
<1>2. CASE order # <<>>
  <2>1. Head(order) \in Service /\ Tail(order) \in Seq(Service)
    BY <1>2
  <2>2. Depends[Head(order)] \in Seq(Service)
    BY <2>1
  <2>3. /\ k \in EnvCall /\ k.of \in Service /\ k.copy = NonePorts
        /\ k.at = "waiting"
    BY <1>2, <2>1, <2>2, NoneDisjoint DEF EnvIdle, EnvCall
  <2>4. Sound(k)
    BY <2>3, NoneDisjoint DEF Sound
  <2>5. envCall' = [envCall EXCEPT ![c] = k]
    BY <1>2 DEF Reach
  <2> HIDE DEF k
  <2> QED
    BY <2>3, <2>4, <2>5, PutCall
<1> QED
  BY <1>1, <1>2

(* Asking for the registry.                                                *)
LEMMA GetRegistryKeeps ==
  ASSUME EInv, NEW c \in EnvClient, NEW k, Sound(k), k.of \in Service,
         GetRegistry(c, k)
  PROVE  /\ Calls(envCall')
         /\ envCall'[c].at \in {"loading", "got"} /\ envCall'[c].of = k.of
         /\ \A d \in EnvClient \ {c} : envCall'[d] = envCall[d]
<1> DEFINE n == IF loads = 0 THEN [k EXCEPT !.at = "loading", !.copy = file]
                ELSE [k EXCEPT !.at = "got", !.copy = registry]
<1>1. /\ registry \in Allocation /\ Disjoint(registry)
      /\ file \in Allocation /\ Disjoint(file)
  BY DEF EInv, EnvTypeOK
<1>2. /\ n \in EnvCall /\ n.of = k.of /\ n.at \in {"loading", "got"}
      /\ n.copy = registry \/ n.copy = file
  BY <1>1 DEF Sound, EnvCall
<1>3. envCall' = [envCall EXCEPT ![c] = n]
  BY DEF GetRegistry
<1> HIDE DEF n
<1>4. Sound(n)
  BY <1>1, <1>2 DEF Sound
<1> QED
  BY <1>2, <1>3, <1>4, PutCall

(* The parts of EInv after a step.                                         *)
LEMMA Together ==
  ASSUME registry' \in Allocation, Disjoint(registry'),
         file' \in Allocation, Disjoint(file'), loads' \in Nat,
         Calls(envCall'),
         instance' \in [Service -> State], entry' \in [Service -> Entry],
         strays' \in [Service -> 0..MaxStrays],
         checking' \in [Service -> BOOLEAN],
         envCalls' \in 0..MaxEnvCalls, astray' \subseteq Service
  PROVE  EInv'
<1> QED
  BY DEF EInv, EnvTypeOK, Sound, Calls, Disjoint

(* Every part of EInv.                                                     *)
LEMMA Unpacked ==
  ASSUME EInv
  PROVE  /\ registry \in Allocation /\ file \in Allocation
         /\ Disjoint(registry) /\ Disjoint(file)
         /\ loads \in Nat /\ envCalls \in 0..MaxEnvCalls
         /\ instance \in [Service -> State]
         /\ entry \in [Service -> Entry]
         /\ strays \in [Service -> 0..MaxStrays]
         /\ checking \in [Service -> BOOLEAN]
         /\ Calls(envCall) /\ \A c \in EnvClient : Sound(envCall[c])
         /\ astray \subseteq Service
<1> QED
  BY DEF EInv, EnvTypeOK, Calls

(* What Kept says of a service that is not astray after the step.          *)
LEMMA NotAstray ==
  ASSUME Kept, NEW s \in Service \ astray', astray \subseteq astray'
  PROVE  PortKept(s) /\ CallsKept(s)
<1> QED
  BY DEF Kept

(* A registry that overwrites no allocation of s leaves what it says of s. *)
LEMMA StillAllocated ==
  ASSUME EInv, NEW al \in Allocation, NEW own, NEW s \in Service,
         s \notin Overwritten(al, own), s \notin own, registry[s] # 0
  PROVE  al[s] = registry[s]
<1> QED
  BY DEF Overwritten

(* A step that leaves the port of s alone and makes no call at work on s   *)
(* that was not.                                                           *)
LEMMA LeftAlone ==
  ASSUME Kept, NEW s \in Service \ astray', astray \subseteq astray',
         registry[s] # 0 => registry'[s] = registry[s],
         entry'[s].alive => entry[s].alive /\ entry'[s].state # "none",
         entry'[s].port = entry[s].port \/ ~entry'[s].alive,
         \A d \in EnvClient :
           \/ envCall'[d] = envCall[d]
           \/ ~OnItBy(d, s)'
           \/ /\ OnItBy(d, s)
              /\ envCall'[d].at = "saving" => envCall'[d].then # "start"
              /\ envCall[d].at = "stopping" => ~entry'[s].alive
  PROVE  (PortKept(s) /\ CallsKept(s))'
<1>1. PortKept(s) /\ CallsKept(s)
  BY NotAstray
<1>2. PortKept(s)'
  BY <1>1 DEF PortKept
<1>3. \A d \in EnvClient : OnItBy(d, s)' => OnItBy(d, s)
  BY DEF OnItBy
<1>4. CallsKept(s)'
  <2> SUFFICES ASSUME NEW d \in EnvClient, OnItBy(d, s)'
               PROVE  /\ envCall'[d].at # "stopping" => ~entry'[s].alive
                      /\ envCall'[d].at = "saving" /\ envCall'[d].then = "start"
                           => registry'[s] = envCall'[d].copy[s] /\ registry'[s] # 0
                      /\ \A e \in EnvClient : OnItBy(e, s)' => e = d
    BY DEF CallsKept
  <2>1. OnItBy(d, s)
    BY <1>3
  <2>2. /\ envCall[d].at # "stopping" => ~entry[s].alive
        /\ envCall[d].at = "saving" /\ envCall[d].then = "start"
             => registry[s] = envCall[d].copy[s] /\ registry[s] # 0
        /\ \A e \in EnvClient : OnItBy(e, s) => e = d
    BY <1>1, <2>1 DEF CallsKept
  <2>3. \A e \in EnvClient : OnItBy(e, s)' => e = d
    BY <1>3, <2>2
  <2>4. CASE envCall'[d] = envCall[d]
    BY <2>2, <2>3, <2>4
  <2>5. CASE envCall'[d] # envCall[d]
    <3>1. /\ envCall'[d].at = "saving" => envCall'[d].then # "start"
          /\ envCall[d].at = "stopping" => ~entry'[s].alive
      BY <2>5
    <3> QED
      BY <2>2, <2>3, <3>1
  <2> QED
    BY <2>4, <2>5
<1> QED
  BY <1>2, <1>4

-----------------------------------------------------------------------------
(* Initially.                                                              *)

LEMMA EInvInit == EnvInit => EInv /\ Kept
<1> SUFFICES ASSUME EnvInit PROVE EInv /\ Kept
  OBVIOUS
<1>1. file \in Allocation /\ Disjoint(file)
  <2> DEFINE first == [s \in Service |-> IF s = CHOOSE t \in Service : TRUE
                                         THEN Base[s] ELSE 0]
  <2>1. first \in Allocation
    BY BaseIsPort DEF Allocation
  <2>2. Disjoint(first)
    BY DEF Disjoint
  <2> QED
    BY <2>1, <2>2, NoneDisjoint DEF EnvInit
<1>2. envCall \in [EnvClient -> EnvCall] /\ \A c \in EnvClient : envCall[c] = EnvIdle
  BY IdleIsCall DEF EnvInit
<1>3. 0 \in 0..MaxStrays /\ 0 \in 0..MaxEnvCalls
  OBVIOUS
<1>4. EnvTypeOK
  BY <1>1, <1>2, <1>3, NoneDisjoint DEF EnvInit, EnvTypeOK, Entry, NoEntry, State
<1>5. EInv
  BY <1>1, <1>2, <1>4, NoneDisjoint, IdleIsSound DEF EInv, EnvInit
<1>6. ASSUME NEW s \in Service PROVE PortKept(s) /\ CallsKept(s)
  <2>1. ~entry[s].alive
    BY DEF EnvInit, NoEntry
  <2>2. \A c \in EnvClient : ~OnItBy(c, s)
    BY <1>2 DEF OnItBy, EnvIdle
  <2> QED
    BY <2>1, <2>2 DEF PortKept, CallsKept
<1> QED
  BY <1>5, <1>6 DEF Kept

-----------------------------------------------------------------------------
(* The registry is read and used.                                          *)

LEMMA LoadedKeeps ==
  ASSUME EInv, Kept, NEW c \in EnvClient, Loaded(c)
  PROVE  EInv' /\ Kept'
<1>1. PICK read \in {envCall[c].copy, file} :
        /\ registry' = read
        /\ envCall' = [envCall EXCEPT ![c] = [@ EXCEPT !.at = "got", !.copy = read]]
        /\ astray' = astray \cup Overwritten(read, {})
  BY DEF Loaded
<1>2. /\ loads' = loads + 1 /\ envCall[c].at = "loading"
      /\ UNCHANGED <<file, instance, entry, strays, checking, envCalls>>
  BY DEF Loaded
<1>3. Sound(envCall[c])
  BY Unpacked
<1>4. read \in Allocation /\ Disjoint(read)
  BY <1>1, <1>3, Unpacked DEF Sound, EnvCall
<1> DEFINE k == envCall[c]
           n == [k EXCEPT !.at = "got", !.copy = read]
<1>5. envCall' = [envCall EXCEPT ![c] = n]
  BY <1>1, Unpacked DEF Calls
<1>6. n \in EnvCall /\ n.of = k.of /\ n.at = "got" /\ n.copy = read
  BY <1>3, <1>4 DEF Sound, EnvCall
<1>7. Sound(n)
  BY <1>2, <1>3, <1>4, <1>6 DEF Sound
<1> HIDE DEF n
<1>8. /\ Calls(envCall') /\ envCall'[c] = n
      /\ \A d \in EnvClient \ {c} : envCall'[d] = envCall[d]
  BY <1>5, <1>7, PutCall
<1>9. EInv'
  <2>1. astray' \subseteq Service
    BY <1>1, Unpacked DEF Overwritten
  <2> QED
    BY <1>1, <1>2, <1>4, <1>8, <2>1, Unpacked, Together
<1>10. ASSUME NEW s \in Service \ astray' PROVE (PortKept(s) /\ CallsKept(s))'
  <2>1. astray \subseteq astray' /\ s \notin Overwritten(read, {})
    BY <1>1
  <2>2. registry[s] # 0 => registry'[s] = registry[s]
    BY <1>1, <1>4, <2>1, StillAllocated
  <2>3. ASSUME NEW d \in EnvClient
        PROVE  \/ envCall'[d] = envCall[d]
               \/ ~OnItBy(d, s)'
               \/ /\ OnItBy(d, s)
                  /\ envCall'[d].at = "saving" => envCall'[d].then # "start"
                  /\ envCall[d].at = "stopping" => ~entry'[s].alive
    BY <1>2, <1>6, <1>8 DEF OnItBy
  <2>4. PortKept(s)
    BY <2>1, NotAstray
  <2> QED
    BY <1>2, <2>1, <2>2, <2>3, <2>4, LeftAlone DEF PortKept
<1> QED
  BY <1>9, <1>10 DEF Kept

LEMMA UseRegistryKeeps ==
  ASSUME EInv, Kept, NEW c \in EnvClient, UseRegistry(c)
  PROVE  EInv' /\ Kept'
<1> DEFINE k   == envCall[c]
           new == IF k.then = "start" THEN Allocated(k.copy, k.of)
                  ELSE [k.copy EXCEPT ![k.of] = 0]
           n   == [k EXCEPT !.at = "saving", !.copy = new]
<1>1. /\ k.at = "got" /\ registry' = new
      /\ envCall' = [envCall EXCEPT ![c] = [@ EXCEPT !.at = "saving", !.copy = new]]
      /\ astray' = astray \cup Overwritten(new, {k.of})
      /\ UNCHANGED <<loads, file, instance, entry, strays, checking, envCalls>>
  BY DEF UseRegistry
<1>2. /\ k \in EnvCall /\ k.of \in Service /\ Disjoint(k.copy)
      /\ k.copy \in Allocation
  BY <1>1, Unpacked DEF Sound, EnvCall
<1>3. /\ new \in Allocation /\ Disjoint(new)
      /\ k.then = "start" => new[k.of] # 0
  BY <1>2, AllocatedDisjoint, ReleasedDisjoint
<1>4. envCall' = [envCall EXCEPT ![c] = n]
  BY <1>1, Unpacked DEF Calls
<1> HIDE DEF new
<1>5. /\ n \in EnvCall /\ n.of = k.of /\ n.then = k.then
      /\ n.at = "saving" /\ n.copy = new
  BY <1>2, <1>3 DEF EnvCall
<1>6. Sound(n)
  BY <1>2, <1>3, <1>5 DEF Sound
<1> HIDE DEF n
<1>7. /\ Calls(envCall') /\ envCall'[c] = n
      /\ \A d \in EnvClient \ {c} : envCall'[d] = envCall[d]
  BY <1>4, <1>6, PutCall
<1>8. EInv'
  <2>1. astray' \subseteq Service
    BY <1>1, Unpacked DEF Overwritten
  <2> QED
    BY <1>1, <1>3, <1>7, <2>1, Unpacked, Together
<1>9. ASSUME NEW s \in Service \ astray' PROVE (PortKept(s) /\ CallsKept(s))'
  <2>1. astray \subseteq astray' /\ s \notin Overwritten(new, {k.of})
    BY <1>1
  <2>2. PortKept(s) /\ CallsKept(s)
    BY <2>1, NotAstray
  <2>3. CASE s # k.of
    <3>1. registry[s] # 0 => registry'[s] = registry[s]
      BY <1>1, <1>3, <2>1, <2>3, StillAllocated
    <3>2. ASSUME NEW d \in EnvClient
          PROVE  \/ envCall'[d] = envCall[d]
                 \/ ~OnItBy(d, s)'
      BY <1>5, <1>7, <2>3 DEF OnItBy
    <3> QED
      BY <1>1, <2>1, <2>2, <3>1, <3>2, LeftAlone DEF PortKept
  <2>4. CASE s = k.of
    <3>1. OnItBy(c, s)
      BY <1>1, <2>4 DEF OnItBy
    <3>2. ~entry[s].alive /\ \A d \in EnvClient : OnItBy(d, s) => d = c
      BY <1>1, <2>2, <3>1 DEF CallsKept
    <3>3. \A d \in EnvClient : OnItBy(d, s)' => d = c
      BY <1>7, <3>2 DEF OnItBy
    <3>4. envCall'[c].then = "start"
            => registry'[s] = envCall'[c].copy[s] /\ registry'[s] # 0
      BY <1>1, <1>3, <1>5, <1>7, <2>4
    <3> QED
      BY <1>1, <3>2, <3>3, <3>4 DEF PortKept, CallsKept
  <2> QED
    BY <2>3, <2>4
<1> QED
  BY <1>8, <1>9 DEF Kept

-----------------------------------------------------------------------------
(* Starting.                                                               *)

LEMMA CallMade ==
  ASSUME EInv, envCalls < MaxEnvCalls
  PROVE  envCalls + 1 \in 0..MaxEnvCalls
<1> QED
  BY DEF EInv, EnvTypeOK

(* A call begins to work on a service.                                     *)
LEMMA BeginsKeeps ==
  ASSUME EInv, Kept, NEW c \in EnvClient, NEW u \in Service,
         envCall[c].at \in {"idle", "waiting"},
         envCall'[c].of = u, envCall'[c].at \in {"loading", "got", "stopping"},
         \A d \in EnvClient \ {c} : envCall'[d] = envCall[d],
         UNCHANGED <<registry, entry>>, astray \subseteq astray',
         OnIt(u) => u \in astray',
         envCall'[c].at # "stopping" /\ entry[u].alive => u \in astray'
  PROVE  Kept'
<1> SUFFICES ASSUME NEW s \in Service \ astray' PROVE (PortKept(s) /\ CallsKept(s))'
  BY DEF Kept
<1>1. PortKept(s) /\ CallsKept(s)
  BY NotAstray
<1>2. CASE s # u
  <2>1. \A d \in EnvClient : envCall'[d] = envCall[d] \/ ~OnItBy(d, s)'
    BY <1>2 DEF OnItBy
  <2> QED
    BY <1>1, <2>1, LeftAlone DEF PortKept
<1>3. CASE s = u
  <2>1. /\ \A d \in EnvClient : ~OnItBy(d, s)
        /\ envCall'[c].at # "stopping" => ~entry[s].alive
    BY <1>3 DEF OnIt, OnItBy
  <2>2. \A d \in EnvClient : OnItBy(d, s)' => d = c
    BY <2>1 DEF OnItBy
  <2> QED
    BY <1>1, <2>1, <2>2 DEF PortKept, CallsKept
<1> QED
  BY <1>2, <1>3

LEMMA StartServiceKeeps ==
  ASSUME EInv, Kept, NEW c \in EnvClient, NEW s \in Service, StartService(c, s)
  PROVE  EInv' /\ Kept'
<1> DEFINE k == [EnvIdle EXCEPT !.of = s]
<1>1. k \in EnvCall /\ k.of = s /\ k.copy = NonePorts
  BY IdleIsCall DEF EnvCall
<1>2. GetRegistry(c, k)
  BY DEF StartService
<1> HIDE DEF k
<1>3. Sound(k)
  BY <1>1, NoneDisjoint DEF Sound
<1>4. /\ Calls(envCall')
      /\ envCall'[c].at \in {"loading", "got"} /\ envCall'[c].of = s
      /\ \A d \in EnvClient \ {c} : envCall'[d] = envCall[d]
  BY <1>1, <1>2, <1>3, GetRegistryKeeps
<1>5. /\ UNCHANGED <<registry, loads, file, instance, entry, strays, checking>>
      /\ envCalls' \in 0..MaxEnvCalls /\ envCall[c].at = "idle"
      /\ astray' = astray \cup {t \in {s} : entry[t].alive \/ OnIt(t)}
  BY CallMade DEF StartService, StartsAgain
<1>6. EInv'
  BY <1>4, <1>5, Unpacked, Together
<1>7. Kept'
  BY <1>4, <1>5, BeginsKeeps
<1> QED
  BY <1>6, <1>7

(* A call that is at work on nothing before or after.                      *)
LEMMA WaitsKeeps ==
  ASSUME EInv, Kept, NEW c \in EnvClient,
         \A s \in Service : ~OnItBy(c, s)',
         \A d \in EnvClient \ {c} : envCall'[d] = envCall[d],
         UNCHANGED <<registry, entry, astray>>
  PROVE  Kept'
<1> SUFFICES ASSUME NEW s \in Service \ astray' PROVE (PortKept(s) /\ CallsKept(s))'
  BY DEF Kept
<1>1. PortKept(s) /\ CallsKept(s)
  BY NotAstray
<1>2. \A d \in EnvClient : envCall'[d] = envCall[d] \/ ~OnItBy(d, s)'
  OBVIOUS
<1> QED
  BY <1>1, <1>2, LeftAlone DEF PortKept

LEMMA StartAllKeeps ==
  ASSUME EInv, Kept, NEW c \in EnvClient, StartAll(c)
  PROVE  EInv' /\ Kept'
<1>1. PICK order \in [1..Cardinality(Service) -> Service] : envCall' = Reach(c, order)
  BY DEF StartAll
<1>2. order \in Seq(Service)
  <2>1. Cardinality(Service) \in Nat
    BY FS_CardinalityType
  <2> QED
    BY <2>1, SMTT(60)
<1>3. /\ Calls(envCall') /\ envCall'[c].at \in {"idle", "waiting"}
      /\ \A d \in EnvClient \ {c} : envCall'[d] = envCall[d]
  BY <1>1, <1>2, ReachIsSound
<1>4. /\ UNCHANGED <<registry, loads, file, instance, entry, strays, checking, astray>>
      /\ envCalls' \in 0..MaxEnvCalls
  BY CallMade DEF StartAll
<1>5. EInv'
  BY <1>3, <1>4, Unpacked, Together
<1>6. Kept'
  BY <1>3, <1>4, WaitsKeeps DEF OnItBy
<1> QED
  BY <1>5, <1>6

(* The three ways in which waiting for a dependency goes on.               *)
LEMMA WaitingKeeps ==
  ASSUME EInv, Kept, NEW c \in EnvClient,
         DependencyRuns(c) \/ DependencyDown(c) \/ Deadline(c)
  PROVE  EInv' /\ Kept'
<1>1. /\ UNCHANGED <<registry, loads, file, instance, entry, strays, checking,
                     envCalls, astray>>
      /\ envCall[c].at = "waiting" /\ envCall[c].deps # <<>>
  BY DEF DependencyRuns, DependencyDown, Deadline
<1>2. Sound(envCall[c]) /\ envCall[c].deps \in Seq(Service)
  BY Unpacked DEF Sound, EnvCall
<1>3. PICK k : /\ Sound(k) /\ k.at \in {"idle", "waiting"}
               /\ envCall' = [envCall EXCEPT ![c] = k]
  <2>1. ASSUME NEW q \in Seq(Service), envCall' = [envCall EXCEPT ![c].deps = q]
        PROVE  \E k : /\ Sound(k) /\ k.at \in {"idle", "waiting"}
                      /\ envCall' = [envCall EXCEPT ![c] = k]
    <3> DEFINE n == [envCall[c] EXCEPT !.deps = q]
    <3>1. n \in EnvCall /\ n.at = envCall[c].at /\ n.of = envCall[c].of
          /\ n.copy = envCall[c].copy
      BY <1>2 DEF Sound, EnvCall
    <3>2. envCall' = [envCall EXCEPT ![c] = n]
      BY <2>1 DEF EInv, EnvTypeOK
    <3> HIDE DEF n
    <3> QED
      BY <1>1, <1>2, <3>1, <3>2 DEF Sound
  <2>2. CASE DependencyRuns(c)
    <3>1. Tail(envCall[c].deps) \in Seq(Service)
      BY <1>1, <1>2
    <3>2. envCall' = [envCall EXCEPT ![c].deps = Tail(envCall[c].deps)]
      BY <2>2, Unpacked DEF DependencyRuns, Calls
    <3> QED
      BY <2>1, <3>1, <3>2
  <2>3. CASE DependencyDown(c)
    BY <2>3, IdleIsSound DEF DependencyDown, EnvIdle
  <2>4. CASE Deadline(c)
    <3>1. <<>> \in Seq(Service) /\ envCall' = [envCall EXCEPT ![c].deps = <<>>]
      BY <2>4 DEF Deadline
    <3> QED
      BY <2>1, <3>1
  <2> QED
    BY <2>2, <2>3, <2>4
<1>4. /\ Calls(envCall') /\ envCall'[c] = k
      /\ \A d \in EnvClient \ {c} : envCall'[d] = envCall[d]
  BY <1>3, PutCall
<1>5. EInv'
  BY <1>1, <1>4, Unpacked, Together
<1>6. Kept'
  BY <1>1, <1>3, <1>4, WaitsKeeps DEF OnItBy
<1> QED
  BY <1>5, <1>6

LEMMA StartNextKeeps ==
  ASSUME EInv, Kept, NEW c \in EnvClient, StartNext(c)
  PROVE  EInv' /\ Kept'
<1> DEFINE k == envCall[c]
<1>1. /\ Sound(k) /\ k.of \in Service /\ GetRegistry(c, k) /\ k.at = "waiting"
      /\ StartsAgain(k.of)
  BY Unpacked DEF StartNext, Sound
<1>2. /\ Calls(envCall')
      /\ envCall'[c].at \in {"loading", "got"} /\ envCall'[c].of = k.of
      /\ \A d \in EnvClient \ {c} : envCall'[d] = envCall[d]
  <2> HIDE DEF k
  <2> QED
    BY <1>1, GetRegistryKeeps
<1>3. UNCHANGED <<registry, loads, file, instance, entry, strays, checking, envCalls>>
  BY DEF StartNext
<1>4. astray' = astray \cup {t \in {k.of} : entry[t].alive \/ OnIt(t)}
  BY <1>1 DEF StartsAgain
<1>5. EInv'
  BY <1>1, <1>2, <1>3, <1>4, Unpacked, Together
<1>6. Kept'
  BY <1>1, <1>2, <1>3, <1>4, BeginsKeeps
<1> QED
  BY <1>5, <1>6

LEMMA StrayTyped ==
  ASSUME EInv, NEW s \in Service, entry[s].alive => strays[s] < MaxStrays,
         strays' = [strays EXCEPT ![s] = IF entry[s].alive THEN @ + 1 ELSE @]
  PROVE  strays' \in [Service -> 0..MaxStrays]
<1>1. strays \in [Service -> 0..MaxStrays] /\ MaxStrays \in Nat
  BY DEF EInv, EnvTypeOK
<1>2. (IF entry[s].alive THEN strays[s] + 1 ELSE strays[s]) \in 0..MaxStrays
  BY <1>1
<1> QED
  BY <1>1, <1>2

LEMMA SpawnTyped ==
  ASSUME EInv, NEW s \in Service, NEW p \in Port \cup {0}, Spawn(s, p)
  PROVE  /\ entry' \in [Service -> Entry] /\ strays' \in [Service -> 0..MaxStrays]
         /\ \A t \in Service \ {s} : entry'[t] = entry[t]
         /\ \/ entry'[s] = entry[s]
            \/ entry'[s].state = "starting" /\ entry'[s].port = p
<1>1. CASE entry[s].state = "running"
  BY <1>1, Unpacked DEF Spawn
<1>2. CASE entry[s].state # "running"
  <2> DEFINE e == [state |-> "starting", alive |-> TRUE, probing |-> FALSE, port |-> p]
  <2>1. strays' \in [Service -> 0..MaxStrays]
    BY <1>2, StrayTyped DEF Spawn
  <2>2. e \in Entry /\ e.state = "starting" /\ e.port = p
    BY DEF Entry, State
  <2>3. entry' = [entry EXCEPT ![s] = e]
    BY <1>2 DEF Spawn
  <2> HIDE DEF e
  <2> QED
    BY <2>1, <2>2, <2>3, Unpacked
<1> QED
  BY <1>1, <1>2

LEMMA WrittenKeeps ==
  ASSUME EInv, Kept, NEW c \in EnvClient, Written(c)
  PROVE  EInv' /\ Kept'
<1> DEFINE k == envCall[c]
<1>1. /\ Sound(k) /\ k \in EnvCall /\ k.of \in Service /\ k.at = "saving"
      /\ k.copy \in Allocation /\ k.rest \in Seq(Service)
  BY Unpacked DEF Sound, Written, EnvCall
<1>2. file' = k.copy /\ UNCHANGED <<registry, loads, envCalls, astray>>
  BY DEF Written
<1>3. file' \in Allocation /\ Disjoint(file')
  BY <1>1, <1>2 DEF Sound
<1>4. CASE k.then = "start"
  <2> DEFINE u == k.of
             p == k.copy[k.of]
  <2>1. /\ Spawn(u, p) /\ envCall' = Reach(c, k.rest)
        /\ instance' = [instance EXCEPT ![u] = "starting"]
        /\ checking' = [checking EXCEPT ![u] = FALSE]
    BY <1>4 DEF Written
  <2>2. /\ Calls(envCall') /\ envCall'[c].at \in {"idle", "waiting"}
        /\ \A d \in EnvClient \ {c} : envCall'[d] = envCall[d]
    <3> HIDE DEF u, p
    <3> QED
      BY <1>1, <2>1, ReachIsSound
  <2>3. u \in Service /\ p \in Port \cup {0}
    BY <1>1 DEF Allocation
  <2>4. OnItBy(c, u) /\ \A s \in Service : ~OnItBy(c, s)'
    BY <1>1, <2>2 DEF OnItBy
  <2>5. u \notin astray => /\ ~entry[u].alive /\ registry[u] = p /\ registry[u] # 0
                           /\ \A d \in EnvClient : OnItBy(d, u) => d = c
    BY <1>1, <1>4, <2>3, <2>4 DEF Kept, CallsKept
  <2> HIDE DEF k, u, p
  <2>6. /\ entry' \in [Service -> Entry] /\ strays' \in [Service -> 0..MaxStrays]
        /\ \A t \in Service \ {u} : entry'[t] = entry[t]
        /\ \/ entry'[u] = entry[u]
           \/ entry'[u].state = "starting" /\ entry'[u].port = p
    BY <2>1, <2>3, SpawnTyped
  <2>7. instance' \in [Service -> State] /\ checking' \in [Service -> BOOLEAN]
    BY <2>1, <2>3, Unpacked DEF State
  <2>8. EInv'
    BY <1>2, <1>3, <2>2, <2>6, <2>7, Unpacked, Together
  <2>9. ASSUME NEW s \in Service \ astray' PROVE (PortKept(s) /\ CallsKept(s))'
    <3>1. PortKept(s) /\ astray \subseteq astray' /\ s \notin astray
      BY <1>2, NotAstray
    <3>2. CASE s # u
      <4>1. \A d \in EnvClient : envCall'[d] = envCall[d] \/ ~OnItBy(d, s)'
        BY <2>2, <2>4
      <4>2. entry'[s] = entry[s] /\ registry' = registry
        BY <1>2, <2>6, <3>2
      <4> QED
        BY <3>1, <4>1, <4>2, LeftAlone DEF PortKept
    <3>3. CASE s = u
      <4>1. \A d \in EnvClient : ~OnItBy(d, s)'
        BY <2>2, <2>4, <2>5, <3>1, <3>3 DEF OnItBy
      <4>2. entry'[s].alive => entry'[s].state = "starting" /\ entry'[s].port = p
        BY <2>5, <2>6, <3>1, <3>3
      <4> QED
        BY <1>2, <2>5, <3>1, <3>3, <4>1, <4>2 DEF PortKept, CallsKept
    <3> QED
      BY <3>2, <3>3
  <2> QED
    BY <2>8, <2>9 DEF Kept
<1>5. CASE k.then # "start"
  <2>1. /\ envCall' = [envCall EXCEPT ![c] = EnvIdle]
        /\ UNCHANGED <<instance, entry, strays, checking>>
    BY <1>5 DEF Written
  <2>2. /\ Calls(envCall') /\ envCall'[c] = EnvIdle
        /\ \A d \in EnvClient \ {c} : envCall'[d] = envCall[d]
    BY <2>1, PutCall, IdleIsSound
  <2> HIDE DEF k
  <2>3. EInv'
    BY <1>2, <1>3, <2>1, <2>2, Unpacked, Together
  <2>4. Kept'
    BY <1>2, <2>1, <2>2, WaitsKeeps DEF OnItBy, EnvIdle
  <2> QED
    BY <2>3, <2>4
<1> QED
  BY <1>4, <1>5

-----------------------------------------------------------------------------
(* Stopping.                                                               *)

LEMMA DownTyped ==
  ASSUME EInv, NEW s \in Service, Down(s)
  PROVE  instance' \in [Service -> State]
<1> QED
  BY Unpacked DEF Down, State

LEMMA StopServiceKeeps ==
  ASSUME EInv, Kept, NEW c \in EnvClient, NEW s \in Service, StopService(c, s)
  PROVE  EInv' /\ Kept'
<1> DEFINE k == [EnvIdle EXCEPT !.then = "stop", !.of = s]
<1>1. k \in EnvCall /\ k.of = s /\ k.copy = NonePorts
  BY IdleIsCall DEF EnvCall
<1>2. Sound(k)
  <2> HIDE DEF k
  <2> QED
    BY <1>1, NoneDisjoint DEF Sound
<1>3. /\ UNCHANGED <<registry, loads, file, entry, strays, checking>>
      /\ envCalls' \in 0..MaxEnvCalls /\ envCall[c].at = "idle"
      /\ astray' = astray \cup {t \in {s} : OnIt(t)}
  BY CallMade DEF StopService
<1>4. /\ Calls(envCall') /\ instance' \in [Service -> State]
      /\ envCall'[c].of = s /\ envCall'[c].at \in {"loading", "got", "stopping"}
      /\ envCall'[c].at # "stopping" => entry[s].state = "none"
      /\ \A d \in EnvClient \ {c} : envCall'[d] = envCall[d]
  <2>1. CASE entry[s].state = "none"
    <3>1. GetRegistry(c, k) /\ Down(s)
      BY <2>1 DEF StopService
    <3> HIDE DEF k
    <3> QED
      BY <1>1, <1>2, <2>1, <3>1, GetRegistryKeeps, DownTyped
  <2>2. CASE entry[s].state # "none"
    <3> DEFINE n == [k EXCEPT !.at = "stopping"]
    <3>1. n \in EnvCall /\ n.of = s /\ n.copy = NonePorts /\ n.at = "stopping"
      BY <1>1 DEF EnvIdle, EnvCall
    <3>2. envCall' = [envCall EXCEPT ![c] = n] /\ UNCHANGED instance
      BY <2>2 DEF StopService
    <3> HIDE DEF n, k
    <3>3. Sound(n)
      BY <3>1, NoneDisjoint DEF Sound
    <3>4. /\ Calls(envCall') /\ envCall'[c] = n
          /\ \A d \in EnvClient \ {c} : envCall'[d] = envCall[d]
      BY <3>2, <3>3, PutCall
    <3> QED
      BY <3>1, <3>2, <3>4, Unpacked
  <2> QED
    BY <2>1, <2>2
<1> HIDE DEF k
<1>5. EInv'
  BY <1>3, <1>4, Unpacked, Together
<1>6. Kept'
  <2>1. entry[s].state = "none" /\ entry[s].alive => s \in astray'
    BY <1>3 DEF Kept, PortKept
  <2> QED
    BY <1>3, <1>4, <2>1, BeginsKeeps
<1> QED
  BY <1>5, <1>6

LEMMA ProcessStoppedKeeps ==
  ASSUME EInv, Kept, NEW c \in EnvClient, ProcessStopped(c)
  PROVE  EInv' /\ Kept'
<1> DEFINE k == envCall[c]
<1>1. /\ Sound(k) /\ GetRegistry(c, k) /\ k.of \in Service /\ k.at = "stopping"
  BY Unpacked DEF ProcessStopped, Sound
<1>2. /\ Down(k.of) /\ entry' = [entry EXCEPT ![k.of] = NoEntry]
      /\ strays' \in [Service -> 0..MaxStrays]
      /\ UNCHANGED <<registry, loads, file, checking, envCalls, astray>>
  BY <1>1, StrayTyped DEF ProcessStopped
<1>3. /\ Calls(envCall')
      /\ envCall'[c].at \in {"loading", "got"} /\ envCall'[c].of = k.of
      /\ \A d \in EnvClient \ {c} : envCall'[d] = envCall[d]
  <2> HIDE DEF k
  <2> QED
    BY <1>1, GetRegistryKeeps
<1>4. /\ instance' \in [Service -> State] /\ entry' \in [Service -> Entry]
      /\ ~entry'[k.of].alive /\ \A s \in Service \ {k.of} : entry'[s] = entry[s]
  <2> HIDE DEF k
  <2>1. NoEntry \in Entry /\ ~NoEntry.alive
    BY DEF NoEntry, Entry, State
  <2> QED
    BY <1>1, <1>2, <2>1, DownTyped, Unpacked
<1>5. EInv'
  BY <1>2, <1>3, <1>4, Unpacked, Together
<1>6. ASSUME NEW s \in Service \ astray' PROVE (PortKept(s) /\ CallsKept(s))'
  <2>1. PortKept(s) /\ astray \subseteq astray'
    BY <1>2, NotAstray
  <2>2. entry'[s] = entry[s] \/ ~entry'[s].alive
    BY <1>4
  <2>3. ASSUME NEW d \in EnvClient
        PROVE  \/ envCall'[d] = envCall[d]
               \/ ~OnItBy(d, s)'
               \/ /\ OnItBy(d, s)
                  /\ envCall'[d].at = "saving" => envCall'[d].then # "start"
                  /\ envCall[d].at = "stopping" => ~entry'[s].alive
    BY <1>1, <1>3, <1>4 DEF OnItBy
  <2> QED
    BY <1>2, <2>1, <2>2, <2>3, LeftAlone DEF PortKept
<1> QED
  BY <1>5, <1>6 DEF Kept

-----------------------------------------------------------------------------
(* Processes and what looks at them.                                       *)

LEMMA EntryChanged ==
  ASSUME EInv, NEW s \in Service, NEW st \in State, NEW b \in BOOLEAN
  PROVE  /\ [entry[s] EXCEPT !.alive = b, !.state = st] \in Entry
         /\ [entry[s] EXCEPT !.state = st, !.probing = b] \in Entry
<1>1. entry[s] \in Entry
  BY Unpacked
<1> DEFINE e == entry[s]
<1>2. e \in Entry
  BY <1>1
<1> HIDE DEF e
<1>3. /\ [e EXCEPT !.alive = b, !.state = st] \in Entry
      /\ [e EXCEPT !.state = st, !.probing = b] \in Entry
  BY <1>2 DEF Entry
<1> QED
  BY <1>3 DEF e

LEMMA ProcessKeeps ==
  ASSUME EInv, Kept, NEW s \in Service,
         \/ Closed(s) \/ StrayCloses(s) \/ Probe(s) \/ Probed(s)
         \/ CheckHealth(s) \/ HealthChecked(s)
  PROVE  EInv' /\ Kept'
<1>1. UNCHANGED <<registry, loads, file, envCall, envCalls, astray>>
  BY DEF Closed, StrayCloses, Probe, Probed, CheckHealth, HealthChecked
<1>2. /\ instance' \in [Service -> State] /\ entry' \in [Service -> Entry]
      /\ strays' \in [Service -> 0..MaxStrays]
      /\ checking' \in [Service -> BOOLEAN]
      /\ \A t \in Service :
           /\ entry'[t].port = entry[t].port
           /\ entry'[t].alive => entry[t].alive
           /\ entry'[t].alive /\ entry'[t].state = "none" => entry[t].state = "none"
  <2>1. CASE Closed(s)
    <3>1. [entry[s] EXCEPT !.alive = FALSE, !.state = "down"] \in Entry
      BY EntryChanged DEF State
    <3>2. entry' = [entry EXCEPT ![s] = [entry[s] EXCEPT !.alive = FALSE, !.state = "down"]]
      BY <2>1, Unpacked DEF Closed
    <3>3. entry[s] \in Entry
      BY Unpacked
    <3>4. \A t \in Service :
            /\ entry'[t].port = entry[t].port
            /\ entry'[t].alive => entry[t].alive
            /\ entry'[t].alive /\ entry'[t].state = "none" => entry[t].state = "none"
      BY <3>2, <3>3, Unpacked DEF Entry
    <3> QED
      BY <2>1, <3>1, <3>2, <3>4, DownTyped, Unpacked DEF Closed
  <2>2. CASE StrayCloses(s)
    <3>1. strays[s] - 1 \in 0..MaxStrays
      BY <2>2, Unpacked DEF StrayCloses
    <3> QED
      BY <2>2, <3>1, DownTyped, Unpacked DEF StrayCloses
  <2>3. CASE Probe(s)
    <3>1. entry[s] \in Entry
      BY Unpacked
    <3>2. /\ entry' = [entry EXCEPT ![s] = [entry[s] EXCEPT !.probing = TRUE]]
          /\ UNCHANGED <<instance, strays, checking>>
      BY <2>3, Unpacked DEF Probe
    <3>3. [entry[s] EXCEPT !.probing = TRUE] \in Entry
      BY <3>1 DEF Entry
    <3>4. \A t \in Service :
            /\ entry'[t].port = entry[t].port
            /\ entry'[t].alive => entry[t].alive
            /\ entry'[t].alive /\ entry'[t].state = "none" => entry[t].state = "none"
      BY <3>1, <3>2, Unpacked DEF Entry
    <3> QED
      BY <3>2, <3>3, <3>4, Unpacked
  <2>4. CASE Probed(s)
    <3>1. PICK new \in {"starting", "running"} :
            entry' = [entry EXCEPT ![s] = [@ EXCEPT !.state = new, !.probing = FALSE]]
      BY <2>4 DEF Probed
    <3>2. [entry[s] EXCEPT !.state = new, !.probing = FALSE] \in Entry
      BY <3>1, EntryChanged DEF State
    <3>3. entry' = [entry EXCEPT ![s] = [entry[s] EXCEPT !.state = new, !.probing = FALSE]]
      BY <3>1, Unpacked
    <3>4. entry[s] \in Entry
      BY Unpacked
    <3>5. \A t \in Service :
            /\ entry'[t].port = entry[t].port
            /\ entry'[t].alive => entry[t].alive
            /\ entry'[t].alive /\ entry'[t].state = "none" => entry[t].state = "none"
      BY <3>3, <3>4, Unpacked DEF Entry
    <3> QED
      BY <2>4, <3>2, <3>3, <3>5, Unpacked DEF Probed
  <2>5. CASE CheckHealth(s)
    BY <2>5, Unpacked DEF CheckHealth
  <2>6. CASE HealthChecked(s)
    BY <2>6, Unpacked DEF HealthChecked, State
  <2> QED
    BY <2>1, <2>2, <2>3, <2>4, <2>5, <2>6, SMTT(40)
<1>3. EInv'
  BY <1>1, <1>2, Unpacked, Together
<1>4. ASSUME NEW t \in Service \ astray' PROVE (PortKept(t) /\ CallsKept(t))'
  <2>1. PortKept(t) /\ astray \subseteq astray'
    BY <1>1, NotAstray
  <2> QED
    BY <1>1, <1>2, <2>1, LeftAlone DEF PortKept
<1> QED
  BY <1>3, <1>4 DEF Kept

-----------------------------------------------------------------------------
(* The theorems.                                                           *)

LEMMA EInvNext == EInv /\ Kept /\ [EnvNext]_envVars => EInv' /\ Kept'
<1> SUFFICES ASSUME EInv, Kept, [EnvNext]_envVars PROVE EInv' /\ Kept'
  OBVIOUS
<1>1. CASE UNCHANGED envVars
  BY <1>1 DEF envVars, EInv, EnvTypeOK, Disjoint, Sound, Kept, PortKept, CallsKept, OnItBy
<1>2. CASE EnvNext
  <2>1. ASSUME NEW c \in EnvClient,
               \/ StartAll(c) \/ Loaded(c) \/ Written(c) \/ DependencyRuns(c)
               \/ DependencyDown(c) \/ Deadline(c) \/ StartNext(c) \/ UseRegistry(c)
               \/ ProcessStopped(c)
               \/ \E s \in Service : StartService(c, s) \/ StopService(c, s)
        PROVE  EInv' /\ Kept'
    BY <2>1, StartAllKeeps, LoadedKeeps, WrittenKeeps, WaitingKeeps, UseRegistryKeeps,
       StartNextKeeps, ProcessStoppedKeeps, StartServiceKeeps, StopServiceKeeps
  <2>2. ASSUME NEW s \in Service,
               \/ Closed(s) \/ StrayCloses(s) \/ Probe(s) \/ Probed(s)
               \/ CheckHealth(s) \/ HealthChecked(s)
        PROVE  EInv' /\ Kept'
    BY <2>2, ProcessKeeps
  <2> QED
    BY <1>2, <2>1, <2>2 DEF EnvNext
<1> QED
  BY <1>1, <1>2

(* Every variable of Environment has its type in every reachable state:    *)
(* calls under way are about services, and no more than MaxStrays          *)
(* processes are lost sight of.                                            *)
THEOREM EnvTypeCorrect == EnvSpec => []EnvTypeOK
<1>1. EInv => EnvTypeOK
  BY DEF EInv
<1> QED
  BY EInvInit, EInvNext, <1>1, PTL DEF EnvSpec

(* However starts, stops, crashes and readings of the registry overlap,    *)
(* two live processes have different ports, unless one of them is of a     *)
(* service that was started or stopped while a call or a process of it was *)
(* still there, or whose allocation a call has overwritten with the copy   *)
(* it held (environment-manager.ts: startService, stopService).            *)
THEOREM PortsAreApart == EnvSpec => []PortsApart
<1>1. EInv /\ Kept => PortsApart
  <2> SUFFICES ASSUME EInv, Kept, NEW s \in Service \ astray, NEW t \in Service \ astray,
                      s # t, entry[s].alive, entry[t].alive
               PROVE  entry[s].port # entry[t].port
    BY DEF PortsApart
  <2>1. registry[s] = entry[s].port /\ registry[s] # 0 /\ registry[t] = entry[t].port
    BY DEF Kept, PortKept
  <2>2. registry[s] # registry[t]
    BY <2>1 DEF EInv, Disjoint
  <2> QED
    BY <2>1, <2>2
<1> QED
  BY EInvInit, EInvNext, <1>1, PTL DEF EnvSpec

-----------------------------------------------------------------------------
(* The four together.  They share no variable, so a behaviour of the       *)
(* station's services is, for each of them, one of its own.                *)

LEMMA PartsInit == Init => RouterInit /\ SchedulerInit /\ EnvInit /\ HostInit
<1> QED
  BY DEF Init

LEMMA PartsStep ==
  [Next]_vars => /\ [RouterNext]_routerVars /\ [SchedulerNext]_schedulerVars
                 /\ [EnvNext]_envVars /\ [HostNext]_hostVars
<1> SUFFICES ASSUME [Next]_vars
             PROVE  /\ [RouterNext]_routerVars /\ [SchedulerNext]_schedulerVars
                    /\ [EnvNext]_envVars /\ [HostNext]_hostVars
  OBVIOUS
<1>1. CASE RouterNext /\ UNCHANGED <<schedulerVars, envVars, hostVars>>
  BY <1>1
<1>2. CASE SchedulerNext /\ UNCHANGED <<routerVars, envVars, hostVars>>
  BY <1>2
<1>3. CASE EnvNext /\ UNCHANGED <<routerVars, schedulerVars, hostVars>>
  BY <1>3
<1>4. CASE HostNext /\ UNCHANGED <<routerVars, schedulerVars, envVars>>
  BY <1>4
<1>5. CASE UNCHANGED vars
  BY <1>5 DEF vars
<1> QED
  BY <1>1, <1>2, <1>3, <1>4, <1>5 DEF Next

(* By the way they are put together; what is proved of each alone serves   *)
(* for the four.                                                           *)
LEMMA ServicesRefineParts ==
  Spec => RouterSpec /\ SchedulerSpec /\ EnvSpec /\ HostSpec
<1> QED
  BY PartsInit, PartsStep, PTL
     DEF Spec, RouterSpec, SchedulerSpec, EnvSpec, HostSpec

LEMMA RInvAlways == RouterSpec => []RInv
<1> QED
  BY RInvInit, RouterStep, PTL DEF RouterSpec

(* Every variable of the four services keeps its type (message-router.ts,  *)
(* scheduler.ts, environment-manager.ts, station.ts).                      *)
THEOREM ServicesTypeCorrect == Spec => []ServicesTypeOK
<1>1. RInv => RouterTypeOK
  BY DEF RInv
<1>2. RouterTypeOK /\ SchedulerTypeOK /\ EnvTypeOK /\ HostTypeOK => ServicesTypeOK
  BY DEF ServicesTypeOK
<1> QED
  BY <1>1, <1>2, ServicesRefineParts, RInvAlways, SchedulerTypeCorrect,
     EnvTypeCorrect, HostTypeCorrect, PTL

=============================================================================
