------------------------------ MODULE Planner -------------------------------
(***************************************************************************)
(* From tickets to a plan (orchestrator/planner.ts) and through its steps: *)
(* computePlan() turns open tickets into steps, a team's ticket into one   *)
(* step per role and a ticket with subtasks into one step per subtask, and *)
(* rewrites what the others wait for; initializeStages() divides the steps *)
(* into stages; recomputePlan() finds what is ready each time a step ends  *)
(* (executor.ts).  How the work on a step goes is in PlanExecutor, how     *)
(* recomputations overlap in PlanGates: here each is one step.             *)
(*                                                                         *)
(* A step's id is a sequence: <<t>> of a ticket, <<p, t>> of a ticket t    *)
(* with the parent p, <<t, r>> of a role r or of a subtask r.              *)
(***************************************************************************)
EXTENDS Integers, Sequences, FiniteSets, FiniteSetsExt, Functions

CONSTANTS
  Ticket,
  Role,          \* the roles of teams
  Subtask,       \* the ids of subtasks
  None,          \* no parent, or no depends_on
  Inputs,        \* the tickets to plan for, with the settings
  MaxStages,     \* bound: stages that a user defines
  ListsAll,      \* whether the user lists every step in a stage
  MaxClosed      \* bound: tickets that others close

StepId == {<<t>> : t \in Ticket} \cup (Ticket \X (Ticket \cup Role \cup Subtask))

(* A team is a sequence of members with a role each and what it depends    *)
(* on; the subtasks of a ticket are a function from their ids to the ids   *)
(* each of them waits for.  A ticket without either has the empty sequence *)
(* (one member is no team) and the empty function.                         *)
ASSUME PlannerAssumption ==
  /\ MaxStages \in Nat /\ ListsAll \in BOOLEAN /\ MaxClosed \in Nat
  /\ \A k \in Inputs :
       /\ k.deps \in [Ticket -> SUBSET Ticket]
       /\ k.parent \in [Ticket -> Ticket \cup {None}]
       /\ \A t \in Ticket :
            /\ k.team[t] \in Seq([role: Role, after: Role \cup {None}])
            /\ DOMAIN k.subtasks[t] \subseteq Subtask
            /\ k.parent[t] # None => DOMAIN k.subtasks[t] = {}
       /\ k.strategy \in {"mixed", "swarm", "spread"}
       /\ k.explicit \in BOOLEAN /\ k.transitions \in BOOLEAN

VARIABLES
  tickets,       \* the tickets' files and plan.config, an element of Inputs
  closed,        \* the tickets that are closed
  blockedBy,     \* steps[].blockedBy, a function of the steps' ids
  status,        \* steps[].status
  stageOf,       \* plan.stages[].stepTicketIds: the stage of each step
  stage,         \* plan.currentStage, 0 without stages
  phase,         \* how far the plan is
  others         \* the tickets that others have closed

plannerVars == <<tickets, closed, blockedBy, status, stageOf, stage, phase, others>>

Steps == DOMAIN blockedBy

Over(st, s) == st[s] \in {"done", "skipped"}

PlannerTypeOK ==
  /\ closed \subseteq Ticket
  /\ Steps \subseteq StepId
  /\ \A s \in Steps : blockedBy[s] \subseteq StepId
  /\ status \in [Steps -> {"blocked", "ready", "done", "failed", "skipped"}]
  /\ stageOf \in [Steps -> Nat] /\ stage \in Nat
  /\ phase \in {"tickets", "planned", "executing", "rejected"}
  /\ others \subseteq closed

-----------------------------------------------------------------------------
(* computePlan().                                                          *)

(* findParentTicketIds(): who has a child among the open tickets A.        *)
ParentsIn(A) == {tickets.parent[t] : t \in A} \cap A

IdOf(t, A) ==
  IF tickets.parent[t] \in ParentsIn(A) THEN <<tickets.parent[t], t>> ELSE <<t>>

(* mutant of BaseSteps: parents are waited for like other tickets.         *)
BaseStepsAfterParents(A) ==
  LET own == A \ ParentsIn(A) IN
  [s \in {IdOf(t, A) : t \in own} |-> {IdOf(d, A) : d \in tickets.deps[s[Len(s)]] \cap A}]

(* One step per open ticket that is nobody's parent; what is closed, or a  *)
(* parent, is not waited for.                                              *)
BaseSteps(A) ==
  LET own == A \ ParentsIn(A) IN
  [s \in {IdOf(t, A) : t \in own} |->
     {IdOf(d, A) : d \in tickets.deps[s[Len(s)]] \cap own}]

(* mutant of ExpandTeams: the others wait for the first role only.         *)
ExpandTeamsFromFirst(bb) ==
  LET split == {s \in DOMAIN bb : Len(s) = 1 /\ Len(tickets.team[s[1]]) > 1}
      Rewritten(B) ==
        (B \ split) \cup {<<s[1], tickets.team[s[1]][1].role>> : s \in B \cap split}
      Of(s) == {<<s[1], m.role>> : m \in Range(tickets.team[s[1]])}
      Member(s) == CHOOSE m \in Range(tickets.team[s[1]]) : m.role = s[2]
  IN [s \in (DOMAIN bb \ split) \cup UNION {Of(x) : x \in split} |->
        IF s \in DOMAIN bb THEN Rewritten(bb[s])
        ELSE IF Member(s).after = None THEN Rewritten(bb[<<s[1]>>])
        ELSE Of(<<s[1]>>) \cap {<<s[1], Member(s).after>>}]

(* expandTeamSteps(): the roles wait for one another as the team says, the *)
(* others for the role that comes last in the list.                        *)
ExpandTeams(bb) ==
  LET split == {s \in DOMAIN bb : Len(s) = 1 /\ Len(tickets.team[s[1]]) > 1}
      Last(team) == team[Len(team)].role
      Rewritten(B) ==
        (B \ split) \cup {<<s[1], Last(tickets.team[s[1]])>> : s \in B \cap split}
      Of(s) == {<<s[1], m.role>> : m \in Range(tickets.team[s[1]])}
      Member(s) == CHOOSE m \in Range(tickets.team[s[1]]) : m.role = s[2]
  IN [s \in (DOMAIN bb \ split) \cup UNION {Of(x) : x \in split} |->
        IF s \in DOMAIN bb THEN Rewritten(bb[s])
        ELSE IF Member(s).after = None THEN Rewritten(bb[<<s[1]>>])
        ELSE Of(<<s[1]>>) \cap {<<s[1], Member(s).after>>}]

(* expandSubtaskSteps(): subtasks that wait for none inherit what their    *)
(* ticket waits for; the others wait for the subtasks nobody waits for.    *)
ExpandSubtasks(bb) ==
  LET split == {s \in DOMAIN bb : Len(s) = 1 /\ DOMAIN tickets.subtasks[s[1]] # {}}
      Subs(t) == DOMAIN tickets.subtasks[t]
      Leaves(t) == Subs(t) \ UNION Range(tickets.subtasks[t])
      Rewritten(B) == (B \ split) \cup UNION {{s[1]} \X Leaves(s[1]) : s \in B \cap split}
  IN [s \in (DOMAIN bb \ split) \cup UNION {{x[1]} \X Subs(x[1]) : x \in split} |->
        IF s \in DOMAIN bb THEN Rewritten(bb[s])
        ELSE IF tickets.subtasks[s[1]][s[2]] = {} THEN Rewritten(bb[<<s[1]>>])
        ELSE {s[1]} \X tickets.subtasks[s[1]][s[2]]]

ComputePlan ==
  LET team == ExpandTeams(BaseSteps(Ticket \ closed)) IN
  /\ phase = "tickets"
  /\ blockedBy' = IF tickets.strategy \in {"swarm", "mixed"} THEN ExpandSubtasks(team) ELSE team
  /\ status' = [s \in DOMAIN blockedBy' |->
                  IF blockedBy'[s] = {} THEN "ready" ELSE "blocked"]
  /\ stageOf' = [s \in DOMAIN blockedBy' |-> 1]
  /\ phase' = "planned"
  /\ UNCHANGED <<tickets, closed, stage, others>>

-----------------------------------------------------------------------------
(* initializeStages(): the user's stages, depths for a swarm, and else     *)
(* computeStages().                                                        *)

(* computeDepthStages()                                                    *)
DepthStages ==
  LET depth[s \in Steps] ==
        IF blockedBy[s] \cap Steps = {} THEN 1
        ELSE 1 + Max({depth[b] : b \in blockedBy[s] \cap Steps})
  IN depth

(* validateExplicitStages(): stage 0 stands for what is not listed.        *)
ValidStages(def) ==
  \A s \in Steps : \A b \in blockedBy[s] \cap Steps :
    def[s] # 0 /\ def[b] # 0 => def[b] < def[s]

(* buildExplicitStages(): what is not listed comes after all the others.   *)
ExplicitStages(def) ==
  [s \in Steps |-> IF def[s] = 0 THEN Max(Range(def)) + 1 ELSE def[s]]

(* computeStages() puts tracks that do not depend on each other into one   *)
(* stage, whatever maxStageSize, and tracks are closed under dependencies. *)
OneStage == [s \in Steps |-> 1]

(* One stage is none; a definition that is not valid makes run() throw.    *)
InitializeStages ==
  /\ phase = "planned" /\ Steps # {}
  /\ IF tickets.explicit
     THEN \E def \in [Steps -> (IF ListsAll THEN 1 ELSE 0)..MaxStages] :
            IF ValidStages(def)
            THEN stageOf' = ExplicitStages(def) /\ phase' = "executing"
            ELSE stageOf' = stageOf /\ phase' = "rejected"
     ELSE /\ stageOf' = IF tickets.strategy = "swarm" THEN DepthStages ELSE OneStage
          /\ phase' = "executing"
  /\ stage' = IF Max(Range(stageOf')) > 1 THEN 1 ELSE 0
  /\ UNCHANGED <<tickets, closed, blockedBy, status, others>>

-----------------------------------------------------------------------------
(* recomputePlan() and what follows it.                                    *)

Children(t) == {c \in Ticket : tickets.parent[c] = t}

(* A blocker is resolved if its ticket is closed, or its step is over, or  *)
(* it is a parent and each of its children is closed or over.              *)
Resolved(b, cl, st) ==
  \/ Len(b) = 1 /\ b[1] \in cl
  \/ b \in Steps /\ Over(st, b)
  \/ /\ Len(b) = 1 /\ Children(b[1]) # {}
     /\ \A c \in Children(b[1]) : c \in cl \/ (<<c>> \in Steps /\ Over(st, <<c>>))

Recomputed(cl, st) ==
  [s \in Steps |->
     IF st[s] \notin {"blocked", "ready"} THEN st[s]
     ELSE IF Len(s) = 1 /\ s[1] \in cl THEN "skipped"
     ELSE IF \A b \in blockedBy[s] : Resolved(b, cl, st) THEN "ready"
     ELSE "blocked"]

(* mutant of SplitAndOver: a ticket one of whose steps is over.            *)
SplitAndStarted(st) ==
  {t \in Ticket : \E s \in Steps : Len(s) = 2 /\ s[1] = t /\ Over(st, s)}

(* closeCompletedSubtaskParents(): the tickets whose steps are all over.   *)
SplitAndOver(st) ==
  {t \in Ticket :
     /\ \E s \in Steps : Len(s) = 2 /\ s[1] = t
     /\ \A s \in Steps : Len(s) = 2 /\ s[1] = t => Over(st, s)}

(* mutant of TicketsOf: a subtask is taken for a ticket.                   *)
IdsOf(s) == IF s[Len(s)] \in Role THEN {s[1]} ELSE {s[Len(s)]}

(* ticketLookupId(): the ticket that is closed when a step is done.  The   *)
(* first role of a team that is done closes the ticket; a subtask has no   *)
(* ticket of its own.                                                      *)
TicketsOf(s) == IF s[Len(s)] \in Role THEN {s[1]} ELSE {s[Len(s)]} \cap Ticket

Recompute(cl, st) ==
  /\ status' = Recomputed(cl, st)
  /\ closed' = IF tickets.transitions THEN cl \cup SplitAndOver(status') ELSE cl

InStage(s) == stage = 0 \/ stageOf[s] = stage

(* A step that is ready is worked on and ends.                             *)
Work(s, end) ==
  /\ phase = "executing" /\ status[s] = "ready" /\ InStage(s)
  /\ Recompute(IF end = "done" /\ tickets.transitions THEN closed \cup TicketsOf(s) ELSE closed,
               [status EXCEPT ![s] = end])
  /\ UNCHANGED <<tickets, blockedBy, stageOf, stage, phase, others>>

Skip(s) ==
  /\ phase = "executing"
  /\ Recompute(closed, [status EXCEPT ![s] = "skipped"])
  /\ UNCHANGED <<tickets, blockedBy, stageOf, stage, phase, others>>

(* Somebody closes a ticket; the next recomputation sees it.               *)
CloseTicket(t) ==
  /\ phase # "rejected" /\ t \notin closed /\ Cardinality(others) < MaxClosed
  /\ others' = others \cup {t}
  /\ closed' = closed \cup {t}
  /\ UNCHANGED <<tickets, blockedBy, status, stageOf, stage, phase>>

(* resume, or any other event that recomputes the plan.                    *)
Refresh ==
  /\ phase = "executing" /\ Recompute(closed, status)
  /\ UNCHANGED <<tickets, blockedBy, stageOf, stage, phase, others>>

Ended(s) == status[s] \in {"done", "failed", "skipped"}

(* checkStageCompletion()                                                  *)
StageIsOver == /\ stage # 0 /\ stage < Max(Range(stageOf))
               /\ \A s \in Steps : stageOf[s] = stage => Ended(s)

(* advanceToNextStage(), with the user's approval if it takes one.         *)
NextStage ==
  /\ phase = "executing" /\ StageIsOver
  /\ stage' = stage + 1
  /\ UNCHANGED <<tickets, closed, blockedBy, status, stageOf, phase, others>>

-----------------------------------------------------------------------------
PlannerInit ==
  /\ tickets \in Inputs /\ closed = {}
  /\ blockedBy = <<>> /\ status = <<>> /\ stageOf = <<>>
  /\ stage = 0 /\ phase = "tickets" /\ others = {}

PlannerNext ==
  \/ ComputePlan \/ InitializeStages \/ NextStage \/ Refresh
  \/ \E s \in Steps : Skip(s) \/ \E end \in {"done", "failed"} : Work(s, end)
  \/ \E t \in Ticket : CloseTicket(t)

PlannerSpec == PlannerInit /\ [][PlannerNext]_plannerVars

-----------------------------------------------------------------------------
(* Properties.                                                             *)

(* The steps of a ticket.                                                  *)
StepsOf(t) == {s \in Steps : s[1] = t \/ s[Len(s)] = t}

Done(t) == \A s \in StepsOf(t) : status[s] = "done"

Bypassed(t) == t \in others \/ \E s \in StepsOf(t) : status[s] = "skipped"

(* However tickets are split, no step of one is done before all steps of   *)
(* the tickets it depends on are, unless one of the two was closed by      *)
(* others or partly skipped; parents are not waited for.                   *)
OrderKept ==
  \A s \in Steps, t, d \in Ticket :
    /\ status[s] = "done" /\ s \in StepsOf(t) /\ d \in tickets.deps[t]
    /\ Children(d) = {} /\ Children(t) = {}
    => Done(d) \/ Bypassed(d) \/ Bypassed(t)

(* The plan always goes on: if nothing has failed there is something that  *)
(* can be started, a stage to leave or news for recomputePlan(), until all *)
(* is over.                                                                *)
NeverStuck ==
  phase = "executing" =>
    \/ \E s \in Steps : status[s] = "failed"
    \/ \A s \in Steps : Over(status, s)
    \/ \E s \in Steps : status[s] = "ready" /\ InStage(s)
    \/ StageIsOver
    \/ Recomputed(closed, status) # status

(* A ticket that is a parent or has subtasks is closed by the plan when    *)
(* all its steps are over, not earlier.                                    *)
ClosedWhenOver ==
  [][\A t \in closed' \ closed :
       others' = others /\ (\E s \in Steps : Len(s) = 2 /\ s[1] = t /\ s[2] \notin Role)
         => \A s \in Steps : s[1] = t => Over(status', s)]_plannerVars

(* docs/spec/orchestrator.md: "a ticket cannot be staged before its deps". *)
NotStagedBeforeDeps ==
  \A s \in Steps : \A b \in blockedBy[s] \cap Steps : stageOf[b] <= stageOf[s]
=============================================================================
