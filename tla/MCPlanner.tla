----------------------------- MODULE MCPlanner ------------------------------
(* Instances of Planner for TLC. *)
EXTENDS Planner

CONSTANTS t1, t2, t3, engineer, qa, u, v

(* A ticket depends on tickets before it.                                  *)
Deps == {d \in [Ticket -> SUBSET Ticket] :
           d[t1] = {} /\ d[t2] \subseteq {t1} /\ d[t3] \subseteq {t1, t2}}

(* No parent, or one ticket that is the parent of one or both others.      *)
Parents == {[t \in Ticket |-> IF t \in C THEN p ELSE None] :
              p \in Ticket, C \in SUBSET Ticket} \cap
           {f \in [Ticket -> Ticket \cup {None}] : \A t \in Ticket : f[t] # t}

Pair == <<[role |-> engineer, after |-> None], [role |-> qa, after |-> engineer]>>

(* The kinds of a ticket: for one agent, for a team, with two subtasks at  *)
(* once or one after the other, or with both.                              *)
TeamOf(kind) == IF kind \in {"team", "both"} THEN Pair ELSE <<>>

SubtasksOf(kind) ==
  CASE kind \in {"parallel", "both"} -> [i \in {u, v} |-> {}]
    [] kind = "sequence"             -> [i \in {u, v} |-> IF i = v THEN {u} ELSE {}]
    [] OTHER                         -> [i \in {} |-> {}]

Kinds == {[t \in Ticket |-> IF t = t1 THEN k1 ELSE IF t = t2 THEN k2 ELSE "plain"] :
            k1 \in {"plain", "team", "parallel", "sequence", "both"},
            k2 \in {"plain", "team", "parallel", "sequence"}}

Settings ==
  {[strategy |-> "mixed",  explicit |-> FALSE, transitions |-> TRUE],
   [strategy |-> "swarm",  explicit |-> FALSE, transitions |-> TRUE],
   [strategy |-> "spread", explicit |-> TRUE,  transitions |-> FALSE]}

(* Subtasks are read from tickets without a parent only.                   *)
AllInputs ==
  {[deps |-> d, parent |-> p, team |-> [t \in Ticket |-> TeamOf(k[t])],
    subtasks |-> [t \in Ticket |-> IF p[t] = None THEN SubtasksOf(k[t])
                                                 ELSE SubtasksOf("plain")],
    strategy |-> s.strategy, explicit |-> s.explicit, transitions |-> s.transitions] :
   d \in Deps, p \in Parents, k \in Kinds, s \in Settings}
=============================================================================
