---------------------------- MODULE MCPlanGates -----------------------------
(* Instances of PlanGates for TLC. *)
EXTENDS PlanGates, TLC

CONSTANTS c1, c2, x

(* x is a step outside of the integration branch, in the second stage.     *)
ChildrenFirst == [s \in Step |-> IF s \in Child THEN 1 ELSE 2]

NoneWaits == [s \in Step |-> {}]

(* One child waits for the other.                                          *)
Chains == {[s \in Step |-> IF s = c THEN Child \ {c} ELSE {}] : c \in Child}

(* A plan that runs through, and cautious ones, in which a child may wait  *)
(* for the other or may have been skipped.                                 *)
Cautious(blockers, over) ==
  [autoContinue |-> FALSE, pauseOnFailure |-> TRUE, blockedBy |-> blockers,
   skipped |-> over]

Configs ==
  {[autoContinue |-> TRUE, pauseOnFailure |-> FALSE, blockedBy |-> NoneWaits,
    skipped |-> {}]}
  \cup {Cautious(w, {}) : w \in {NoneWaits} \cup Chains}
  \cup {Cautious(NoneWaits, {c}) : c \in Child}

Symmetry == Permutations(Child)
=============================================================================
