--------------------------- MODULE MCPlanExecutor ---------------------------
(* Instances of PlanExecutor for TLC: the plans and the symmetries.        *)
EXTENDS PlanExecutor, TLC
CONSTANTS a, b, c

OneStep    == <<a>>
TwoSteps   == <<a, b>>
ThreeSteps == <<a, b, c>>

(* Nothing blocks anything; b waits for a; c waits for a and for b.        *)
Independent == [t \in Step |-> {}]
Chain       == [t \in Step |-> IF t = b THEN {a} ELSE {}]
Join        == [t \in Step |-> IF t = c THEN {a, b} ELSE {}]

Symmetry == Permutations(Session) \cup Permutations(Worker)
=============================================================================
