------------------------- MODULE MCMergeCoordinator -------------------------
(* Instances of MergeCoordinator for TLC.                                  *)
EXTENDS MergeCoordinator
CONSTANTS r1, r2, r3, r4,        \* requests
          main, release, x, y,   \* branches
          c                      \* a commit of others

(* x and y are the branches of two agents, the second of whom has not made *)
(* a commit yet; release has one of its own.                               *)
Fresh == [b \in Branch |-> IF b \in {x, release} THEN <<{main}, {b}>> ELSE <<{main}>>]
(* r1 and r4 merge x and r2 merges y into main, r3 merges main into        *)
(* release.                                                                *)
FourSources == [t \in Req |-> IF t = r2 THEN y ELSE IF t = r3 THEN main ELSE x]
FourTargets == [t \in Req |-> IF t = r3 THEN release ELSE main]
(* Every request merges x into main.                                       *)
SameSource   == [t \in Req |-> x]
SameTarget   == [t \in Req |-> main]

AllTests  == [t \in Req |-> TRUE]
SomeTests == [t \in Req |-> t # r1]
=============================================================================
