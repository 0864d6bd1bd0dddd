--------------------------- MODULE MCWorktreeMerge ---------------------------
(* Instances of WorktreeMerge for TLC.                                     *)
EXTENDS WorktreeMerge
CONSTANTS plain,          \* a step's call without a target
          child,          \* a call for a step with an integration branch
          other,          \* a second one of these
          final,          \* the merge of the integration branch
          main, integ, part   \* main and two integration branches

Targets == [j \in Job |-> IF j = child THEN integ
                          ELSE IF j = other THEN part ELSE NoBranch]
=============================================================================
