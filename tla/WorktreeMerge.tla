---------------------------- MODULE WorktreeMerge ----------------------------
(***************************************************************************)
(* WorktreeManager.merge() and mergeIntegrationBranch()                    *)
(* (orchestrator/worktree.ts): the branch of a step is merged in the       *)
(* project's main working tree, in which the user may have uncommitted     *)
(* changes and which is on the user's branch.                              *)
(*                                                                         *)
(* Each call is a sequence of git commands in that one tree, each of them  *)
(* an await; the calls of several completion handlers interleave, nothing  *)
(* serialises them.  PlanExecutor takes a whole call as one step: this     *)
(* module says when it may.                                                *)
(***************************************************************************)
EXTENDS Naturals, Sequences

CONSTANTS
  Job,         \* the calls, each with a branch of its own to merge
  Branch,      \* the branches they may be merged into
  Home,        \* the branch the user has checked out
  Given,       \* targetBranch of each call: [Job -> Branch \cup {NoBranch}]
  NoBranch,    \* no targetBranch: the current branch is meant
  Final,       \* the calls of mergeIntegrationBranch()
  Exclusive,   \* assumption on the schedule: calls that overlap with no other
  Change,      \* what the user may change without committing it
  Faults       \* what may go wrong, see FaultKind

(* conflict: a merge conflicts.  The others: the command fails; restore is *)
(* the checkout of the branch that was checked out before.                 *)
FaultKind == {"conflict", "merge", "stash", "checkout", "restore", "pop"}

ASSUME BranchAssumption ==
  /\ NoBranch \notin Branch /\ Home \in Branch
  /\ Given \in [Job -> Branch \cup {NoBranch}]
  /\ Final \subseteq {j \in Job : Given[j] = NoBranch}
ASSUME ScheduleAssumption == Exclusive \subseteq Job
ASSUME FaultAssumption == Faults \subseteq FaultKind

(* The next command of a call.                                             *)
PC     == {"idle", "target", "current", "status", "stash", "checkout", "merge",
           "abort", "back", "pop", "over"}
Result == {"none", "merged", "conflict", "failed", "thrown"}
Call   == [pc: PC, target: Branch \cup {NoBranch}, previous: Branch \cup {NoBranch},
           stashed: BOOLEAN, result: Result]
NoCall == [pc |-> "idle", target |-> NoBranch, previous |-> NoBranch,
           stashed |-> FALSE, result |-> "none"]

VARIABLES
  call,     \* the local variables of each call
  head,     \* the branch that is checked out
  tree,     \* the user's uncommitted changes in the working tree
  stash,    \* git's stash, the newest entry first
  merging,  \* a conflicting merge is neither committed nor aborted
  log       \* whose branches each branch has received

vars == <<call, head, tree, stash, merging, log>>

TypeOK ==
  /\ call \in [Job -> Call]
  /\ head \in Branch
  /\ tree \subseteq Change
  /\ stash \in Seq(SUBSET Change)
  /\ merging \in BOOLEAN
  /\ log \in [Branch -> SUBSET Job]

Init ==
  /\ call = [j \in Job |-> NoCall]
  /\ head = Home
  /\ tree = {}
  /\ stash = <<>>
  /\ merging = FALSE
  /\ log = [b \in Branch |-> {}]

-----------------------------------------------------------------------------
At(j, p)    == call[j].pc = p
UnderWay(j) == call[j].pc \notin {"idle", "over"}
Quiet       == \A j \in Job : ~UnderWay(j)

(* Call j goes on to p; call j returns or throws.                          *)
Go(j, p) == call' = [call EXCEPT ![j].pc = p]
End(j, r) == call' = [call EXCEPT ![j].pc = "over", ![j].result = r]

(* mergeIntegrationBranch() without a target merges at once, and has no    *)
(* branch to go back to: see Finish.                                       *)
MergeIntegrationBranch(j) == Go(j, "merge")

(* The call is made; the worktree's internal files are removed from its    *)
(* branch.                                                                 *)
Begin(j) ==
  /\ At(j, "idle")
  /\ IF j \in Exclusive THEN Quiet
                        ELSE \A k \in Exclusive : ~UnderWay(k)
  /\ IF j \in Final THEN MergeIntegrationBranch(j)
     ELSE IF Given[j] = NoBranch THEN Go(j, "target")
     ELSE call' = [call EXCEPT ![j].pc = "current", ![j].target = Given[j]]
  /\ UNCHANGED <<head, tree, stash, merging, log>>

(* git rev-parse: without a target the current branch is the target.       *)
AskTarget(j) ==
  /\ At(j, "target")
  /\ call' = [call EXCEPT ![j].pc = "current", ![j].target = head]
  /\ UNCHANGED <<head, tree, stash, merging, log>>

(* Mutant of AskCurrent: the target is never checked out.                  *)
AskCurrentOnly(j) ==
  /\ At(j, "current")
  /\ Go(j, "merge")
  /\ UNCHANGED <<head, tree, stash, merging, log>>

(* git rev-parse: has another branch to be checked out?                    *)
AskCurrent(j) ==
  /\ At(j, "current")
  /\ IF head = call[j].target
       THEN Go(j, "merge")
       ELSE call' = [call EXCEPT ![j].pc = "status", ![j].previous = head]
  /\ UNCHANGED <<head, tree, stash, merging, log>>

(* git status: are there uncommitted changes?                              *)
AskStatus(j) ==
  /\ At(j, "status")
  /\ Go(j, IF tree = {} /\ ~merging THEN "checkout" ELSE "stash")
  /\ UNCHANGED <<head, tree, stash, merging, log>>

(* git stash push: fails in a tree with a merge under way, which does not  *)
(* matter; succeeds without an entry if the changes have gone meanwhile.   *)
Stash(j) ==
  /\ At(j, "stash")
  /\ \/ /\ ~merging
        /\ call' = [call EXCEPT ![j].pc = "checkout", ![j].stashed = TRUE]
        /\ stash' = IF tree = {} THEN stash ELSE <<tree>> \o stash
        /\ tree' = {}
     \/ /\ merging \/ "stash" \in Faults
        /\ Go(j, "checkout")
        /\ UNCHANGED <<tree, stash>>
  /\ UNCHANGED <<head, merging, log>>

(* git checkout of the target; its failure is thrown out of merge().       *)
Checkout(j) ==
  /\ At(j, "checkout")
  /\ \/ /\ ~merging
        /\ head' = call[j].target
        /\ Go(j, "merge")
     \/ /\ merging \/ "checkout" \in Faults
        /\ End(j, "thrown")
        /\ UNCHANGED head
  /\ UNCHANGED <<tree, stash, merging, log>>

(* Mutant of Finish: the previous branch is checked out though there was   *)
(* none.                                                                   *)
FinishAlways(j, r) == call' = [call EXCEPT ![j].pc = "back", ![j].result = r]

(* What follows the merge: restoreTree(), for a step's call.               *)
Finish(j, r) ==
  IF call[j].previous # NoBranch
    THEN call' = [call EXCEPT ![j].pc = "back", ![j].result = r]
    ELSE End(j, r)

(* Mutant of Merge: a failure that is no conflict is taken for a success.  *)
MergeUnchecked(j) ==
  /\ At(j, "merge")
  /\ \/ ~merging /\ log' = [log EXCEPT ![head] = @ \cup {j}]
        /\ Finish(j, "merged") /\ UNCHANGED merging
     \/ ~merging /\ "conflict" \in Faults /\ merging' = TRUE
        /\ Go(j, "abort") /\ UNCHANGED log
     \/ (merging \/ "merge" \in Faults) /\ Finish(j, "merged")
        /\ UNCHANGED <<merging, log>>
  /\ UNCHANGED <<head, tree, stash>>

(* git merge --no-ff, into whatever branch is checked out by now.          *)
Merge(j) ==
  /\ At(j, "merge")
  /\ \/ /\ ~merging
        /\ log' = [log EXCEPT ![head] = @ \cup {j}]
        /\ Finish(j, "merged")
        /\ UNCHANGED merging
     \/ /\ ~merging /\ "conflict" \in Faults
        /\ merging' = TRUE
        /\ Go(j, "abort")
        /\ UNCHANGED log
     \/ /\ merging \/ "merge" \in Faults
        /\ Finish(j, "failed")
        /\ UNCHANGED <<merging, log>>
  /\ UNCHANGED <<head, tree, stash>>

(* git merge --abort.                                                      *)
Abort(j) ==
  /\ At(j, "abort")
  /\ merging' = FALSE
  /\ Finish(j, "conflict")
  /\ UNCHANGED <<head, tree, stash, log>>

(* The head of restoreTree(): the stash is popped if one was pushed.       *)
AfterBack(j) == Go(j, IF call[j].stashed THEN "pop" ELSE "over")

(* Mutant of Back: after a conflict the branch is not restored.            *)
BackUnlessConflict(j) ==
  /\ At(j, "back")
  /\ head' = IF call[j].result = "conflict" THEN head ELSE call[j].previous
  /\ AfterBack(j)
  /\ UNCHANGED <<tree, stash, merging, log>>

(* git checkout of the previous branch, as well as it goes.                *)
Back(j) ==
  /\ At(j, "back")
  /\ head' \in IF merging THEN {head}
              ELSE {call[j].previous} \cup (IF "restore" \in Faults THEN {head} ELSE {})
  /\ AfterBack(j)
  /\ UNCHANGED <<tree, stash, merging, log>>

(* Mutant of Pop: the entry is dropped even if it cannot be applied.       *)
PopOrDrop(j) ==
  /\ At(j, "pop")
  /\ \/ stash # <<>> /\ tree' = tree \cup stash[1]
     \/ "pop" \in Faults /\ UNCHANGED tree
  /\ stash' = IF stash = <<>> THEN stash ELSE Tail(stash)
  /\ Go(j, "over")
  /\ UNCHANGED <<head, merging, log>>

(* git stash pop: an entry that cannot be applied stays in the stash.      *)
Pop(j) ==
  /\ At(j, "pop")
  /\ \/ /\ stash # <<>> /\ ~merging
        /\ tree' = tree \cup stash[1]
        /\ stash' = Tail(stash)
     \/ /\ stash = <<>> \/ merging \/ "pop" \in Faults
        /\ UNCHANGED <<tree, stash>>
  /\ Go(j, "over")
  /\ UNCHANGED <<head, merging, log>>

CallStep(j) == \/ AskTarget(j) \/ AskCurrent(j) \/ AskStatus(j) \/ Stash(j)
               \/ Checkout(j) \/ Merge(j) \/ Abort(j) \/ Back(j) \/ Pop(j)

(* The user changes files; each change is made once.                       *)
Stashed == UNION {stash[i] : i \in DOMAIN stash}
UserEdit(c) ==
  /\ c \notin tree \cup Stashed
  /\ tree' = tree \cup {c}
  /\ UNCHANGED <<call, head, stash, merging, log>>

Next == \/ \E j \in Job : Begin(j) \/ CallStep(j)
        \/ \E c \in Change : UserEdit(c)

Spec == Init /\ [][Next]_vars

-----------------------------------------------------------------------------
(* Properties.                                                             *)

Goal(j) == IF Given[j] = NoBranch THEN Home ELSE Given[j]

(* A branch is merged into the branch it is meant for and into no other:   *)
(* the one named, or the user's own.                                       *)
LandsInTarget == \A b \in Branch : \A j \in log[b] : b = Goal(j)

(* What a call reports is what has happened: merged means that the branch  *)
(* is in its target, everything else that it is nowhere.                   *)
ReportsTruth ==
  \A j \in Job : At(j, "over") =>
    IF call[j].result = "merged" THEN j \in log[Goal(j)]
                                 ELSE \A b \in Branch : j \notin log[b]

(* When no call is under way the user's branch is checked out and no merge *)
(* is left unfinished, whatever has failed.                                *)
TreeRestored == Quiet => head = Home /\ ~merging

(* The user's uncommitted changes are never lost: they are in the working  *)
(* tree or in the stash.                                                   *)
ChangesKept == [][tree \cup Stashed \subseteq (tree \cup Stashed)']_vars
=============================================================================
