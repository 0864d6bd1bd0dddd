-------------------------- MODULE MergeCoordinator --------------------------
(***************************************************************************)
(* The merge queue of the server (server/merge-coordinator.ts): requests   *)
(* to merge an agent's branch are carried out one at a time, validated     *)
(* after the merge, and rolled back when the validation fails.             *)
(*                                                                         *)
(* requestMerge() starts processQueue() unless one is under way; what runs *)
(* between two awaits is one action.  A request that is carried out has a  *)
(* job, the git command or the validation that its await waits for.        *)
(*                                                                         *)
(* Git is external: a branch is the sequence of its first-parent commits,  *)
(* each of them the set of what it adds.  A merge commit is named by the   *)
(* request that made it, and adds that name and what the target lacked.    *)
(***************************************************************************)
EXTENDS Integers, Sequences, FiniteSets

CONSTANTS
  Req,          \* the requests
  Branch,       \* the branches of the repository
  Extra,        \* commits that others may make
  Source,       \* request.sourceBranch: [Req -> Branch]
  Target,       \* request.targetBranch: [Req -> Branch]
  RunTests,     \* request.runTests: [Req -> BOOLEAN]
  Validations,  \* how many of typecheck, lint and test are configured
  Start,        \* the branches before the first request
  Faults,       \* which commands may fail: checkout, merge, validation
  Busy,         \* the branches to which others commit
  MaxOps        \* bound: how often they do it

Commit  == Branch \cup Req \cup Extra
History == Seq(SUBSET Commit)

ASSUME RequestAssumption ==
  /\ Source \in [Req -> Branch] /\ Target \in [Req -> Branch]
  /\ RunTests \in [Req -> BOOLEAN]
ASSUME RepositoryAssumption ==
  /\ Start \in [Branch -> History \ {<<>>}]
  /\ Branch # {} /\ Busy \subseteq Branch
  /\ Validations \in 0..3
  /\ MaxOps \in Nat

MergeStatus == {"none", "queued", "running", "succeeded", "failed", "cancelled"}

JobPC  == {"idle", "checkout", "merge", "abort", "validate", "reset",
           "recheckout"}
(* merged: the merge made a commit; left: validations still to be run.     *)
Job    == [pc: JobPC, merged: BOOLEAN, left: 0..3]
NewJob == [pc |-> "checkout", merged |-> FALSE, left |-> Validations]
NoJob  == [pc |-> "idle", merged |-> FALSE, left |-> 0]

VARIABLES
  status,      \* request.status, "none" before requestMerge()
  queue,       \* the requests in the order in which they came
  processing,  \* processQueue() is under way
  job,         \* what is carried out of each request
  log,         \* the branches
  head,        \* the branch that is checked out
  ops          \* number of commits by others so far

vars == <<status, queue, processing, job, log, head, ops>>

TypeOK ==
  /\ status \in [Req -> MergeStatus]
  /\ queue \in Seq(Req)
  /\ processing \in BOOLEAN
  /\ job \in [Req -> Job]
  /\ log \in [Branch -> History]
  /\ head \in Branch
  /\ ops \in Nat

Contents(b) == UNION {log[b][i] : i \in DOMAIN log[b]}

Init ==
  /\ status = [r \in Req |-> "none"]
  /\ queue = <<>>
  /\ processing = FALSE
  /\ job = [r \in Req |-> NoJob]
  /\ log = Start
  /\ head \in Branch
  /\ ops = 0

-----------------------------------------------------------------------------
(* The queue.                                                              *)

(* r is what queue.find() returns: the first queued request.               *)
IsNext(r, q, st) ==
  \E i \in DOMAIN q : /\ q[i] = r /\ st[r] = "queued"
                      /\ \A k \in 1..(i - 1) : st[q[k]] # "queued"

(* The head of processQueue()'s loop, up to the first command: q, st and j *)
(* are the queue, the states and the jobs that it finds.                   *)
TakeNext(q, st, j) ==
  \/ \E r \in Req :
       /\ IsNext(r, q, st)
       /\ status' = [st EXCEPT ![r] = "running"]
       /\ job' = [j EXCEPT ![r] = NewJob]
       /\ processing' = TRUE
  \/ /\ ~\E r \in Req : IsNext(r, q, st)
     /\ status' = st
     /\ job' = j
     /\ processing' = FALSE

(* Mutant of RequestMerge: processing is not looked at.                    *)
RequestMergeAlways(r) ==
  LET q == Append(queue, r)  st == [status EXCEPT ![r] = "queued"] IN
  /\ status[r] = "none"
  /\ queue' = q
  /\ TakeNext(q, st, job)
  /\ UNCHANGED <<log, head, ops>>

(* Mutant of RequestMerge: it starts nothing when others have queued.      *)
RequestMergeFirst(r) ==
  LET q == Append(queue, r)  st == [status EXCEPT ![r] = "queued"] IN
  /\ status[r] = "none"
  /\ queue' = q
  /\ IF queue = <<>>
       THEN TakeNext(q, st, job)
       ELSE status' = st /\ UNCHANGED <<job, processing>>
  /\ UNCHANGED <<log, head, ops>>

RequestMerge(r) ==
  LET q == Append(queue, r)  st == [status EXCEPT ![r] = "queued"] IN
  /\ status[r] = "none"
  /\ queue' = q
  /\ IF processing THEN status' = st /\ UNCHANGED <<job, processing>>
                   ELSE TakeNext(q, st, job)
  /\ UNCHANGED <<log, head, ops>>

CancelRequest(r) ==
  /\ status[r] = "queued"
  /\ status' = [status EXCEPT ![r] = "cancelled"]
  /\ UNCHANGED <<queue, processing, job, log, head, ops>>

(* executeMerge() is over: the request has its result, the loop goes on.   *)
Finish(r, result) ==
  /\ TakeNext(queue, [status EXCEPT ![r] = result], [job EXCEPT ![r].pc = "idle"])
  /\ UNCHANGED queue

-----------------------------------------------------------------------------
(* executeMerge(): one action per command.                                 *)

At(r, p) == job[r].pc = p
Go(r, p) == /\ job' = [job EXCEPT ![r].pc = p]
            /\ UNCHANGED <<status, queue, processing>>

Checkout(r) ==
  /\ At(r, "checkout")
  /\ \/ head' = Target[r] /\ Go(r, "merge")
     \/ "checkout" \in Faults /\ Finish(r, "failed") /\ UNCHANGED head
  /\ UNCHANGED <<log, ops>>

(* After the merge: the validations, if any are asked for.                 *)
Validate(r, j) ==
  IF RunTests[r] /\ Validations > 0
    THEN /\ job' = [job EXCEPT ![r] = [j EXCEPT !.pc = "validate"]]
         /\ UNCHANGED <<status, queue, processing>>
    ELSE /\ TakeNext(queue, [status EXCEPT ![r] = "succeeded"],
                     [job EXCEPT ![r] = [j EXCEPT !.pc = "idle"]])
         /\ UNCHANGED queue

(* git merge --no-ff: nothing happens if the branch is up to date.         *)
Merge(r) ==
  LET new == Contents(Source[r]) \ Contents(head) IN
  /\ At(r, "merge")
  /\ \/ /\ new # {}
        /\ log' = [log EXCEPT ![head] = Append(@, new \cup {r})]
        /\ Validate(r, [job[r] EXCEPT !.merged = TRUE])
     \/ /\ new = {}
        /\ Validate(r, job[r])
        /\ UNCHANGED log
     \/ /\ "merge" \in Faults
        /\ Go(r, "abort")
        /\ UNCHANGED log
  /\ UNCHANGED <<head, ops>>

(* git merge --abort returned, whatever it says.                           *)
Abort(r) ==
  /\ At(r, "abort")
  /\ Finish(r, "failed")
  /\ UNCHANGED <<log, head, ops>>

(* Mutant of Validation: a failure keeps the merge.                        *)
ValidationKeeps(r) ==
  /\ At(r, "validate")
  /\ \/ job[r].left > 1 /\ job' = [job EXCEPT ![r].left = @ - 1]
        /\ UNCHANGED <<status, queue, processing>>
     \/ job[r].left = 1 /\ Finish(r, "succeeded")
     \/ "validation" \in Faults /\ Finish(r, "failed")
  /\ UNCHANGED <<log, head, ops>>

(* Mutant of Validation: the validations are run once more.                *)
ValidationOverrun(r) ==
  /\ At(r, "validate")
  /\ \/ job' = [job EXCEPT ![r].left = @ - 1] /\ UNCHANGED <<status, queue, processing>>
     \/ job[r].left = 0 /\ Finish(r, "succeeded")
     \/ "validation" \in Faults /\ Go(r, "reset")
  /\ UNCHANGED <<log, head, ops>>

(* typecheck, lint or test has ended.                                      *)
Validation(r) ==
  /\ At(r, "validate")
  /\ \/ job[r].left > 1 /\ job' = [job EXCEPT ![r].left = @ - 1]
        /\ UNCHANGED <<status, queue, processing>>
     \/ job[r].left = 1 /\ Finish(r, "succeeded")
     \/ "validation" \in Faults /\ Go(r, "reset")
  /\ UNCHANGED <<log, head, ops>>

(* rollback(): git reset --hard HEAD~1, which fails on a root commit.      *)
Reset(r) ==
  /\ At(r, "reset")
  /\ \/ /\ Len(log[head]) > 1
        /\ log' = [log EXCEPT ![head] = SubSeq(@, 1, Len(@) - 1)]
        /\ Go(r, "recheckout")
     \/ /\ Len(log[head]) <= 1
        /\ Finish(r, "failed")
        /\ UNCHANGED log
  /\ UNCHANGED <<head, ops>>

Recheckout(r) ==
  /\ At(r, "recheckout")
  /\ \/ head' = Target[r]
     \/ "checkout" \in Faults /\ UNCHANGED head
  /\ Finish(r, "failed")
  /\ UNCHANGED <<log, ops>>

JobStep(r) == \/ Checkout(r) \/ Merge(r) \/ Abort(r) \/ Validation(r)
              \/ Reset(r) \/ Recheckout(r)

-----------------------------------------------------------------------------
(* Others, such as the agents, go on committing to their branches.         *)
OtherCommit(b, c) ==
  /\ b \in Busy /\ ops < MaxOps
  /\ \A x \in Branch : c \notin Contents(x)
  /\ log' = [log EXCEPT ![b] = Append(@, {c})]
  /\ ops' = ops + 1
  /\ UNCHANGED <<status, queue, processing, job, head>>

Next == \/ \E r \in Req : RequestMerge(r) \/ CancelRequest(r) \/ JobStep(r)
        \/ \E b \in Busy, c \in Extra : OtherCommit(b, c)

Spec == Init /\ [][Next]_vars

(* Commands and validations end: the validations have a timeout.           *)
FairSpec == Spec /\ \A r \in Req : WF_vars(JobStep(r))

-----------------------------------------------------------------------------
(* Properties.                                                             *)

(* Merges are carried out one at a time: never are two requests running,   *)
(* and what runs is what processQueue() works on.                          *)
OneMergeAtATime ==
  \A r, s \in Req : ~At(r, "idle") /\ ~At(s, "idle") => r = s

(* No request is left in the queue when processQueue() has ended.          *)
NoneForgotten == \A r \in Req : status[r] = "queued" => processing

(* The merge of a request that succeeded stays in its target.              *)
SucceededStays ==
  \A r \in Req : status[r] = "succeeded" /\ job[r].merged => r \in Contents(Target[r])

(* Every request comes to an end.                                          *)
AllEnd == \A r \in Req :
  status[r] = "queued" ~> status[r] \in {"succeeded", "failed", "cancelled"}

-----------------------------------------------------------------------------
(* What the queue promises, see MergePromise: a branch whose merge is not  *)
(* decided yet appears as it was before, and a request that is rolled back *)
(* has failed.                                                             *)
Pending(r)   == At(r, "validate") \/ At(r, "reset")
Undecided(b) == \E r \in Req : Pending(r) /\ job[r].merged /\ Target[r] = b

Top(b)     == log[b][Len(log[b])]
Below(b)   == SubSeq(log[b], 1, Len(log[b]) - 1)
Settled(b) == IF Undecided(b) THEN Below(b) ELSE log[b]
Brings(r)  == IF job[r].merged THEN Top(Target[r]) ELSE {}

Outcome == [r \in Req |-> IF status[r] # "running" THEN status[r]
                          ELSE IF At(r, "recheckout") THEN "failed" ELSE "queued"]
Taken   == [r \in Req |-> IF Pending(r) THEN <<Brings(r)>> ELSE <<>>]
Content == [b \in Branch |-> Settled(b)]

Promise == INSTANCE MergePromise WITH
  outcome <- Outcome, taken <- Taken, content <- Content, Open <- Busy, Begin <- Start

(* The queue implements a merger of one request after the other: each is   *)
(* merged whole or not at all, at one moment, and nothing else of a target *)
(* changes, except that a request which was up to date and whose           *)
(* validation failed takes the target's last commit back (rollback(),      *)
(* merge-coordinator.ts:159 and 206).                                      *)
KeepsPromise == Promise!PromiseSpec
=============================================================================
