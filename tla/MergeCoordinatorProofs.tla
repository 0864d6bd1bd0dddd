----------------------- MODULE MergeCoordinatorProofs -----------------------
(* Proofs about MergeCoordinator, for any number of requests and branches, *)
(* whatever fails and whatever others do.                                  *)
EXTENDS MergeCoordinator, SequenceTheorems, WellFoundedInduction, TLAPS

(* processing says whether a request is running; at most one is, it is the *)
(* one that has a job; and what is queued can be found in the queue.       *)
Serial ==
  /\ \A r \in Req : status[r] = "running" <=> job[r].pc # "idle"
  /\ \A r, s \in Req : status[r] = "running" /\ status[s] = "running" => r = s
  /\ processing <=> \E r \in Req : status[r] = "running"

Found == \A r \in Req : status[r] = "queued" => \E i \in DOMAIN queue : queue[i] = r

MInv == TypeOK /\ Serial /\ Found /\ NoneForgotten

-----------------------------------------------------------------------------
(* queue.find() finds a queued request if there is one.                    *)
LEMMA FindFirst ==
  ASSUME NEW q \in Seq(Req), NEW st, NEW r \in Req, st[r] = "queued",
         \E i \in DOMAIN q : q[i] = r
  PROVE  \E n \in Req : IsNext(n, q, st)
  <1> DEFINE T == {i \in DOMAIN q : st[q[i]] = "queued"}
  <1>1. T \subseteq Nat /\ T # {}
    OBVIOUS
  <1>2. PICK m \in T : \A i \in T : ~(i < m)
    <2>1. PICK m \in T : \A i \in T : ~(<<i, m>> \in OpToRel(<, Nat))
      BY <1>1, NatLessThanWellFounded, WFMin
    <2>2. \A i \in T : i < m => <<i, m>> \in OpToRel(<, Nat)
      BY <1>1 DEF OpToRel
    <2> QED BY <2>1, <2>2
  <1>3. \A k \in 1..(m - 1) : st[q[k]] # "queued"
    <2> SUFFICES ASSUME NEW k \in 1..(m - 1), st[q[k]] = "queued" PROVE FALSE
      OBVIOUS
    <2>1. k \in DOMAIN q /\ k < m
      BY <1>1
    <2> QED BY <1>2, <2>1
  <1>4. q[m] \in Req /\ st[q[m]] = "queued"
    OBVIOUS
  <1> QED BY <1>3, <1>4 DEF IsNext

QueueOK == /\ status' \in [Req -> MergeStatus]
           /\ job' \in [Req -> Job]
           /\ processing' \in BOOLEAN
           /\ Serial' /\ Found' /\ NoneForgotten'

(* When nothing is running the loop takes up what is first in the queue.   *)
LEMMA TakeNextKeeps ==
  ASSUME NEW q \in Seq(Req), NEW st \in [Req -> MergeStatus], NEW j \in [Req -> Job],
         \A r \in Req : st[r] # "running" /\ j[r].pc = "idle",
         \A r \in Req : st[r] = "queued" => \E i \in DOMAIN q : q[i] = r,
         TakeNext(q, st, j), queue' = q
  PROVE  QueueOK
  <1>1. ASSUME NEW r \in Req, status' = [st EXCEPT ![r] = "running"],
               job' = [j EXCEPT ![r] = NewJob], processing' = TRUE
        PROVE  QueueOK
    <2>1. NewJob \in Job /\ NewJob.pc = "checkout"
      BY RepositoryAssumption DEF NewJob, Job, JobPC
    <2>2. /\ status' \in [Req -> MergeStatus]
          /\ job' \in [Req -> Job]
      BY <1>1, <2>1 DEF MergeStatus
    <2>3. \A t \in Req : /\ status'[t] = "running" <=> t = r
                         /\ job'[t].pc # "idle" <=> t = r
      BY <1>1, <2>1
    <2>4. Serial'
      BY <1>1, <2>3 DEF Serial
    <2>5. \A t \in Req : status'[t] = "queued" => st[t] = "queued"
      BY <1>1
    <2> QED BY <1>1, <2>2, <2>4, <2>5 DEF QueueOK, Found, NoneForgotten
  <1>2. ASSUME ~\E r \in Req : IsNext(r, q, st), status' = st, job' = j,
               processing' = FALSE
        PROVE  QueueOK
    <2>1. \A r \in Req : st[r] # "queued"
      BY <1>2, FindFirst
    <2>2. \A r \in Req : status'[r] # "running" /\ job'[r].pc = "idle"
                         /\ status'[r] # "queued"
      BY <1>2, <2>1
    <2> QED BY <1>2, <2>2 DEF QueueOK, Serial, Found, NoneForgotten
  <1> QED BY <1>1, <1>2 DEF TakeNext

(* A request that runs goes on to its next command.                        *)
LEMMA GoKeeps ==
  ASSUME MInv, NEW r \in Req, NEW j \in Job, j.pc # "idle", ~At(r, "idle"),
         job' = [job EXCEPT ![r] = j], UNCHANGED <<status, queue, processing>>
  PROVE  QueueOK
  <1>1. /\ job' \in [Req -> Job]
        /\ \A t \in Req : job'[t].pc # "idle" <=> job[t].pc # "idle"
    BY DEF MInv, TypeOK, At
  <1> QED BY <1>1 DEF QueueOK, MInv, TypeOK, Serial, Found, NoneForgotten

(* A request that runs is decided, and the loop goes on.                   *)
LEMMA FinishKeeps ==
  ASSUME MInv, NEW r \in Req, NEW j \in Job, j.pc = "idle", ~At(r, "idle"),
         NEW result \in {"succeeded", "failed"},
         TakeNext(queue, [status EXCEPT ![r] = result], [job EXCEPT ![r] = j]),
         UNCHANGED queue
  PROVE  QueueOK
  <1> DEFINE st == [status EXCEPT ![r] = result]
             jb == [job EXCEPT ![r] = j]
  <1>1. queue \in Seq(Req) /\ st \in [Req -> MergeStatus] /\ jb \in [Req -> Job]
    BY DEF MInv, TypeOK, MergeStatus
  <1>2. \A t \in Req : st[t] # "running" /\ jb[t].pc = "idle"
    BY DEF MInv, TypeOK, Serial, At
  <1>3. \A t \in Req : st[t] = "queued" => \E i \in DOMAIN queue : queue[i] = t
    BY DEF MInv, TypeOK, Found
  <1> HIDE DEF st, jb
  <1>4. TakeNext(queue, st, jb) /\ queue' = queue
    BY DEF st, jb
  <1> QED BY <1>1, <1>2, <1>3, <1>4, TakeNextKeeps

LEMMA ShortForms ==
  ASSUME MInv, NEW r \in Req, ~At(r, "idle")
  PROVE  /\ \A p \in JobPC \ {"idle"} : Go(r, p) => QueueOK
         /\ \A x \in {"succeeded", "failed"} : Finish(r, x) => QueueOK
         /\ \A j \in Job : Validate(r, j) => QueueOK
  <1>1. job[r] \in Job
    BY DEF MInv, TypeOK
  <1>2. ASSUME NEW p \in JobPC \ {"idle"}, Go(r, p) PROVE QueueOK
    <2>1. [job[r] EXCEPT !.pc = p] \in Job
      BY <1>1 DEF Job
    <2>2. /\ job' = [job EXCEPT ![r] = [job[r] EXCEPT !.pc = p]]
          /\ UNCHANGED <<status, queue, processing>>
      BY <1>2 DEF Go
    <2>3. [job[r] EXCEPT !.pc = p].pc # "idle"
      BY <1>1 DEF Job
    <2> QED BY <2>1, <2>2, <2>3, GoKeeps
  <1>3. ASSUME NEW x \in {"succeeded", "failed"}, Finish(r, x) PROVE QueueOK
    <2> DEFINE j == [job[r] EXCEPT !.pc = "idle"]
    <2>1. j \in Job /\ j.pc = "idle"
      BY <1>1 DEF Job, JobPC
    <2>2. [job EXCEPT ![r].pc = "idle"] = [job EXCEPT ![r] = j]
      OBVIOUS
    <2>3. TakeNext(queue, [status EXCEPT ![r] = x], [job EXCEPT ![r] = j])
          /\ UNCHANGED queue
      BY <1>3, <2>2 DEF Finish
    <2> HIDE DEF j
    <2> QED BY <2>1, <2>3, FinishKeeps
  <1>4. ASSUME NEW j \in Job, Validate(r, j) PROVE QueueOK
    <2>1. CASE RunTests[r] /\ Validations > 0
      <3> DEFINE k == [j EXCEPT !.pc = "validate"]
      <3>1. k \in Job /\ k.pc # "idle"
        BY DEF Job, JobPC
      <3>2. job' = [job EXCEPT ![r] = k] /\ UNCHANGED <<status, queue, processing>>
        BY <1>4, <2>1 DEF Validate
      <3> HIDE DEF k
      <3> QED BY <3>1, <3>2, GoKeeps
    <2>2. CASE ~(RunTests[r] /\ Validations > 0)
      <3> DEFINE k == [j EXCEPT !.pc = "idle"]
      <3>1. k \in Job /\ k.pc = "idle"
        BY DEF Job, JobPC
      <3>2. TakeNext(queue, [status EXCEPT ![r] = "succeeded"], [job EXCEPT ![r] = k])
            /\ UNCHANGED queue
        BY <1>4, <2>2 DEF Validate
      <3> HIDE DEF k
      <3> QED BY <3>1, <3>2, FinishKeeps
    <2> QED BY <2>1, <2>2
  <1> QED BY <1>2, <1>3, <1>4

-----------------------------------------------------------------------------
RepoOK == log' \in [Branch -> History] /\ head' \in Branch /\ ops' \in Nat

LEMMA Keeps == ASSUME QueueOK, RepoOK, queue' \in Seq(Req) PROVE MInv'
  BY DEF QueueOK, RepoOK, MInv, TypeOK

LEMMA ContentsType ==
  ASSUME TypeOK, NEW b \in Branch
  PROVE  Contents(b) \subseteq Commit
  <1>1. log[b] \in Seq(SUBSET Commit)
    BY DEF TypeOK, History
  <1>2. \A i \in DOMAIN log[b] : log[b][i] \subseteq Commit
    BY <1>1
  <1> QED BY <1>2 DEF Contents

LEMMA CommitType ==
  ASSUME TypeOK, NEW b \in Branch, NEW x \in SUBSET Commit
  PROVE  [log EXCEPT ![b] = Append(@, x)] \in [Branch -> History]
  BY DEF TypeOK, History

LEMMA RequestKeeps ==
  ASSUME MInv, NEW r \in Req, RequestMerge(r)
  PROVE  MInv'
  <1> DEFINE q == Append(queue, r)
             st == [status EXCEPT ![r] = "queued"]
  <1>1. q \in Seq(Req) /\ st \in [Req -> MergeStatus] /\ queue' = q
    BY DEF RequestMerge, MInv, TypeOK, MergeStatus
  <1>2. RepoOK
    BY DEF RequestMerge, RepoOK, MInv, TypeOK
  <1>3. \A t \in Req : st[t] = "queued" => \E i \in DOMAIN q : q[i] = t
    <2> SUFFICES ASSUME NEW t \in Req, st[t] = "queued"
                 PROVE  \E i \in DOMAIN q : q[i] = t
      OBVIOUS
    <2>1. /\ queue \in Seq(Req)
          /\ Len(q) = Len(queue) + 1
          /\ q[Len(queue) + 1] = r
          /\ \A i \in 1..Len(queue) : q[i] = queue[i]
      BY DEF MInv, TypeOK
    <2>2. CASE t = r
      <3>1. Len(queue) + 1 \in DOMAIN q
        BY <1>1, <2>1
      <3> QED BY <2>1, <2>2, <3>1
    <2>3. CASE t # r
      <3>1. status[t] = "queued"
        BY <2>3 DEF MInv, TypeOK
      <3>2. PICK i \in DOMAIN queue : queue[i] = t
        BY <3>1 DEF MInv, Found
      <3>3. i \in 1..Len(queue) /\ i \in DOMAIN q
        BY <1>1, <2>1
      <3> QED BY <2>1, <3>2, <3>3
    <2> QED BY <2>2, <2>3
  <1>4. CASE processing
    <2>1. status' = st /\ job' = job /\ processing' = processing
      BY <1>4 DEF RequestMerge
    <2>2. \A t \in Req : st[t] = "running" <=> status[t] = "running"
      BY DEF RequestMerge, MInv, TypeOK
    <2>3. Serial'
      BY <2>1, <2>2 DEF MInv, Serial
    <2>4. Found'
      BY <1>1, <1>3, <2>1 DEF Found
    <2>5. QueueOK
      BY <1>1, <1>4, <2>1, <2>3, <2>4 DEF QueueOK, MInv, TypeOK, NoneForgotten
    <2> QED BY <1>1, <1>2, <2>5, Keeps
  <1>5. CASE ~processing
    <2>1. TakeNext(q, st, job)
      BY <1>5 DEF RequestMerge
    <2>2. \A t \in Req : st[t] # "running" /\ job[t].pc = "idle"
      BY <1>5 DEF MInv, TypeOK, Serial
    <2>3. job \in [Req -> Job]
      BY DEF MInv, TypeOK
    <2> HIDE DEF q, st
    <2>4. QueueOK
      BY <1>1, <1>3, <2>1, <2>2, <2>3, TakeNextKeeps
    <2> QED BY <1>1, <1>2, <2>4, Keeps
  <1> QED BY <1>4, <1>5

LEMMA CancelKeeps ==
  ASSUME MInv, NEW r \in Req, CancelRequest(r)
  PROVE  MInv'
  <1>1. /\ status' = [status EXCEPT ![r] = "cancelled"] /\ status[r] = "queued"
        /\ UNCHANGED <<queue, processing, job, log, head, ops>>
    BY DEF CancelRequest
  <1>2. status' \in [Req -> MergeStatus]
    BY <1>1 DEF MInv, TypeOK, MergeStatus
  <1>3. \A t \in Req : /\ status'[t] = "running" <=> status[t] = "running"
                       /\ status'[t] = "queued" => status[t] = "queued"
    BY <1>1 DEF MInv, TypeOK
  <1>4. Serial' /\ Found' /\ NoneForgotten'
    BY <1>1, <1>3 DEF MInv, Serial, Found, NoneForgotten
  <1> QED BY <1>1, <1>2, <1>4 DEF MInv, TypeOK

LEMMA JobKeeps ==
  ASSUME MInv, NEW r \in Req, JobStep(r)
  PROVE  MInv'
  <1>1. ~At(r, "idle")
    BY DEF JobStep, Checkout, Merge, Abort, Validation, Reset, Recheckout, At
  <1>2. queue' \in Seq(Req)
    BY DEF JobStep, Checkout, Merge, Abort, Validation, Reset, Recheckout, Go,
           Finish, Validate, MInv, TypeOK
  <1>3. job[r] \in Job /\ Target[r] \in Branch /\ Source[r] \in Branch
    BY RequestAssumption DEF MInv, TypeOK
  <1>4. QueueOK
    <2>1. CASE Checkout(r) \/ Abort(r) \/ Reset(r) \/ Recheckout(r)
      BY <1>1, <2>1, ShortForms DEF Checkout, Abort, Reset, Recheckout, JobPC
    <2>2. CASE Merge(r)
      <3>1. [job[r] EXCEPT !.merged = TRUE] \in Job
        BY <1>3 DEF Job
      <3> QED BY <1>1, <1>3, <2>2, <3>1, ShortForms DEF Merge, JobPC
    <2>3. CASE Validation(r)
      <3>1. ASSUME job[r].left > 1, job' = [job EXCEPT ![r].left = @ - 1],
                   UNCHANGED <<status, queue, processing>>
            PROVE  QueueOK
        <4> DEFINE j == [job[r] EXCEPT !.left = @ - 1]
        <4>1. j \in Job /\ j.pc = job[r].pc
          <5>1. job[r].left - 1 \in 0..3
            BY <1>3, <3>1 DEF Job
          <5> QED BY <1>3, <5>1 DEF Job
        <4>2. job' = [job EXCEPT ![r] = j]
          BY <3>1
        <4> HIDE DEF j
        <4> QED BY <1>1, <3>1, <4>1, <4>2, GoKeeps DEF At
      <3> QED BY <1>1, <2>3, <3>1, ShortForms DEF Validation, JobPC
    <2> QED BY <2>1, <2>2, <2>3 DEF JobStep
  <1>5. RepoOK
    <2>1. CASE Checkout(r) \/ Recheckout(r)
      BY <1>3, <2>1 DEF Checkout, Recheckout, RepoOK, MInv, TypeOK
    <2>2. CASE Merge(r)
      <3> DEFINE new == Contents(Source[r]) \ Contents(head)
      <3>1. new \cup {r} \subseteq Commit
        BY <1>3, ContentsType DEF Commit, MInv
      <3>2. \/ log' = [log EXCEPT ![head] = Append(@, new \cup {r})]
            \/ log' = log
        BY <2>2 DEF Merge
      <3> HIDE DEF new
      <3>3. head \in Branch /\ TypeOK
        BY DEF MInv, TypeOK
      <3>4. log' \in [Branch -> History]
        <4>1. new \cup {r} \in SUBSET Commit
          BY <3>1
        <4>2. [log EXCEPT ![head] = Append(@, new \cup {r})] \in [Branch -> History]
          BY <3>3, <4>1, CommitType
        <4> QED BY <3>2, <3>3, <4>2 DEF TypeOK
      <3> QED BY <2>2, <3>4 DEF Merge, RepoOK, MInv, TypeOK
    <2>3. CASE Reset(r)
      <3>1. log' \in [Branch -> History]
        <4>1. CASE UNCHANGED log
          BY <4>1 DEF MInv, TypeOK
        <4>2. CASE /\ Len(log[head]) > 1
                   /\ log' = [log EXCEPT ![head] = SubSeq(@, 1, Len(@) - 1)]
          <5>1. log[head] \in Seq(SUBSET Commit)
            BY DEF MInv, TypeOK, History
          <5>2. SubSeq(log[head], 1, Len(log[head]) - 1) \in Seq(SUBSET Commit)
            BY <4>2, <5>1
          <5> QED BY <4>2, <5>2 DEF MInv, TypeOK, History
        <4> QED BY <2>3, <4>1, <4>2 DEF Reset
      <3> QED BY <2>3, <3>1 DEF Reset, RepoOK, MInv, TypeOK
    <2>4. CASE Abort(r) \/ Validation(r)
      BY <2>4 DEF Abort, Validation, RepoOK, MInv, TypeOK
    <2> QED BY <2>1, <2>2, <2>3, <2>4 DEF JobStep
  <1> QED BY <1>2, <1>4, <1>5, Keeps

LEMMA OthersKeep ==
  ASSUME MInv, NEW b \in Busy, NEW c \in Extra, OtherCommit(b, c)
  PROVE  MInv'
  <1>1. {c} \in SUBSET Commit
    BY DEF Commit
  <1>2. b \in Branch
    BY RepositoryAssumption
  <1>3. log' \in [Branch -> History]
    BY <1>1, <1>2, CommitType DEF OtherCommit, MInv
  <1> QED BY <1>3 DEF OtherCommit, MInv, TypeOK, Serial, Found, NoneForgotten

LEMMA InitKeeps == Init => MInv
  <1> SUFFICES ASSUME Init PROVE MInv
    OBVIOUS
  <1>1. NoJob \in Job /\ NoJob.pc = "idle"
    BY DEF NoJob, Job, JobPC
  <1>2. job \in [Req -> Job] /\ \A r \in Req : job[r].pc = "idle"
    BY <1>1 DEF Init
  <1>3. status \in [Req -> MergeStatus] /\ \A r \in Req : status[r] = "none"
    BY DEF Init, MergeStatus
  <1>4. queue \in Seq(Req) /\ ops \in Nat /\ processing = FALSE
    BY DEF Init
  <1>5. log \in [Branch -> History] /\ head \in Branch
    BY RepositoryAssumption DEF Init
  <1>6. Serial /\ Found /\ NoneForgotten
    BY <1>2, <1>3, <1>4 DEF Serial, Found, NoneForgotten
  <1> QED BY <1>2, <1>3, <1>4, <1>5, <1>6 DEF MInv, TypeOK

LEMMA StepKeeps == MInv /\ [Next]_vars => MInv'
  <1> SUFFICES ASSUME MInv, [Next]_vars PROVE MInv'
    OBVIOUS
  <1>1. CASE UNCHANGED vars
    BY <1>1 DEF vars, MInv, TypeOK, Serial, Found, NoneForgotten
  <1>2. CASE Next
    BY <1>2, RequestKeeps, CancelKeeps, JobKeeps, OthersKeep DEF Next
  <1> QED BY <1>1, <1>2

(* Types: no validation is run after the last one.                         *)
THEOREM TypeCorrect == Spec => []TypeOK
  <1>1. MInv => TypeOK
    BY DEF MInv
  <1> QED BY <1>1, InitKeeps, StepKeeps, PTL DEF Spec

(* Merges are carried out one at a time, however requests come in, fail    *)
(* and are cancelled, and whatever happens in the repository meanwhile.    *)
THEOREM MergesSerialised == Spec => []OneMergeAtATime
  <1>1. MInv => OneMergeAtATime
    BY DEF MInv, Serial, OneMergeAtATime, At
  <1> QED BY <1>1, InitKeeps, StepKeeps, PTL DEF Spec

(* processQueue() never ends with a request left in the queue, so that     *)
(* nothing would ever start it.                                            *)
THEOREM NoRequestForgotten == Spec => []NoneForgotten
  <1>1. MInv => NoneForgotten
    BY DEF MInv
  <1> QED BY <1>1, InitKeeps, StepKeeps, PTL DEF Spec
-----------------------------------------------------------------------------
(* The refinement of MergePromise.                                         *)

(* Others do not commit to a branch that requests are merged into: a commit *)
(* on top of a merge would be taken back in its place.                      *)
TargetsAreQuiet == \A r \in Req : Target[r] \notin Busy

(* From its checkout on, a request has its target checked out; the commit  *)
(* that it may have made is on top of a branch that was not empty before.  *)
Worked == {"merge", "abort", "validate", "reset", "recheckout"}
OnABranch(b) == Len(log[b]) > 1 /\ Top(b) # {}
Placed ==
  /\ \A r \in Req : job[r].pc \in Worked => head = Target[r]
  /\ \A r \in Req : job[r].pc \in {"checkout", "merge"} => ~job[r].merged
  /\ \A b \in Branch : Len(log[b]) > 0
  /\ \A r \in Req : Pending(r) /\ job[r].merged => OnABranch(Target[r])

(* A commit on top of a branch, and what is below it.                      *)
LEMMA OnTop ==
  ASSUME NEW S, NEW s \in Seq(S), NEW x \in S
  PROVE  /\ Append(s, x) \in Seq(S) /\ Len(Append(s, x)) = Len(s) + 1
         /\ Append(s, x)[Len(s) + 1] = x
         /\ SubSeq(Append(s, x), 1, Len(s)) = s
  <1> DEFINE t == Append(s, x)
             u == SubSeq(t, 1, Len(s))
  <1>1. /\ t \in Seq(S) /\ Len(t) = Len(s) + 1 /\ t[Len(s) + 1] = x
        /\ Len(s) \in Nat /\ \A i \in 1..Len(s) : t[i] = s[i] /\ s[i] \in S
    OBVIOUS
  <1> HIDE DEF t
  <1>2. u \in Seq(S) /\ Len(u) = Len(s) /\ \A i \in 1..Len(s) : u[i] = t[i]
    <2>1. 1 \in Int /\ Len(s) \in Int /\ \A i \in 1..Len(s) : t[i] \in S
      BY <1>1
    <2>2. /\ u \in Seq(S) /\ Len(u) = IF 1 <= Len(s) THEN Len(s) - 1 + 1 ELSE 0
          /\ \A i \in 1..(Len(s) - 1 + 1) : u[i] = t[1 + i - 1]
      BY <2>1, SubSeqProperties
    <2>3. Len(s) - 1 + 1 = Len(s) /\ \A i \in 1..Len(s) : 1 + i - 1 = i
      BY <1>1
    <2> HIDE DEF u
    <2> QED BY <1>1, <2>2, <2>3
  <1> HIDE DEF u
  <1>3. u = s
    BY <1>1, <1>2, SeqEqual
  <1> QED BY <1>1, <1>3 DEF t, u

LEMMA OffTop ==
  ASSUME NEW S, NEW s \in Seq(S), Len(s) > 0
  PROVE  /\ SubSeq(s, 1, Len(s) - 1) \in Seq(S)
         /\ Len(SubSeq(s, 1, Len(s) - 1)) = Len(s) - 1
         /\ Append(SubSeq(s, 1, Len(s) - 1), s[Len(s)]) = s
  <1> DEFINE t == SubSeq(s, 1, Len(s) - 1)
             u == Append(t, s[Len(s)])
  <1>1. Len(s) \in Nat /\ \A i \in 1..Len(s) : s[i] \in S
    OBVIOUS
  <1>2. 1 \in Int /\ Len(s) - 1 \in Nat /\ \A i \in 1..(Len(s) - 1) : s[i] \in S
    BY <1>1
  <1>3. /\ t \in Seq(S) /\ Len(t) = Len(s) - 1
        /\ \A i \in 1..(Len(s) - 1) : t[i] = s[i]
    <2> DEFINE n == Len(s) - 1
    <2>1. 1 \in Int /\ n \in Int /\ n \in Nat /\ \A i \in 1..n : s[i] \in S
      BY <1>2
    <2> HIDE DEF n
    <2>2. /\ SubSeq(s, 1, n) \in Seq(S)
          /\ Len(SubSeq(s, 1, n)) = IF 1 <= n THEN n - 1 + 1 ELSE 0
          /\ \A i \in 1..(n - 1 + 1) : SubSeq(s, 1, n)[i] = s[1 + i - 1]
      BY <2>1, SubSeqProperties
    <2>3. n - 1 + 1 = n /\ \A i \in 1..n : 1 + i - 1 = i
      BY <2>1
    <2>4. /\ SubSeq(s, 1, n) \in Seq(S) /\ Len(SubSeq(s, 1, n)) = n
          /\ \A i \in 1..n : SubSeq(s, 1, n)[i] = s[i]
      BY <2>1, <2>2, <2>3
    <2> QED BY <2>4 DEF n
  <1>5. s[Len(s)] \in S
    BY <1>1
  <1> HIDE DEF t
  <1>6. /\ u \in Seq(S) /\ Len(u) = Len(t) + 1 /\ u[Len(t) + 1] = s[Len(s)]
        /\ \A i \in 1..Len(t) : u[i] = t[i]
    BY <1>3, <1>5
  <1> HIDE DEF u
  <1>7. Len(u) = Len(s) /\ \A i \in 1..Len(u) : u[i] = s[i]
    BY <1>1, <1>3, <1>6
  <1>8. u = s
    BY <1>6, <1>7, SeqEqual
  <1> QED BY <1>3, <1>8 DEF t, u

(* What a client sees of a request's status.                               *)
Shown(x) == IF x = "running" THEN "queued" ELSE x

(* The loop goes on: a client sees nothing of it, and no merge is pending. *)
LEMMA LoopHidden ==
  ASSUME NEW q, NEW st \in [Req -> MergeStatus], NEW j \in [Req -> Job],
         \A r \in Req : st[r] # "running" /\ j[r].pc = "idle",
         TakeNext(q, st, j)
  PROVE  \A r \in Req : /\ Shown(status'[r]) = st[r]
                        /\ job'[r].pc \in {"idle", "checkout"}
                        /\ job'[r].pc = "checkout" => ~job'[r].merged
  <1>1. ASSUME NEW r \in Req, IsNext(r, q, st), status' = [st EXCEPT ![r] = "running"],
               job' = [j EXCEPT ![r] = NewJob]
        PROVE  \A t \in Req : /\ Shown(status'[t]) = st[t]
                              /\ job'[t].pc \in {"idle", "checkout"}
                              /\ job'[t].pc = "checkout" => ~job'[t].merged
    BY <1>1 DEF IsNext, Shown, NewJob
  <1>2. ASSUME status' = st, job' = j
        PROVE  \A t \in Req : /\ Shown(status'[t]) = st[t]
                              /\ job'[t].pc \in {"idle", "checkout"}
                              /\ job'[t].pc = "checkout" => ~job'[t].merged
    BY <1>2 DEF Shown
  <1> QED BY <1>1, <1>2 DEF TakeNext

(* A request that runs is decided: a client sees its result, and of no     *)
(* other request anything.                                                 *)
Decided(r, result) ==
  \A t \in Req : /\ Shown(status'[t]) = IF t = r THEN result ELSE Shown(status[t])
                 /\ job'[t].pc \in {"idle", "checkout"}
                 /\ job'[t].pc = "checkout" => ~job'[t].merged

LEMMA FinishDecides ==
  ASSUME MInv, NEW r \in Req, NEW j \in Job, j.pc = "idle", ~At(r, "idle"),
         NEW result \in {"succeeded", "failed"},
         TakeNext(queue, [status EXCEPT ![r] = result], [job EXCEPT ![r] = j])
  PROVE  Decided(r, result)
  <1> DEFINE st == [status EXCEPT ![r] = result]
             jb == [job EXCEPT ![r] = j]
  <1>1. st \in [Req -> MergeStatus] /\ jb \in [Req -> Job]
    BY DEF MInv, TypeOK, MergeStatus
  <1>2. \A t \in Req : st[t] # "running" /\ jb[t].pc = "idle"
    BY DEF MInv, TypeOK, Serial, At
  <1>3. \A t \in Req : st[t] = IF t = r THEN result ELSE Shown(status[t])
    BY <1>2 DEF MInv, TypeOK, Shown
  <1>4. TakeNext(queue, st, jb)
    OBVIOUS
  <1> HIDE DEF st, jb
  <1>5. \A t \in Req : /\ Shown(status'[t]) = st[t]
                       /\ job'[t].pc \in {"idle", "checkout"}
                       /\ job'[t].pc = "checkout" => ~job'[t].merged
    BY <1>1, <1>2, <1>4, LoopHidden
  <1> QED BY <1>3, <1>5 DEF Decided

(* What a client sees while no merge is pending, before and after a step.  *)
LEMMA PlainView ==
  (\A r \in Req : ~Pending(r)) => /\ Taken = [r \in Req |-> <<>>]
                                  /\ Content = [b \in Branch |-> log[b]]
  BY DEF Taken, Content, Settled, Undecided

LEMMA PlainViewNext ==
  (\A r \in Req : ~Pending(r)') => /\ Taken' = [r \in Req |-> <<>>]
                                   /\ Content' = [b \in Branch |-> log'[b]]
  BY DEF Taken, Content, Settled, Undecided

(* While r is carried out no other merge is pending, and r is queued until *)
(* it is rolled back.                                                      *)
LEMMA OnlyOne ==
  ASSUME MInv, NEW r \in Req, ~At(r, "idle")
  PROVE  /\ \A t \in Req : t # r => At(t, "idle") /\ ~Pending(t)
         /\ status[r] = "running"
         /\ Outcome[r] = IF At(r, "recheckout") THEN "failed" ELSE "queued"
  BY DEF MInv, Serial, At, Pending, Outcome

LEMMA SameOutcome ==
  ASSUME status' = status, \A r \in Req : At(r, "recheckout")' <=> At(r, "recheckout")
  PROVE  Outcome' = Outcome
  BY DEF Outcome

LEMMA DecidedOutcome ==
  ASSUME MInv, NEW r \in Req, ~At(r, "idle"), NEW result, Decided(r, result)
  PROVE  /\ Outcome' = [Outcome EXCEPT ![r] = result]
         /\ \A t \in Req : ~Pending(t)'
  <1>1. \A t \in Req : Outcome'[t] = Shown(status'[t])
    BY DEF Decided, Shown, Outcome, At
  <1>2. \A t \in Req : t # r => Outcome[t] = Shown(status[t])
    BY OnlyOne DEF Shown, Outcome, At
  <1>3. \A t \in Req : Outcome'[t] = IF t = r THEN result ELSE Outcome[t]
    BY <1>1, <1>2 DEF Decided
  <1>4. Outcome' = [t \in Req |-> Outcome'[t]] /\ Outcome = [t \in Req |-> Outcome[t]]
    BY DEF Outcome
  <1>5. \A t \in Req : ~Pending(t)'
    BY DEF Decided, Pending, At
  <1> QED BY <1>3, <1>4, <1>5

(* A request is refused that has no merge to be undone.                    *)
LEMMA Refused ==
  ASSUME MInv, NEW r \in Req, ~At(r, "idle"), ~At(r, "recheckout"),
         ~(Pending(r) /\ job[r].merged), Decided(r, "failed"), log' = log
  PROVE  Promise!Refuse(r)
  <1>1. Outcome[r] = "queued" /\ Outcome' = [Outcome EXCEPT ![r] = "failed"]
    BY OnlyOne, DecidedOutcome
  <1>2. Taken' = [t \in Req |-> <<>>] /\ Content' = [b \in Branch |-> log[b]]
    BY DecidedOutcome, PlainViewNext
  <1>3. Content = [b \in Branch |-> log[b]]
    BY OnlyOne DEF Content, Settled, Undecided
  <1>4. \A t \in Req : t # r => Taken[t] = <<>>
    BY OnlyOne DEF Taken
  <1>5. Taken' = [Taken EXCEPT ![r] = <<>>]
    BY <1>2, <1>4 DEF Taken
  <1> QED BY <1>1, <1>2, <1>3, <1>5 DEF Promise!Refuse, Promise!Decide

LEMMA FinishIs ==
  ASSUME MInv, NEW r \in Req, ~At(r, "idle"), NEW result \in {"succeeded", "failed"},
         Finish(r, result)
  PROVE  Decided(r, result)
  <1> DEFINE j == [job[r] EXCEPT !.pc = "idle"]
  <1>1. j \in Job /\ j.pc = "idle"
    BY DEF MInv, TypeOK, Job, JobPC
  <1>2. [job EXCEPT ![r].pc = "idle"] = [job EXCEPT ![r] = j]
    OBVIOUS
  <1>3. TakeNext(queue, [status EXCEPT ![r] = result], [job EXCEPT ![r] = j])
    BY <1>2 DEF Finish
  <1> HIDE DEF j
  <1> QED BY <1>1, <1>3, FinishDecides

(* A command that changes neither the branches nor what is pending.        *)
LEMMA Unseen ==
  ASSUME MInv, NEW r \in Req, ~At(r, "idle"), log' = log, status' = status,
         \A t \in Req : t # r => job'[t] = job[t],
         At(r, "recheckout")' <=> At(r, "recheckout"),
         Pending(r)' <=> Pending(r), Pending(r) => job'[r].merged = job[r].merged
  PROVE  UNCHANGED <<Outcome, Taken, Content>>
  <1>1. \A t \in Req : /\ Pending(t)' <=> Pending(t)
                       /\ Pending(t) => job'[t].merged = job[t].merged
    BY DEF Pending, At
  <1>2. \A t \in Req : Pending(t) => Brings(t)' = Brings(t)
    BY <1>1 DEF Brings, Top
  <1>3. Taken' = Taken
    BY <1>1, <1>2 DEF Taken
  <1>4. \A b \in Branch : Undecided(b)' <=> Undecided(b)
    BY <1>1 DEF Undecided
  <1>5. \A b \in Branch : Settled(b)' = Settled(b)
    BY <1>4 DEF Settled, Below
  <1>6. Content' = Content
    BY <1>5 DEF Content
  <1>7. \A t \in Req : At(t, "recheckout")' <=> At(t, "recheckout")
    BY DEF At
  <1> QED BY <1>3, <1>6, <1>7, SameOutcome

LEMMA CheckoutPromised ==
  ASSUME MInv, NEW r \in Req, Checkout(r)
  PROVE  Promise!Refuse(r) \/ UNCHANGED <<Outcome, Taken, Content>>
  <1>1. ~At(r, "idle") /\ ~At(r, "recheckout") /\ ~Pending(r) /\ log' = log
    BY DEF Checkout, At, Pending
  <1>2. CASE Go(r, "merge")
    <2>1. /\ status' = status /\ ~Pending(r)' /\ ~At(r, "recheckout")'
          /\ \A t \in Req : t # r => job'[t] = job[t]
      BY <1>2 DEF Go, Pending, At, MInv, TypeOK
    <2> QED BY <1>1, <2>1, Unseen
  <1>3. CASE Finish(r, "failed")
    BY <1>1, <1>3, FinishIs, Refused
  <1> QED BY <1>2, <1>3 DEF Checkout

(* A merge is taken, or has succeeded if there is nothing to validate; a   *)
(* conflict is seen by nobody until it is aborted.                         *)
LEMMA MergePromised ==
  ASSUME MInv, Placed, NEW r \in Req, Merge(r)
  PROVE  Promise!Take(r) \/ Promise!Accept(r) \/ UNCHANGED <<Outcome, Taken, Content>>
  <1> DEFINE T == Target[r]
             new == Contents(Source[r]) \ Contents(head)
             made == new \cup {r}
             brought == Promise!Offer(r)
  <1>1. /\ ~At(r, "idle") /\ ~At(r, "recheckout") /\ \A t \in Req : ~Pending(t)
        /\ head = T /\ ~job[r].merged /\ T \in Branch /\ Source[r] \in Branch
        /\ job[r] \in Job
    BY OnlyOne, RequestAssumption DEF Merge, Placed, Worked, At, Pending, MInv, TypeOK
  <1>2. /\ Outcome[r] = "queued" /\ Taken = [t \in Req |-> <<>>]
        /\ Content = [b \in Branch |-> log[b]]
    BY <1>1, OnlyOne, PlainView
  <1>3. brought = IF new = {} THEN {} ELSE made
    <2>1. \A b \in Branch : Promise!Contains(b) = Contents(b)
      BY <1>2 DEF Promise!Contains, Contents
    <2> QED BY <1>1, <2>1 DEF Promise!Offer
  <1>4. log[T] \in Seq(SUBSET Commit) /\ made \in SUBSET Commit /\ made # {}
    BY <1>1, ContentsType DEF MInv, TypeOK, History, Commit
  <1>5. CASE Go(r, "abort") /\ log' = log
    <2>1. /\ status' = status /\ ~Pending(r)' /\ ~Pending(r) /\ ~At(r, "recheckout")'
          /\ \A t \in Req : t # r => job'[t] = job[t]
      BY <1>1, <1>5 DEF Go, Pending, At, MInv, TypeOK
    <2> QED BY <1>1, <1>5, <2>1, Unseen
  <1>6. ASSUME NEW j \in Job, Validate(r, j),
               \/ /\ new # {} /\ log' = [log EXCEPT ![T] = Append(@, made)]
                  /\ j = [job[r] EXCEPT !.merged = TRUE]
               \/ new = {} /\ log' = log /\ j = job[r]
        PROVE  Promise!Take(r) \/ Promise!Accept(r)
    <2>1. /\ log'[T] = IF brought = {} THEN log[T] ELSE Append(log[T], brought)
          /\ \A b \in Branch : b # T => log'[b] = log[b]
          /\ j.merged <=> brought # {}
      BY <1>1, <1>3, <1>4, <1>6 DEF MInv, TypeOK, Job
    <2>2. brought # {} => brought = made
      BY <1>3
    <2> HIDE DEF new, made, brought
    <2>3. CASE RunTests[r] /\ Validations > 0
      <3>1. /\ status' = status
            /\ job' = [job EXCEPT ![r] = [j EXCEPT !.pc = "validate"]]
        BY <1>6, <2>3 DEF Validate
      <3>2. /\ Pending(r)' /\ ~At(r, "recheckout")' /\ job'[r].merged = j.merged
            /\ \A t \in Req : t # r => ~Pending(t)' /\ job'[t] = job[t]
        BY <1>1, <3>1 DEF Pending, At, MInv, TypeOK, Job
      <3>3. \A b \in Branch : Undecided(b)' <=> b = T /\ brought # {}
        BY <2>1, <3>2 DEF Undecided
      <3>4. brought # {} => /\ Len(log'[T]) = Len(log[T]) + 1 /\ Len(log[T]) \in Nat
                            /\ log'[T][Len(log'[T])] = brought
                            /\ SubSeq(log'[T], 1, Len(log'[T]) - 1) = log[T]
        <4> SUFFICES ASSUME brought # {}
                     PROVE  /\ Len(log'[T]) = Len(log[T]) + 1 /\ Len(log[T]) \in Nat
                            /\ log'[T][Len(log'[T])] = brought
                            /\ SubSeq(log'[T], 1, Len(log'[T]) - 1) = log[T]
          OBVIOUS
        <4>1. brought \in SUBSET Commit
          BY <1>4, <2>2
        <4>2. /\ Len(Append(log[T], brought)) = Len(log[T]) + 1
              /\ Append(log[T], brought)[Len(log[T]) + 1] = brought
              /\ SubSeq(Append(log[T], brought), 1, Len(log[T])) = log[T]
              /\ Len(log[T]) \in Nat
          BY <1>4, <4>1, OnTop
        <4>3. Len(log[T]) + 1 - 1 = Len(log[T])
          BY <4>2
        <4> QED BY <2>1, <4>2, <4>3
      <3>5. Brings(r)' = brought
        BY <2>1, <3>2, <3>4 DEF Brings, Top
      <3>6. Taken' = [Taken EXCEPT ![r] = <<brought>>]
        BY <1>2, <3>2, <3>5 DEF Taken
      <3>7. \A b \in Branch : Settled(b)' = log[b]
        BY <2>1, <3>3, <3>4 DEF Settled, Below
      <3>8. Content' = Content
        BY <1>2, <3>7 DEF Content
      <3>9. Outcome' = Outcome
        BY <1>1, <3>1, <3>2, SameOutcome DEF At
      <3> QED BY <1>2, <3>6, <3>8, <3>9 DEF Promise!Take, brought
    <2>4. CASE ~(RunTests[r] /\ Validations > 0)
      <3> DEFINE k == [j EXCEPT !.pc = "idle"]
      <3>1. k \in Job /\ k.pc = "idle"
        BY DEF Job, JobPC
      <3>2. TakeNext(queue, [status EXCEPT ![r] = "succeeded"], [job EXCEPT ![r] = k])
        BY <1>6, <2>4 DEF Validate
      <3> HIDE DEF k
      <3>3. Decided(r, "succeeded")
        BY <1>1, <3>1, <3>2, FinishDecides
      <3>4. Outcome' = [Outcome EXCEPT ![r] = "succeeded"]
        BY <1>1, <3>3, DecidedOutcome
      <3>5. /\ Taken' = [t \in Req |-> <<>>]
            /\ Content' = [b \in Branch |-> log'[b]]
        BY <1>1, <3>3, DecidedOutcome, PlainViewNext
      <3>6. Content' = [Content EXCEPT ![T] = IF brought = {} THEN @ ELSE Append(@, brought)]
        BY <1>2, <2>1, <3>5
      <3>7. Taken[r] = <<>> /\ Taken' = [Taken EXCEPT ![r] = <<>>]
        BY <1>2, <3>5
      <3> QED BY <1>2, <3>4, <3>6, <3>7 DEF Promise!Accept, Promise!Decide, brought
    <2> QED BY <2>3, <2>4
  <1>7. [job[r] EXCEPT !.merged = TRUE] \in Job
    BY <1>1 DEF Job
  <1> QED BY <1>1, <1>5, <1>6, <1>7 DEF Merge

(* While r is validated or rolled back: what it is about to bring.         *)
LEMMA PendingView ==
  ASSUME MInv, Placed, NEW r \in Req, Pending(r)
  PROVE  /\ head = Target[r] /\ Target[r] \in Branch
         /\ log[Target[r]] \in Seq(SUBSET Commit) /\ Len(log[Target[r]]) > 0
         /\ Taken = [t \in Req |-> IF t = r THEN <<Brings(r)>> ELSE <<>>]
         /\ \A b \in Branch : b # Target[r] \/ ~job[r].merged => Content[b] = log[b]
         /\ job[r].merged => /\ Len(log[Target[r]]) > 1
                             /\ Content[Target[r]] = Below(Target[r])
         /\ job[r].merged <=> Brings(r) # {}
         /\ log[Target[r]] = IF Brings(r) = {} THEN Content[Target[r]]
                             ELSE Append(Content[Target[r]], Brings(r))
  <1> DEFINE T == Target[r]
  <1>1. ~At(r, "idle") /\ \A t \in Req : t # r => ~Pending(t)
    BY OnlyOne DEF Pending, At
  <1>2. /\ head = T /\ T \in Branch /\ log[T] \in Seq(SUBSET Commit) /\ Len(log[T]) > 0
    BY RequestAssumption DEF Placed, Worked, Pending, At, MInv, TypeOK, History
  <1>3. Taken = [t \in Req |-> IF t = r THEN <<Brings(r)>> ELSE <<>>]
    BY <1>1 DEF Taken
  <1>4. \A b \in Branch : Undecided(b) <=> job[r].merged /\ b = T
    BY <1>1 DEF Undecided
  <1>5. \A b \in Branch : b # T \/ ~job[r].merged => Content[b] = log[b]
    BY <1>4 DEF Content, Settled
  <1>6. CASE ~job[r].merged
    BY <1>2, <1>3, <1>5, <1>6 DEF Brings
  <1>7. CASE job[r].merged
    <2>1. Len(log[T]) > 1 /\ Brings(r) # {} /\ Brings(r) = log[T][Len(log[T])]
      BY <1>7 DEF Placed, OnABranch, Brings, Top
    <2>2. Content[T] = Below(T)
      BY <1>2, <1>4, <1>7 DEF Content, Settled
    <2>3. log[T] = Append(Content[T], Brings(r))
      BY <1>2, <2>1, <2>2, OffTop DEF Below
    <2> QED BY <1>2, <1>3, <1>5, <1>7, <2>1, <2>2, <2>3
  <1> QED BY <1>6, <1>7

(* The last validation decides: all that was taken is brought at once.     *)
LEMMA ValidationPromised ==
  ASSUME MInv, Placed, NEW r \in Req, Validation(r)
  PROVE  Promise!Accept(r) \/ UNCHANGED <<Outcome, Taken, Content>>
  <1>1. /\ ~At(r, "idle") /\ ~At(r, "recheckout") /\ Pending(r) /\ log' = log
        /\ job[r] \in Job
    BY DEF Validation, At, Pending, MInv, TypeOK
  <1>2. CASE \/ job' = [job EXCEPT ![r].left = @ - 1] /\ status' = status
             \/ Go(r, "reset")
    <2>1. /\ status' = status /\ Pending(r)' /\ job'[r].merged = job[r].merged
          /\ ~At(r, "recheckout")'
          /\ \A t \in Req : t # r => job'[t] = job[t]
      <3>1. CASE job' = [job EXCEPT ![r].left = @ - 1] /\ status' = status
        BY <1>1, <3>1 DEF Pending, At, MInv, TypeOK, Job
      <3>2. CASE Go(r, "reset")
        BY <1>1, <3>2 DEF Go, Pending, At, MInv, TypeOK, Job
      <3> QED BY <1>2, <3>1, <3>2
    <2> QED BY <1>1, <2>1, Unseen
  <1>3. CASE Finish(r, "succeeded")
    <2> DEFINE T == Target[r]
               brought == Brings(r)
    <2>1. Decided(r, "succeeded")
      BY <1>1, <1>3, FinishIs
    <2>2. /\ Outcome[r] = "queued" /\ Outcome' = [Outcome EXCEPT ![r] = "succeeded"]
          /\ Taken' = [t \in Req |-> <<>>]
          /\ Content' = [b \in Branch |-> log[b]]
      BY <1>1, <2>1, OnlyOne, DecidedOutcome, PlainViewNext
    <2>3. Taken[r] = <<brought>> /\ Taken' = [Taken EXCEPT ![r] = <<>>]
      BY <1>1, <2>2, PendingView
    <2>4. /\ log[T] = IF brought = {} THEN Content[T] ELSE Append(Content[T], brought)
          /\ \A b \in Branch : b # T => Content[b] = log[b]
          /\ T \in Branch
      BY <1>1, PendingView
    <2> HIDE DEF brought
    <2>5. Content' = [Content EXCEPT ![T] = IF brought = {} THEN @ ELSE Append(@, brought)]
      BY <2>2, <2>4 DEF Content
    <2>6. Taken[r] # <<>> /\ Taken[r][1] = brought
      BY <2>3
    <2> QED BY <2>2, <2>3, <2>5, <2>6 DEF Promise!Accept, Promise!Decide
  <1> QED BY <1>2, <1>3 DEF Validation

(* The rollback takes back what was about to be brought, or the commit     *)
(* before it if there was nothing to bring.                                *)
LEMMA ResetPromised ==
  ASSUME MInv, Placed, NEW r \in Req, Reset(r)
  PROVE  Promise!Refuse(r) \/ Promise!TakeBack(r)
  <1> DEFINE T == Target[r]
  <1>1. /\ ~At(r, "idle") /\ ~At(r, "recheckout") /\ Pending(r)
        /\ head = T /\ T \in Branch /\ log[T] \in Seq(SUBSET Commit)
    BY PendingView DEF Reset, Pending, At
  <1>2. CASE Len(log[T]) > 1
    <2>1. log' = [log EXCEPT ![T] = SubSeq(@, 1, Len(@) - 1)] /\ Go(r, "recheckout")
      BY <1>1, <1>2 DEF Reset
    <2>2. /\ status' = status /\ At(r, "recheckout")'
          /\ \A t \in Req : ~Pending(t)'
          /\ \A t \in Req : t # r => At(t, "recheckout")' = At(t, "recheckout")
      BY <1>1, <2>1, OnlyOne DEF Go, Pending, At, MInv, TypeOK
    <2>3. Outcome[r] = "queued" /\ Outcome' = [Outcome EXCEPT ![r] = "failed"]
      <3>1. Outcome[r] = "queued" /\ status[r] = "running"
        BY <1>1, OnlyOne
      <3>2. \A t \in Req : Outcome'[t] = IF t = r THEN "failed" ELSE Outcome[t]
        BY <2>2, <3>1 DEF Outcome
      <3>3. Outcome' = [t \in Req |-> Outcome'[t]] /\ Outcome = [t \in Req |-> Outcome[t]]
        BY DEF Outcome
      <3> QED BY <3>1, <3>2, <3>3
    <2>4. Taken' = [t \in Req |-> <<>>] /\ Content' = [b \in Branch |-> log'[b]]
      BY <2>2, PlainViewNext
    <2>5. Taken' = [Taken EXCEPT ![r] = <<>>]
      BY <1>1, <2>4, PendingView
    <2>6. log'[T] = Below(T) /\ \A b \in Branch : b # T => log'[b] = log[b]
      BY <1>1, <2>1 DEF MInv, TypeOK, Below
    <2>7. CASE job[r].merged
      <3>1. \A b \in Branch : log'[b] = Content[b]
        BY <1>1, <2>6, <2>7, PendingView
      <3>2. Content' = Content
        BY <2>4, <3>1 DEF Content
      <3> QED BY <2>3, <2>5, <3>2 DEF Promise!Refuse, Promise!Decide
    <2>8. CASE ~job[r].merged
      <3>1. /\ Taken[r] = <<{}>> /\ Content = [b \in Branch |-> log[b]]
        <4>1. Brings(r) = {} /\ \A b \in Branch : Content[b] = log[b]
          BY <1>1, <2>8, PendingView
        <4>2. Taken[r] = <<{}>>
          BY <1>1, <4>1, PendingView
        <4>3. Content = [b \in Branch |-> Content[b]]
          BY DEF Content
        <4> QED BY <4>1, <4>2, <4>3
      <3>2. Content' = [Content EXCEPT ![T] = SubSeq(@, 1, Len(@) - 1)]
        BY <1>1, <2>4, <2>6, <3>1 DEF Below
      <3> QED BY <1>1, <1>2, <2>3, <2>5, <3>1, <3>2 DEF Promise!TakeBack, Promise!Decide
    <2> QED BY <2>7, <2>8
  <1>3. CASE ~(Len(log[T]) > 1)
    <2>1. Finish(r, "failed") /\ log' = log
      BY <1>1, <1>3 DEF Reset
    <2>2. ~job[r].merged
      BY <1>1, <1>3, PendingView
    <2> QED BY <1>1, <2>1, <2>2, FinishIs, Refused
  <1> QED BY <1>2, <1>3

(* The target is checked out again: the request has failed before.         *)
LEMMA RecheckoutPromised ==
  ASSUME MInv, NEW r \in Req, Recheckout(r)
  PROVE  UNCHANGED <<Outcome, Taken, Content>>
  <1>1. /\ ~At(r, "idle") /\ At(r, "recheckout") /\ ~Pending(r) /\ log' = log
        /\ Finish(r, "failed")
    BY DEF Recheckout, At, Pending
  <1>2. Decided(r, "failed") /\ Outcome[r] = "failed" /\ \A t \in Req : ~Pending(t)
    BY <1>1, FinishIs, OnlyOne
  <1>3. Outcome' = [Outcome EXCEPT ![r] = "failed"] /\ \A t \in Req : ~Pending(t)'
    BY <1>1, <1>2, DecidedOutcome
  <1>4. Outcome' = Outcome
    BY <1>2, <1>3 DEF Outcome
  <1> QED BY <1>1, <1>2, <1>3, <1>4, PlainView, PlainViewNext

LEMMA JobPromised ==
  ASSUME MInv, Placed, NEW r \in Req, JobStep(r)
  PROVE  [Promise!PNext]_<<Outcome, Taken, Content>>
  <1>1. CASE Checkout(r)
    BY <1>1, CheckoutPromised DEF Promise!PNext
  <1>2. CASE Merge(r)
    BY <1>2, MergePromised DEF Promise!PNext
  <1>3. CASE Abort(r)
    <2>1. /\ ~At(r, "idle") /\ ~At(r, "recheckout") /\ ~Pending(r) /\ log' = log
          /\ Finish(r, "failed")
      BY <1>3 DEF Abort, At, Pending
    <2> QED BY <2>1, FinishIs, Refused DEF Promise!PNext
  <1>4. CASE Validation(r)
    BY <1>4, ValidationPromised DEF Promise!PNext
  <1>5. CASE Reset(r)
    BY <1>5, ResetPromised DEF Promise!PNext
  <1>6. CASE Recheckout(r)
    BY <1>6, RecheckoutPromised
  <1> QED BY <1>1, <1>2, <1>3, <1>4, <1>5, <1>6 DEF JobStep

LEMMA RequestPromised ==
  ASSUME MInv, NEW r \in Req, RequestMerge(r)
  PROVE  Promise!Submit(r)
  <1> DEFINE q == Append(queue, r)
             st == [status EXCEPT ![r] = "queued"]
  <1>1. Outcome[r] = "none" /\ status[r] = "none" /\ log' = log
    BY DEF RequestMerge, Outcome
  <1>2. CASE processing
    <2>1. status' = st /\ job' = job
      BY <1>2 DEF RequestMerge
    <2>2. Outcome' = [Outcome EXCEPT ![r] = "queued"]
      BY <2>1 DEF Outcome, MInv, TypeOK, At
    <2>3. Taken' = Taken /\ Content' = Content
      BY <1>1, <2>1
      DEF Taken, Content, Settled, Below, Top, Undecided, Pending, At, Brings
    <2> QED BY <1>1, <2>2, <2>3 DEF Promise!Submit
  <1>3. CASE ~processing
    <2>1. \A t \in Req : status[t] # "running" /\ At(t, "idle")
      BY <1>3 DEF MInv, Serial, At
    <2>2. /\ st \in [Req -> MergeStatus] /\ job \in [Req -> Job]
          /\ \A t \in Req : st[t] # "running" /\ job[t].pc = "idle"
          /\ \A t \in Req : st[t] = IF t = r THEN "queued" ELSE Outcome[t]
      BY <2>1 DEF MInv, TypeOK, MergeStatus, Outcome, At
    <2>3. TakeNext(q, st, job)
      BY <1>3 DEF RequestMerge
    <2> HIDE DEF q, st
    <2>4. \A t \in Req : Shown(status'[t]) = st[t] /\ job'[t].pc \in {"idle", "checkout"}
      BY <2>2, <2>3, LoopHidden
    <2>5. Outcome' = [Outcome EXCEPT ![r] = "queued"]
      <3>1. \A t \in Req : ~At(t, "recheckout")'
        BY <2>4 DEF At
      <3>2. \A t \in Req : Outcome'[t] = Shown(status'[t])
        BY <3>1 DEF Outcome, Shown
      <3>3. \A t \in Req : Outcome'[t] = IF t = r THEN "queued" ELSE Outcome[t]
        BY <2>2, <2>4, <3>2
      <3>4. Outcome' = [t \in Req |-> Outcome'[t]] /\ Outcome = [t \in Req |-> Outcome[t]]
        BY DEF Outcome
      <3> QED BY <3>3, <3>4
    <2>6. /\ \A t \in Req : ~Pending(t)
          /\ \A t \in Req : ~Pending(t)'
      BY <2>1, <2>4 DEF Pending, At
    <2>7. Taken' = Taken /\ Content' = Content
      BY <1>1, <2>6, PlainView, PlainViewNext
    <2> QED BY <1>1, <2>5, <2>7 DEF Promise!Submit
  <1> QED BY <1>2, <1>3

LEMMA CancelPromised ==
  ASSUME MInv, NEW r \in Req, CancelRequest(r)
  PROVE  Promise!Refuse(r)
  <1>1. /\ status[r] = "queued" /\ status' = [status EXCEPT ![r] = "cancelled"]
        /\ job' = job /\ log' = log /\ ~Pending(r)
    BY DEF CancelRequest, MInv, Serial, Pending, At
  <1>2. Outcome[r] = "queued" /\ Outcome' = [Outcome EXCEPT ![r] = "cancelled"]
    BY <1>1 DEF Outcome, MInv, TypeOK, At
  <1>3. Taken' = Taken /\ Content' = Content
    BY <1>1 DEF Taken, Content, Settled, Below, Top, Undecided, Pending, At, Brings
  <1>4. Taken[r] = <<>> /\ Taken' = [Taken EXCEPT ![r] = <<>>]
    BY <1>1, <1>3 DEF Taken
  <1> QED BY <1>2, <1>3, <1>4 DEF Promise!Refuse, Promise!Decide

LEMMA OthersPromised ==
  ASSUME MInv, TargetsAreQuiet, NEW b \in Busy, NEW c \in Extra, OtherCommit(b, c)
  PROVE  Promise!Develop(b, c)
  <1>1. /\ b \in Branch /\ \A r \in Req : Target[r] # b
        /\ status' = status /\ job' = job
        /\ log' = [log EXCEPT ![b] = Append(@, {c})]
    BY RepositoryAssumption DEF OtherCommit, TargetsAreQuiet
  <1>2. /\ log'[b] = Append(log[b], {c})
        /\ \A d \in Branch : d # b => log'[d] = log[d]
    BY <1>1 DEF MInv, TypeOK
  <1>3. \A r \in Req : (Pending(r)' <=> Pending(r)) /\ Brings(r)' = Brings(r)
    BY <1>1, <1>2, RequestAssumption DEF Pending, At, Brings, Top
  <1>4. Taken' = Taken
    BY <1>3 DEF Taken
  <1>5. \A d \in Branch : Undecided(d)' <=> Undecided(d)
    BY <1>1 DEF Undecided, Pending, At
  <1>6. \A d \in Branch : d # b => Settled(d)' = Settled(d)
    BY <1>2, <1>5 DEF Settled, Below
  <1>7. Settled(b) = log[b] /\ Settled(b)' = log'[b]
    BY <1>1, <1>5 DEF Settled, Undecided
  <1>8. Content' = [Content EXCEPT ![b] = Append(@, {c})]
    BY <1>1, <1>2, <1>6, <1>7 DEF Content
  <1> QED BY <1>1, <1>4, <1>8, SameOutcome DEF Promise!Develop, At

LEMMA StepPromised ==
  MInv /\ Placed /\ TargetsAreQuiet /\ [Next]_vars
    => [Promise!PNext]_<<Outcome, Taken, Content>>
  <1> SUFFICES ASSUME MInv, Placed, TargetsAreQuiet, [Next]_vars
               PROVE  [Promise!PNext]_<<Outcome, Taken, Content>>
    OBVIOUS
  <1>1. CASE UNCHANGED vars
    BY <1>1 DEF vars, Outcome, Taken, Content, Settled, Below, Top, Undecided,
                Pending, At, Brings
  <1>2. ASSUME NEW r \in Req, RequestMerge(r) \/ CancelRequest(r) \/ JobStep(r)
        PROVE  [Promise!PNext]_<<Outcome, Taken, Content>>
    BY <1>2, RequestPromised, CancelPromised, JobPromised DEF Promise!PNext
  <1>3. ASSUME NEW b \in Busy, NEW c \in Extra, OtherCommit(b, c)
        PROVE  [Promise!PNext]_<<Outcome, Taken, Content>>
    BY <1>3, OthersPromised DEF Promise!PNext
  <1> QED BY <1>1, <1>2, <1>3 DEF Next

-----------------------------------------------------------------------------
LEMMA PlacedInit == Init => Placed
  <1> SUFFICES ASSUME Init PROVE Placed
    OBVIOUS
  <1>1. \A r \in Req : job[r].pc = "idle"
    BY DEF Init, NoJob
  <1>2. \A b \in Branch : Len(log[b]) > 0
    <2> SUFFICES ASSUME NEW b \in Branch PROVE Len(Start[b]) > 0
      BY DEF Init
    <2>1. Start[b] \in Seq(SUBSET Commit) /\ Start[b] # <<>>
      BY RepositoryAssumption DEF History
    <2> QED BY <2>1, EmptySeq
  <1> QED BY <1>1, <1>2 DEF Placed, Worked, Pending, At

(* The queue goes on, or a client calls: nothing has a merge in hand.      *)
LEMMA RestPlaced ==
  ASSUME \A r \in Req : /\ job'[r].pc \in {"idle", "checkout"}
                        /\ job'[r].pc = "checkout" => ~job'[r].merged,
         \A b \in Branch : Len(log'[b]) > 0
  PROVE  Placed'
  BY DEF Placed, Worked, Pending, At

LEMMA DecidedPlaced ==
  ASSUME Placed, NEW r \in Req, NEW result, Decided(r, result), log' = log
  PROVE  Placed'
  BY RestPlaced DEF Decided, Placed

LEMMA GoPlaced ==
  ASSUME MInv, Placed, NEW r \in Req, ~At(r, "idle"), head = Target[r], head' = head,
         job' = [job EXCEPT ![r] = job'[r]], job'[r] \in Job,
         job'[r].pc \in Worked \ {"merge"},
         \A b \in Branch : Len(log'[b]) > 0,
         Pending(r)' /\ job'[r].merged => OnABranch(Target[r])'
  PROVE  Placed'
  <1>1. \A t \in Req : t # r => job'[t] = job[t] /\ job[t].pc = "idle"
    BY OnlyOne DEF MInv, TypeOK, Serial, At
  <1>2. \A t \in Req : job'[t].pc # "idle" => t = r
    BY <1>1
  <1> QED BY <1>2 DEF Placed, Worked, Pending, At

LEMMA JobPlaced ==
  ASSUME MInv, Placed, NEW r \in Req, JobStep(r)
  PROVE  Placed'
  <1>1. /\ ~At(r, "idle") /\ job[r] \in Job /\ Target[r] \in Branch
        /\ \A b \in Branch : log[b] \in Seq(SUBSET Commit) /\ Len(log[b]) > 0
    BY RequestAssumption DEF JobStep, Checkout, Merge, Abort, Validation, Reset,
       Recheckout, At, Placed, MInv, TypeOK, History
  <1>2. CASE Abort(r) \/ Recheckout(r)
    <2>1. Finish(r, "failed") /\ log' = log
      BY <1>2 DEF Abort, Recheckout
    <2> QED BY <1>1, <2>1, FinishIs, DecidedPlaced
  <1>3. CASE Checkout(r)
    <2>1. CASE Finish(r, "failed")
      BY <1>1, <1>3, <2>1, FinishIs, DecidedPlaced DEF Checkout
    <2>2. CASE head' = Target[r] /\ Go(r, "merge")
      <3>1. /\ log' = log /\ job' = [job EXCEPT ![r].pc = "merge"] /\ ~job[r].merged
        BY <1>3, <2>2 DEF Checkout, Go, At, Placed
      <3>2. \A t \in Req : t # r => job'[t] = job[t] /\ job[t].pc = "idle"
        BY <1>1, <3>1, OnlyOne DEF MInv, TypeOK, Serial, At
      <3>3. job'[r].pc = "merge" /\ ~job'[r].merged
        BY <1>1, <3>1 DEF MInv, TypeOK, Job
      <3> QED BY <2>2, <3>1, <3>2, <3>3 DEF Placed, Worked, Pending, At
    <2> QED BY <1>3, <2>1, <2>2 DEF Checkout
  <1>4. CASE Merge(r)
    <2> DEFINE T == Target[r]
               new == Contents(Source[r]) \ Contents(head)
    <2>1. head = T /\ head' = head /\ ~job[r].merged
      BY <1>4 DEF Merge, Placed, Worked, At
    <2>2. CASE Go(r, "abort") /\ log' = log
      <3>1. job' = [job EXCEPT ![r] = [job[r] EXCEPT !.pc = "abort"]]
        BY <2>2 DEF Go
      <3>2. job'[r] = [job[r] EXCEPT !.pc = "abort"]
        BY <3>1 DEF MInv, TypeOK
      <3>3. job'[r] \in Job /\ job'[r].pc = "abort"
        BY <1>1, <3>2 DEF Job, JobPC
      <3> QED BY <1>1, <2>1, <2>2, <3>1, <3>2, <3>3, GoPlaced DEF Worked, Pending, At
    <2>3. ASSUME NEW j \in Job, Validate(r, j), \A b \in Branch : Len(log'[b]) > 0,
                 j.merged => OnABranch(T)'
          PROVE  Placed'
      <3>1. CASE RunTests[r] /\ Validations > 0
        <4>1. job' = [job EXCEPT ![r] = [j EXCEPT !.pc = "validate"]]
          BY <2>3, <3>1 DEF Validate
        <4>2. job'[r] = [j EXCEPT !.pc = "validate"]
          BY <4>1 DEF MInv, TypeOK
        <4>3. job'[r] \in Job /\ job'[r].pc = "validate" /\ job'[r].merged = j.merged
          BY <4>2 DEF Job, JobPC
        <4> QED BY <1>1, <2>1, <2>3, <4>1, <4>2, <4>3, GoPlaced DEF Worked, Pending, At
      <3>2. CASE ~(RunTests[r] /\ Validations > 0)
        <4> DEFINE k == [j EXCEPT !.pc = "idle"]
        <4>1. k \in Job /\ k.pc = "idle"
          BY DEF Job, JobPC
        <4>2. TakeNext(queue, [status EXCEPT ![r] = "succeeded"], [job EXCEPT ![r] = k])
          BY <2>3, <3>2 DEF Validate
        <4> HIDE DEF k
        <4>3. Decided(r, "succeeded")
          BY <1>1, <4>1, <4>2, FinishDecides
        <4> QED BY <2>3, <4>3, RestPlaced DEF Decided
      <3> QED BY <3>1, <3>2
    <2>4. CASE log' = [log EXCEPT ![T] = Append(@, new \cup {r})]
               /\ Validate(r, [job[r] EXCEPT !.merged = TRUE])
      <3> DEFINE made == new \cup {r}
      <3>1. made \in SUBSET Commit
        BY <1>1, <2>1, RequestAssumption, ContentsType DEF MInv, Commit
      <3> HIDE DEF made
      <3>2. Len(Append(log[T], made)) = Len(log[T]) + 1 /\ Len(log[T]) \in Nat
        BY <1>1, <3>1, OnTop
      <3>3. log'[T] = Append(log[T], made) /\ \A b \in Branch : b # T => log'[b] = log[b]
        BY <1>1, <2>4 DEF MInv, TypeOK, made
      <3>4. OnABranch(T)' /\ \A b \in Branch : Len(log'[b]) > 0
        <4>1. Append(log[T], made)[Len(log[T]) + 1] = made /\ made # {}
          BY <1>1, <3>1, OnTop DEF made
        <4> QED BY <1>1, <3>2, <3>3, <4>1 DEF OnABranch, Top
      <3>5. [job[r] EXCEPT !.merged = TRUE] \in Job
        BY <1>1 DEF Job
      <3> QED BY <2>3, <2>4, <3>4, <3>5
    <2>5. CASE log' = log /\ Validate(r, job[r])
      BY <1>1, <2>1, <2>3, <2>5
    <2> QED BY <1>4, <2>1, <2>2, <2>4, <2>5 DEF Merge
  <1>5. CASE Validation(r)
    <2>1. Pending(r) /\ head = Target[r] /\ head' = head /\ log' = log
      BY <1>5 DEF Validation, Pending, Placed, Worked, At
    <2>2. CASE job[r].left > 1 /\ job' = [job EXCEPT ![r].left = @ - 1]
      <3>1. job'[r] = [job[r] EXCEPT !.left = @ - 1] /\ job' = [job EXCEPT ![r] = job'[r]]
        BY <2>2 DEF MInv, TypeOK
      <3>2. /\ job'[r] \in Job /\ job'[r].pc = job[r].pc
            /\ job'[r].merged = job[r].merged
        <4>1. job[r].left - 1 \in 0..3
          BY <1>1, <2>2 DEF Job
        <4> QED BY <1>1, <3>1, <4>1 DEF Job
      <3>3. job'[r].pc \in Worked \ {"merge"}
        BY <2>1, <3>2 DEF Worked, Pending, At
      <3>4. job'[r].merged => OnABranch(Target[r])'
        BY <2>1, <3>2 DEF Placed, OnABranch, Top
      <3> QED BY <1>1, <2>1, <3>1, <3>2, <3>3, <3>4, GoPlaced
    <2>3. CASE Finish(r, "succeeded")
      BY <1>1, <2>1, <2>3, FinishIs, DecidedPlaced
    <2>4. CASE Go(r, "reset")
      <3>1. job'[r] = [job[r] EXCEPT !.pc = "reset"] /\ job' = [job EXCEPT ![r] = job'[r]]
        BY <2>4 DEF MInv, TypeOK, Go
      <3>2. /\ job'[r] \in Job /\ job'[r].pc = "reset"
            /\ job'[r].merged = job[r].merged
        BY <1>1, <3>1 DEF Job, JobPC
      <3>3. job'[r].merged => OnABranch(Target[r])'
        BY <2>1, <3>2 DEF Placed, OnABranch, Top
      <3> QED BY <1>1, <2>1, <3>1, <3>2, <3>3, GoPlaced DEF Worked
    <2> QED BY <1>5, <2>2, <2>3, <2>4 DEF Validation
  <1>6. CASE Reset(r)
    <2>1. head = Target[r] /\ head' = head
      BY <1>6 DEF Reset, Placed, Worked, At
    <2>2. CASE Finish(r, "failed") /\ log' = log
      BY <1>1, <2>2, FinishIs, DecidedPlaced
    <2>3. CASE /\ Len(log[head]) > 1 /\ Go(r, "recheckout")
               /\ log' = [log EXCEPT ![head] = SubSeq(@, 1, Len(@) - 1)]
      <3>1. job'[r] = [job[r] EXCEPT !.pc = "recheckout"] /\ job' = [job EXCEPT ![r] = job'[r]]
        BY <2>3 DEF MInv, TypeOK, Go
      <3>2. job'[r] \in Job /\ job'[r].pc = "recheckout"
        BY <1>1, <3>1 DEF Job, JobPC
      <3>3. Len(SubSeq(log[head], 1, Len(log[head]) - 1)) > 0
        BY <1>1, <2>1, <2>3, OffTop
      <3>4. \A b \in Branch : Len(log'[b]) > 0
        BY <1>1, <2>1, <2>3, <3>3 DEF MInv, TypeOK
      <3> QED BY <1>1, <2>1, <3>1, <3>2, <3>4, GoPlaced DEF Worked, Pending, At
    <2> QED BY <1>6, <2>2, <2>3 DEF Reset
  <1> QED BY <1>2, <1>3, <1>4, <1>5, <1>6 DEF JobStep

LEMMA PlacedStep == MInv /\ Placed /\ [Next]_vars => Placed'
  <1> SUFFICES ASSUME MInv, Placed, [Next]_vars PROVE Placed'
    OBVIOUS
  <1>1. CASE UNCHANGED vars
    BY <1>1 DEF vars, Placed, Pending, At, OnABranch, Top
  <1>2. ASSUME NEW r \in Req, RequestMerge(r) PROVE Placed'
    <2>1. log' = log /\ head' = head
      BY <1>2 DEF RequestMerge
    <2>2. CASE processing
      BY <1>2, <2>1, <2>2 DEF RequestMerge, Placed, Pending, At, OnABranch, Top
    <2>3. CASE ~processing
      <3> DEFINE q == Append(queue, r)
                 st == [status EXCEPT ![r] = "queued"]
      <3>1. /\ st \in [Req -> MergeStatus] /\ job \in [Req -> Job]
            /\ \A t \in Req : st[t] # "running" /\ job[t].pc = "idle"
        BY <2>3 DEF MInv, TypeOK, MergeStatus, Serial
      <3>2. TakeNext(q, st, job)
        BY <1>2, <2>3 DEF RequestMerge
      <3> HIDE DEF q, st
      <3>3. \A t \in Req : /\ job'[t].pc \in {"idle", "checkout"}
                           /\ job'[t].pc = "checkout" => ~job'[t].merged
        BY <3>1, <3>2, LoopHidden
      <3> QED BY <2>1, <3>3, RestPlaced DEF Placed
    <2> QED BY <2>2, <2>3
  <1>3. ASSUME NEW r \in Req, CancelRequest(r) PROVE Placed'
    BY <1>3 DEF CancelRequest, Placed, Pending, At, OnABranch, Top
  <1>4. ASSUME NEW r \in Req, JobStep(r) PROVE Placed'
    BY <1>4, JobPlaced
  <1>5. ASSUME NEW b \in Busy, NEW c \in Extra, OtherCommit(b, c) PROVE Placed'
    <2> DEFINE x == {c}
    <2>1. /\ b \in Branch /\ x \in SUBSET Commit /\ log[b] \in Seq(SUBSET Commit)
          /\ job' = job /\ head' = head
      BY <1>5, RepositoryAssumption DEF OtherCommit, MInv, TypeOK, History, Commit
    <2>2. log'[b] = Append(log[b], x) /\ \A d \in Branch : d # b => log'[d] = log[d]
      BY <1>5, <2>1 DEF OtherCommit, MInv, TypeOK
    <2> HIDE DEF x
    <2>3. Len(log'[b]) = Len(log[b]) + 1 /\ Len(log[b]) \in Nat
      BY <2>1, <2>2, OnTop
    <2>4. \A d \in Branch : Len(log[d]) > 0 => Len(log'[d]) > 0
      BY <2>2, <2>3
    <2>5. \A d \in Branch : OnABranch(d) => OnABranch(d)'
      <3>1. Append(log[b], x)[Len(log[b]) + 1] = x /\ x # {}
        BY <2>1, OnTop DEF x
      <3> QED BY <2>2, <2>3, <3>1 DEF OnABranch, Top
    <2>6. \A r \in Req : Target[r] \in Branch
      BY RequestAssumption
    <2> QED BY <2>1, <2>4, <2>5, <2>6 DEF Placed, Pending, At
  <1> QED BY <1>1, <1>2, <1>3, <1>4, <1>5 DEF Next

LEMMA InitPromised == Init => Promise!PInit
  <1> SUFFICES ASSUME Init PROVE Promise!PInit
    OBVIOUS
  <1>1. \A r \in Req : ~Pending(r)
    BY DEF Init, NoJob, Pending, At
  <1>2. Taken = [r \in Req |-> <<>>] /\ Content = [b \in Branch |-> log[b]]
    BY <1>1, PlainView
  <1>3. Content = Start
    BY <1>2, RepositoryAssumption DEF Init
  <1>4. Outcome = [r \in Req |-> "none"]
    BY DEF Init, Outcome
  <1> QED BY <1>2, <1>3, <1>4 DEF Promise!PInit

(* The queue implements a merger of one request after the other: each is   *)
(* merged whole or not at all and at one moment, in whatever order         *)
(* commands fail, requests come in and others commit, and a target loses a *)
(* commit only to a request that failed when it had nothing to bring       *)
(* (merge-coordinator.ts: executeMerge, rollback).  Nobody else commits to *)
(* the targets.                                                            *)
THEOREM QueueKeepsPromise ==
  ASSUME TargetsAreQuiet
  PROVE  Spec => KeepsPromise
  <1>1. TargetsAreQuiet
    OBVIOUS
  <1>2. MInv /\ Placed /\ [Next]_vars => [Promise!PNext]_<<Outcome, Taken, Content>>
    BY <1>1, StepPromised
  <1> QED BY <1>2, InitKeeps, StepKeeps, PlacedInit, PlacedStep, InitPromised, PTL
          DEF Spec, KeepsPromise, Promise!PromiseSpec, Promise!pvars
=============================================================================
