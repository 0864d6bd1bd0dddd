------------------------- MODULE WorktreeMergeProofs -------------------------
(* Proofs about WorktreeMerge, for any calls, branches and changes.        *)
EXTENDS WorktreeMerge, TLAPS

(* A call has a target where it needs one, and a branch to go back to.     *)
Named(c) ==
  /\ c.pc \in {"current", "status", "stash", "checkout"} => c.target # NoBranch
  /\ c.pc = "back" => c.previous # NoBranch

GoodCall == {c \in Call : Named(c)}
TInv == TypeOK /\ call \in [Job -> GoodCall]

-----------------------------------------------------------------------------
(* A step of call j changes nobody else's local variables.                 *)
LEMMA OneCall ==
  ASSUME TInv, NEW j \in Job, NEW c \in GoodCall, call' = [call EXCEPT ![j] = c]
  PROVE  call' \in [Job -> Call] /\ call' \in [Job -> GoodCall]
  BY DEF TInv, GoodCall

LEMMA GoCall ==
  ASSUME TInv, NEW j \in Job, Go(j, "merge") \/ Go(j, "target") \/ Go(j, "abort")
                              \/ Go(j, "pop") \/ Go(j, "over")
  PROVE  call' \in [Job -> Call] /\ call' \in [Job -> GoodCall]
  <1>1. PICK p \in {"merge", "target", "abort", "pop", "over"} :
          call' = [call EXCEPT ![j].pc = p]
    BY DEF Go
  <1> DEFINE c == [call[j] EXCEPT !.pc = p]
  <1>2. call' = [call EXCEPT ![j] = c]
    BY <1>1 DEF TInv, TypeOK, Call
  <1>3. c \in GoodCall
    BY DEF TInv, TypeOK, Call, PC, GoodCall, Named
  <1> HIDE DEF c
  <1> QED BY <1>2, <1>3, OneCall

(* The same for the steps that follow one that has a target.               *)
LEMMA OnCall ==
  ASSUME TInv, NEW j \in Job, Go(j, "stash") \/ Go(j, "checkout"),
         call[j].pc \in {"status", "stash"}
  PROVE  call' \in [Job -> Call] /\ call' \in [Job -> GoodCall]
  <1>1. PICK p \in {"stash", "checkout"} : call' = [call EXCEPT ![j].pc = p]
    BY DEF Go
  <1> DEFINE c == [call[j] EXCEPT !.pc = p]
  <1>2. call' = [call EXCEPT ![j] = c]
    BY <1>1 DEF TInv, TypeOK, Call
  <1>3. c \in GoodCall
    BY DEF TInv, TypeOK, Call, PC, GoodCall, Named
  <1> HIDE DEF c
  <1> QED BY <1>2, <1>3, OneCall

LEMMA EndCall ==
  ASSUME TInv, NEW j \in Job, NEW r \in Result, End(j, r)
  PROVE  call' \in [Job -> Call] /\ call' \in [Job -> GoodCall]
  <1> DEFINE c == [call[j] EXCEPT !.pc = "over", !.result = r]
  <1>1. call' = [call EXCEPT ![j] = c]
    BY DEF End, TInv, TypeOK, Call
  <1>2. c \in GoodCall
    BY DEF TInv, TypeOK, Call, PC, GoodCall, Named
  <1> HIDE DEF c
  <1> QED BY <1>1, <1>2, OneCall

LEMMA FinishCall ==
  ASSUME TInv, NEW j \in Job, NEW r \in Result, Finish(j, r)
  PROVE  call' \in [Job -> Call] /\ call' \in [Job -> GoodCall]
  <1>1. CASE call[j].previous = NoBranch
    BY <1>1, EndCall DEF Finish
  <1>2. CASE call[j].previous # NoBranch
    <2> DEFINE c == [call[j] EXCEPT !.pc = "back", !.result = r]
    <2>1. call' = [call EXCEPT ![j] = c]
      BY <1>2 DEF Finish, TInv, TypeOK, Call
    <2>2. c \in GoodCall
      BY <1>2 DEF TInv, TypeOK, Call, PC, GoodCall, Named
    <2> HIDE DEF c
    <2> QED BY <2>1, <2>2, OneCall
  <1> QED BY <1>1, <1>2

LEMMA BeginType ==
  ASSUME TInv, NEW j \in Job, Begin(j)
  PROVE  TInv'
  <1>1. CASE Go(j, "merge") \/ Go(j, "target")
    BY <1>1, GoCall DEF Begin, MergeIntegrationBranch, TInv, TypeOK
  <1>2. CASE /\ Given[j] # NoBranch
             /\ call' = [call EXCEPT ![j].pc = "current", ![j].target = Given[j]]
    <2> DEFINE c == [call[j] EXCEPT !.pc = "current", !.target = Given[j]]
    <2>1. call' = [call EXCEPT ![j] = c]
      BY <1>2 DEF TInv, TypeOK, Call
    <2>2. c \in GoodCall
      <3>1. call[j] \in Call /\ Given[j] \in Branch \cup {NoBranch}
        BY BranchAssumption DEF TInv, TypeOK
      <3>2. c \in Call /\ c.pc = "current" /\ c.target = Given[j]
        BY <3>1 DEF Call, PC
      <3> HIDE DEF c
      <3> QED BY <1>2, <3>2 DEF GoodCall, Named
    <2> HIDE DEF c
    <2> QED BY <2>1, <2>2, OneCall DEF Begin, MergeIntegrationBranch, TInv, TypeOK
  <1> QED BY <1>1, <1>2 DEF Begin, MergeIntegrationBranch

LEMMA AskType ==
  ASSUME TInv, NEW j \in Job, AskTarget(j) \/ AskCurrent(j) \/ AskStatus(j)
  PROVE  TInv'
  <1>1. CASE AskTarget(j)
    <2> DEFINE c == [call[j] EXCEPT !.pc = "current", !.target = head]
    <2>1. call' = [call EXCEPT ![j] = c]
      BY <1>1 DEF AskTarget, TInv, TypeOK, Call
    <2>2. c \in GoodCall
      <3>1. call[j] \in Call /\ head \in Branch
        BY DEF TInv, TypeOK
      <3>2. c \in Call /\ c.pc = "current" /\ c.target = head
        BY <3>1 DEF Call, PC
      <3> HIDE DEF c
      <3> QED BY <3>1, <3>2, BranchAssumption DEF GoodCall, Named
    <2> HIDE DEF c
    <2> QED BY <1>1, <2>1, <2>2, OneCall DEF AskTarget, TInv, TypeOK
  <1>2. CASE AskCurrent(j)
    <2>1. CASE Go(j, "merge")
      BY <1>2, <2>1, GoCall DEF AskCurrent, TInv, TypeOK
    <2>2. CASE call' = [call EXCEPT ![j].pc = "status", ![j].previous = head]
      <3> DEFINE c == [call[j] EXCEPT !.pc = "status", !.previous = head]
      <3>1. call' = [call EXCEPT ![j] = c]
        BY <2>2 DEF TInv, TypeOK, Call
      <3>2. c \in GoodCall
        BY <1>2 DEF AskCurrent, At, TInv, TypeOK, Call, PC, GoodCall, Named
      <3> HIDE DEF c
      <3> QED BY <1>2, <3>1, <3>2, OneCall DEF AskCurrent, TInv, TypeOK
    <2> QED BY <1>2, <2>1, <2>2 DEF AskCurrent
  <1>3. CASE AskStatus(j)
    BY <1>3, OnCall DEF AskStatus, At, TInv, TypeOK
  <1> QED BY <1>1, <1>2, <1>3

LEMMA StashType ==
  ASSUME TInv, NEW j \in Job, Stash(j)
  PROVE  TInv'
  <1>1. CASE Go(j, "checkout") /\ UNCHANGED <<tree, stash>>
    BY <1>1, OnCall DEF Stash, At, TInv, TypeOK
  <1>2. CASE /\ call' = [call EXCEPT ![j].pc = "checkout", ![j].stashed = TRUE]
             /\ stash' = IF tree = {} THEN stash ELSE <<tree>> \o stash
             /\ tree' = {}
    <2> DEFINE c == [call[j] EXCEPT !.pc = "checkout", !.stashed = TRUE]
    <2>1. call' = [call EXCEPT ![j] = c]
      BY <1>2 DEF TInv, TypeOK, Call
    <2>2. c \in GoodCall
      BY DEF Stash, At, TInv, TypeOK, Call, PC, GoodCall, Named
    <2>3. stash' \in Seq(SUBSET Change)
      <3>1. <<tree>> \in Seq(SUBSET Change) /\ stash \in Seq(SUBSET Change)
        BY DEF TInv, TypeOK
      <3>2. <<tree>> \o stash \in Seq(SUBSET Change)
        BY <3>1
      <3> QED BY <1>2, <3>1, <3>2
    <2> HIDE DEF c
    <2> QED BY <1>2, <2>1, <2>2, <2>3, OneCall DEF Stash, TInv, TypeOK
  <1> QED BY <1>1, <1>2 DEF Stash

LEMMA CheckoutType ==
  ASSUME TInv, NEW j \in Job, Checkout(j)
  PROVE  TInv'
  <1>1. call[j].target \in Branch
    BY DEF Checkout, At, TInv, TypeOK, Call, GoodCall, Named
  <1>2. CASE head' = call[j].target /\ Go(j, "merge")
    BY <1>1, <1>2, GoCall DEF Checkout, TInv, TypeOK
  <1>3. CASE End(j, "thrown") /\ UNCHANGED head
    BY <1>3, EndCall DEF Checkout, TInv, TypeOK, Result
  <1> QED BY <1>2, <1>3 DEF Checkout

LEMMA MergeType ==
  ASSUME TInv, NEW j \in Job, Merge(j) \/ Abort(j)
  PROVE  TInv'
  <1>1. call' \in [Job -> Call] /\ call' \in [Job -> GoodCall]
    BY FinishCall, GoCall DEF Merge, Abort, Result
  <1>2. log' \in [Branch -> SUBSET Job] /\ merging' \in BOOLEAN
    BY DEF Merge, Abort, TInv, TypeOK
  <1> QED BY <1>1, <1>2 DEF Merge, Abort, TInv, TypeOK

LEMMA RestoreType ==
  ASSUME TInv, NEW j \in Job, Back(j) \/ Pop(j)
  PROVE  TInv'
  <1>1. call' \in [Job -> Call] /\ call' \in [Job -> GoodCall]
    BY GoCall DEF Back, AfterBack, Pop
  <1>2. CASE Back(j)
    <2>1. call[j].previous \in Branch
      BY <1>2 DEF Back, At, TInv, TypeOK, Call, GoodCall, Named
    <2>2. head' \in Branch
      BY <1>2, <2>1 DEF Back, TInv, TypeOK
    <2> QED BY <1>1, <1>2, <2>2 DEF Back, TInv, TypeOK
  <1>3. CASE Pop(j)
    <2>1. ASSUME stash # <<>>
          PROVE  stash[1] \subseteq Change /\ Tail(stash) \in Seq(SUBSET Change)
      BY <2>1 DEF TInv, TypeOK
    <2>2. tree' \subseteq Change /\ stash' \in Seq(SUBSET Change)
      BY <1>3, <2>1 DEF Pop, TInv, TypeOK
    <2> QED BY <1>1, <1>3, <2>2 DEF Pop, TInv, TypeOK
  <1> QED BY <1>2, <1>3

LEMMA TypeStep == TInv /\ [Next]_vars => TInv'
  <1> SUFFICES ASSUME TInv, [Next]_vars PROVE TInv'
    OBVIOUS
  <1>1. ASSUME NEW j \in Job, Begin(j) \/ CallStep(j) PROVE TInv'
    BY <1>1, BeginType, AskType, StashType, CheckoutType, MergeType, RestoreType
    DEF CallStep
  <1>2. ASSUME NEW c \in Change, UserEdit(c) PROVE TInv'
    BY <1>2 DEF UserEdit, TInv, TypeOK
  <1>3. CASE UNCHANGED vars
    BY <1>3 DEF vars, TInv, TypeOK
  <1> QED BY <1>1, <1>2, <1>3 DEF Next

LEMMA InitType == Init => TInv
  <1>1. NoCall \in Call
    BY DEF NoCall, Call, PC, Result
  <1>2. NoCall \in GoodCall
    BY <1>1 DEF NoCall, GoodCall, Named
  <1> SUFFICES ASSUME Init PROVE TInv
    OBVIOUS
  <1>3. call \in [Job -> Call] /\ call \in [Job -> GoodCall]
    BY <1>1, <1>2 DEF Init
  <1>4. stash \in Seq(SUBSET Change) /\ tree \subseteq Change
    BY DEF Init
  <1>5. head \in Branch /\ merging \in BOOLEAN /\ log \in [Branch -> SUBSET Job]
    BY BranchAssumption DEF Init
  <1> QED BY <1>3, <1>4, <1>5 DEF TInv, TypeOK

(* Every variable keeps its type: a branch is known wherever one is        *)
(* checked out.                                                            *)
THEOREM TypeCorrect == Spec => []TypeOK
  <1>1. Init => TInv
    BY InitType
  <1>2. TInv => TypeOK
    BY DEF TInv
  <1> QED BY <1>1, <1>2, TypeStep, PTL DEF Spec

-----------------------------------------------------------------------------
(* Where merges land.  Calls that name a target overlap with no other, and *)
(* the user's branch can be checked out again: without either, calls end   *)
(* in a branch that somebody else has checked out.                         *)
Disciplined == /\ \A j \in Job : Given[j] # NoBranch => j \in Exclusive
               /\ "restore" \notin Faults

(* A call that may overlap with others never changes the branch.           *)
PlainCall(c) ==
  /\ c.previous = NoBranch
  /\ c.pc \notin {"status", "stash", "checkout", "back", "pop"}
  /\ c.pc = "current" => c.target = Home

(* The branch b that is checked out while call j stands at c, if j has the *)
(* tree for itself.                                                        *)
AloneCall(j, c, b) ==
  /\ c.pc \in {"target", "current"} => b = Home /\ c.previous = NoBranch
  /\ c.pc = "target" => Given[j] = NoBranch
  /\ c.pc \in {"current", "status", "stash", "checkout"} => c.target = Goal(j)
  /\ c.pc \in {"status", "stash", "checkout"} => b = Home /\ c.previous = Home
  /\ c.pc \in {"merge", "abort", "back"} => b = Goal(j)
  /\ c.pc \in {"merge", "abort"} =>
       c.previous = Home \/ (c.previous = NoBranch /\ b = Home)
  /\ c.pc = "back" => c.previous = Home
  /\ c.pc \in {"pop", "over"} => b = Home

Alone   == \A j \in Exclusive : UnderWay(j) => \A k \in Job \ {j} : ~UnderWay(k)
AtHome  == (\A j \in Exclusive : ~UnderWay(j)) => head = Home
Fresh   == \A j \in Job : At(j, "idle") => call[j].previous = NoBranch
Plain   == \A j \in Job \ Exclusive : PlainCall(call[j])
Placed  == \A j \in Exclusive : UnderWay(j) => AloneCall(j, call[j], head)
Aborted == merging => \E j \in Job : At(j, "abort")

Schedule == Alone /\ AtHome /\ Fresh /\ Plain /\ Placed
DInv     == TInv /\ Schedule /\ Aborted /\ LandsInTarget

Free(j) == IF j \in Exclusive THEN Quiet ELSE \A k \in Exclusive : ~UnderWay(k)

(* A call that may overlap makes a step.                                   *)
LEMMA PlainStep ==
  ASSUME DInv, NEW j \in Job \ Exclusive, NEW c \in Call,
         call' = [call EXCEPT ![j] = c], UNCHANGED head,
         UnderWay(j) \/ Free(j), PlainCall(c), c.pc # "idle"
  PROVE  Schedule'
  <1> USE ScheduleAssumption DEF DInv, TInv, TypeOK, Schedule
  <1>1. /\ call'[j] = c
        /\ \A k \in Job \ {j} : call'[k] = call[k]
    OBVIOUS
  <1>2. \A k \in Exclusive : ~UnderWay(k)
    BY DEF Alone, Free
  <1>3. \A k \in Exclusive : call'[k] = call[k] /\ ~UnderWay(k)'
    BY <1>1, <1>2 DEF UnderWay
  <1>4. Alone' /\ AtHome'
    BY <1>2, <1>3 DEF Alone, AtHome
  <1>5. Fresh' /\ Plain'
    BY <1>1 DEF Fresh, Plain, At
  <1>6. Placed'
    BY <1>3 DEF Placed
  <1> QED BY <1>4, <1>5, <1>6

(* A call that has the tree for itself makes a step.                       *)
LEMMA AloneStep ==
  ASSUME DInv, NEW j \in Exclusive, NEW c \in Call,
         call' = [call EXCEPT ![j] = c],
         UnderWay(j) \/ Free(j), AloneCall(j, c, head'), c.pc # "idle"
  PROVE  Schedule'
  <1> USE ScheduleAssumption DEF DInv, TInv, TypeOK, Schedule
  <1>1. /\ call'[j] = c /\ j \in Job
        /\ \A k \in Job \ {j} : call'[k] = call[k]
    OBVIOUS
  <1>2. \A k \in Job \ {j} : ~UnderWay(k) /\ ~UnderWay(k)'
    BY <1>1 DEF Alone, Free, Quiet, UnderWay
  <1>3. Alone'
    BY <1>2 DEF Alone
  <1>4. AtHome'
    <2> SUFFICES ASSUME ~UnderWay(j)' PROVE head' = Home
      BY DEF AtHome
    <2>1. c.pc = "over"
      BY <1>1 DEF UnderWay
    <2> QED BY <2>1 DEF AloneCall
  <1>5. Fresh' /\ Plain'
    BY <1>1 DEF Fresh, Plain, At
  <1>6. Placed'
    BY <1>1, <1>2 DEF Placed
  <1> QED BY <1>3, <1>4, <1>5, <1>6

(* What is checked out when call j is about to merge.                      *)
LEMMA MergesHere ==
  ASSUME Disciplined, DInv, NEW j \in Job, At(j, "merge")
  PROVE  head = Goal(j)
  <1>1. UnderWay(j)
    BY DEF At, UnderWay
  <1>2. CASE j \in Exclusive
    BY <1>1, <1>2 DEF DInv, Schedule, Placed, AloneCall, At
  <1>3. CASE j \notin Exclusive
    <2>1. \A k \in Exclusive : ~UnderWay(k)
      BY <1>1, <1>3, ScheduleAssumption DEF DInv, Schedule, Alone
    <2> QED BY <1>3, <2>1 DEF DInv, Schedule, AtHome, Goal, Disciplined
  <1> QED BY <1>2, <1>3

LEMMA BeginKeeps ==
  ASSUME Disciplined, DInv, NEW j \in Job, Begin(j)
  PROVE  Schedule'
  <1> USE ScheduleAssumption, BranchAssumption
  <1>1. /\ Free(j) /\ UNCHANGED head /\ call[j].previous = NoBranch
        /\ call[j] \in Call /\ ~UnderWay(j)
    BY DEF Begin, Free, DInv, Schedule, Fresh, At, TInv, TypeOK, UnderWay
  <1>2. head = Home
    BY <1>1 DEF DInv, Schedule, AtHome, Free, Quiet
  <1>3. PICK c \in Call :
          /\ call' = [call EXCEPT ![j] = c] /\ c.previous = NoBranch
          /\ \/ c.pc = "merge" /\ Given[j] = NoBranch
             \/ c.pc = "target" /\ Given[j] = NoBranch
             \/ c.pc = "current" /\ Given[j] # NoBranch /\ c.target = Given[j]
    <2>1. CASE \E p \in {"merge", "target"} : Go(j, p) /\ Given[j] = NoBranch
      <3>1. PICK p \in {"merge", "target"} : Go(j, p) /\ Given[j] = NoBranch
        BY <2>1
      <3> DEFINE c == [call[j] EXCEPT !.pc = p]
      <3>2. c \in Call /\ c.pc = p /\ c.previous = NoBranch
        BY <1>1 DEF Call, PC
      <3>3. call' = [call EXCEPT ![j] = c]
        BY <3>1 DEF Go, DInv, TInv, TypeOK, Call
      <3> HIDE DEF c
      <3> QED BY <3>1, <3>2, <3>3
    <2>2. CASE /\ Given[j] # NoBranch
               /\ call' = [call EXCEPT ![j].pc = "current", ![j].target = Given[j]]
      <3> DEFINE c == [call[j] EXCEPT !.pc = "current", !.target = Given[j]]
      <3>1. c \in Call /\ c.pc = "current" /\ c.previous = NoBranch /\ c.target = Given[j]
        BY <1>1 DEF Call, PC
      <3>2. call' = [call EXCEPT ![j] = c]
        BY <2>2 DEF DInv, TInv, TypeOK, Call
      <3> HIDE DEF c
      <3> QED BY <2>2, <3>1, <3>2
    <2> QED BY <2>1, <2>2 DEF Begin, MergeIntegrationBranch
  <1>4. CASE j \in Exclusive
    <2>1. AloneCall(j, c, head')
      BY <1>1, <1>2, <1>3 DEF AloneCall, Goal
    <2> QED BY <1>1, <1>3, <1>4, <2>1, AloneStep
  <1>5. CASE j \notin Exclusive
    <2>1. PlainCall(c)
      BY <1>3, <1>5 DEF PlainCall, Disciplined
    <2> QED BY <1>1, <1>3, <1>5, <2>1, PlainStep
  <1> QED BY <1>4, <1>5

LEMMA AskKeeps ==
  ASSUME DInv, NEW j \in Job, AskTarget(j) \/ AskCurrent(j) \/ AskStatus(j)
  PROVE  Schedule'
  <1> USE ScheduleAssumption, BranchAssumption
  <1>1. /\ UnderWay(j) /\ UNCHANGED head /\ call[j] \in Call
    BY DEF AskTarget, AskCurrent, AskStatus, UnderWay, At, DInv, TInv, TypeOK
  <1>2. CASE AskTarget(j)
    <2> DEFINE c == [call[j] EXCEPT !.pc = "current", !.target = head]
    <2>1. /\ c \in Call /\ c.pc = "current" /\ c.previous = call[j].previous
          /\ c.target = head
      BY <1>1 DEF Call, PC, DInv, TInv, TypeOK
    <2>2. call' = [call EXCEPT ![j] = c]
      BY <1>2 DEF AskTarget, DInv, TInv, TypeOK, Call
    <2> HIDE DEF c
    <2>3. CASE j \in Exclusive
      <3>1. AloneCall(j, c, head')
        BY <1>1, <1>2, <2>1, <2>3 DEF AskTarget, At, AloneCall, Goal, DInv, Schedule, Placed
      <3> QED BY <1>1, <2>1, <2>2, <2>3, <3>1, AloneStep
    <2>4. CASE j \notin Exclusive
      <3>1. head = Home
        BY <1>1, <2>4 DEF DInv, Schedule, Alone, AtHome
      <3>2. PlainCall(c)
        BY <2>1, <2>4, <3>1 DEF PlainCall, DInv, Schedule, Plain
      <3> QED BY <1>1, <2>1, <2>2, <2>4, <3>2, PlainStep
    <2> QED BY <2>3, <2>4
  <1>3. CASE AskCurrent(j)
    <2>1. CASE head = call[j].target /\ Go(j, "merge")
      <3> DEFINE c == [call[j] EXCEPT !.pc = "merge"]
      <3>1. c \in Call /\ c.pc = "merge" /\ c.previous = call[j].previous
        BY <1>1 DEF Call, PC
      <3>2. call' = [call EXCEPT ![j] = c]
        BY <2>1 DEF Go, DInv, TInv, TypeOK, Call
      <3> HIDE DEF c
      <3>3. CASE j \in Exclusive
        <4>1. AloneCall(j, c, head')
          BY <1>1, <1>3, <2>1, <3>1, <3>3
          DEF AskCurrent, At, AloneCall, DInv, Schedule, Placed
        <4> QED BY <1>1, <3>1, <3>2, <3>3, <4>1, AloneStep
      <3>4. CASE j \notin Exclusive
        <4>1. PlainCall(c)
          BY <3>1, <3>4 DEF PlainCall, DInv, Schedule, Plain
        <4> QED BY <1>1, <3>1, <3>2, <3>4, <4>1, PlainStep
      <3> QED BY <3>3, <3>4
    <2>2. CASE /\ head # call[j].target
               /\ call' = [call EXCEPT ![j].pc = "status", ![j].previous = head]
      <3> DEFINE c == [call[j] EXCEPT !.pc = "status", !.previous = head]
      <3>1. /\ c \in Call /\ c.pc = "status" /\ c.previous = head
            /\ c.target = call[j].target
        BY <1>1 DEF Call, PC, DInv, TInv, TypeOK
      <3>2. call' = [call EXCEPT ![j] = c]
        BY <2>2 DEF DInv, TInv, TypeOK, Call
      <3> HIDE DEF c
      <3>3. j \in Exclusive
        <4> SUFFICES ASSUME j \notin Exclusive PROVE FALSE
          OBVIOUS
        <4>1. head = Home
          BY <1>1 DEF DInv, Schedule, Alone, AtHome
        <4>2. call[j].target = Home
          BY <1>3 DEF AskCurrent, At, DInv, Schedule, Plain, PlainCall
        <4> QED BY <2>2, <4>1, <4>2
      <3>4. AloneCall(j, c, head')
        BY <1>1, <1>3, <3>1, <3>3 DEF AskCurrent, At, AloneCall, DInv, Schedule, Placed
      <3> QED BY <1>1, <3>1, <3>2, <3>3, <3>4, AloneStep
    <2> QED BY <1>3, <2>1, <2>2 DEF AskCurrent
  <1>4. CASE AskStatus(j)
    <2>1. PICK p \in {"stash", "checkout"} : Go(j, p)
      BY <1>4 DEF AskStatus
    <2> DEFINE c == [call[j] EXCEPT !.pc = p]
    <2>2. /\ c \in Call /\ c.pc = p /\ c.previous = call[j].previous
          /\ c.target = call[j].target
      BY <1>1 DEF Call, PC
    <2>3. call' = [call EXCEPT ![j] = c]
      BY <2>1 DEF Go, DInv, TInv, TypeOK, Call
    <2> HIDE DEF c
    <2>4. j \in Exclusive
      BY <1>4 DEF AskStatus, At, DInv, Schedule, Plain, PlainCall
    <2>5. AloneCall(j, c, head')
      BY <1>1, <1>4, <2>2, <2>4 DEF AskStatus, At, AloneCall, DInv, Schedule, Placed
    <2> QED BY <1>1, <2>2, <2>3, <2>4, <2>5, AloneStep
  <1> QED BY <1>2, <1>3, <1>4

(* The commands that only a call with the tree for itself gives.           *)
LEMMA SwitchKeeps ==
  ASSUME Disciplined, DInv, NEW j \in Job,
         Stash(j) \/ Checkout(j) \/ Back(j) \/ Pop(j)
  PROVE  Schedule'
  <1> USE ScheduleAssumption, BranchAssumption
  <1>1. UnderWay(j) /\ call[j] \in Call
    BY DEF Stash, Checkout, Back, Pop, UnderWay, At, DInv, TInv, TypeOK
  <1>2. j \in Exclusive
    BY DEF Stash, Checkout, Back, Pop, At, DInv, Schedule, Plain, PlainCall
  <1>3. AloneCall(j, call[j], head)
    BY <1>1, <1>2 DEF DInv, Schedule, Placed
  <1>4. CASE Stash(j)
    <2>1. PICK s \in BOOLEAN :
            call' = [call EXCEPT ![j].pc = "checkout", ![j].stashed = s]
      <3>1. CASE Go(j, "checkout")
        <4>1. call' = [call EXCEPT ![j].pc = "checkout", ![j].stashed = call[j].stashed]
          BY <3>1 DEF Go, DInv, TInv, TypeOK, Call
        <4> QED BY <1>1, <4>1 DEF Call
      <3> QED BY <1>4, <3>1 DEF Stash
    <2> DEFINE c == [call[j] EXCEPT !.pc = "checkout", !.stashed = s]
    <2>2. /\ c \in Call /\ c.pc = "checkout" /\ c.previous = call[j].previous
          /\ c.target = call[j].target
      BY <1>1 DEF Call, PC
    <2>3. call' = [call EXCEPT ![j] = c]
      BY <2>1 DEF DInv, TInv, TypeOK, Call
    <2> HIDE DEF c
    <2>4. AloneCall(j, c, head')
      BY <1>3, <1>4, <2>2 DEF Stash, At, AloneCall
    <2> QED BY <1>1, <1>2, <2>2, <2>3, <2>4, AloneStep
  <1>5. CASE Checkout(j)
    <2>1. CASE head' = call[j].target /\ Go(j, "merge")
      <3> DEFINE c == [call[j] EXCEPT !.pc = "merge"]
      <3>1. c \in Call /\ c.pc = "merge" /\ c.previous = call[j].previous
        BY <1>1 DEF Call, PC
      <3>2. call' = [call EXCEPT ![j] = c]
        BY <2>1 DEF Go, DInv, TInv, TypeOK, Call
      <3> HIDE DEF c
      <3>3. AloneCall(j, c, head')
        BY <1>3, <1>5, <2>1, <3>1 DEF Checkout, At, AloneCall
      <3> QED BY <1>1, <1>2, <3>1, <3>2, <3>3, AloneStep
    <2>2. CASE End(j, "thrown") /\ UNCHANGED head
      <3> DEFINE c == [call[j] EXCEPT !.pc = "over", !.result = "thrown"]
      <3>1. c \in Call /\ c.pc = "over"
        BY <1>1 DEF Call, PC, Result
      <3>2. call' = [call EXCEPT ![j] = c]
        BY <2>2 DEF End, DInv, TInv, TypeOK, Call
      <3> HIDE DEF c
      <3>3. AloneCall(j, c, head')
        BY <1>3, <1>5, <2>2, <3>1 DEF Checkout, At, AloneCall
      <3> QED BY <1>1, <1>2, <3>1, <3>2, <3>3, AloneStep
    <2> QED BY <1>5, <2>1, <2>2 DEF Checkout
  <1>6. CASE Back(j) \/ Pop(j)
    <2>1. PICK p \in {"pop", "over"} : Go(j, p)
      BY <1>6 DEF Back, AfterBack, Pop
    <2>2. head' = Home
      <3>1. CASE Pop(j)
        BY <1>3, <3>1 DEF Pop, At, AloneCall
      <3>2. CASE Back(j)
        <4>1. ~merging
          <5> SUFFICES ASSUME merging PROVE FALSE
            OBVIOUS
          <5>1. PICK k \in Job : At(k, "abort")
            BY DEF DInv, Aborted
          <5>2. k # j /\ UnderWay(k)
            BY <3>2, <5>1 DEF Back, At, UnderWay
          <5> QED BY <1>1, <1>2, <5>2 DEF DInv, Schedule, Alone
        <4> QED BY <1>3, <3>2, <4>1 DEF Back, At, AloneCall, Disciplined
      <3> QED BY <1>6, <3>1, <3>2
    <2> DEFINE c == [call[j] EXCEPT !.pc = p]
    <2>3. c \in Call /\ c.pc = p
      BY <1>1 DEF Call, PC
    <2>4. call' = [call EXCEPT ![j] = c]
      BY <2>1 DEF Go, DInv, TInv, TypeOK, Call
    <2> HIDE DEF c
    <2>5. AloneCall(j, c, head')
      BY <2>2, <2>3 DEF AloneCall
    <2> QED BY <1>1, <1>2, <2>3, <2>4, <2>5, AloneStep
  <1> QED BY <1>4, <1>5, <1>6

LEMMA MergeKeeps ==
  ASSUME DInv, NEW j \in Job, Merge(j) \/ Abort(j)
  PROVE  Schedule'
  <1> USE ScheduleAssumption, BranchAssumption
  <1>1. /\ UnderWay(j) /\ UNCHANGED head /\ call[j] \in Call
        /\ call[j].pc \in {"merge", "abort"}
    BY DEF Merge, Abort, UnderWay, At, DInv, TInv, TypeOK
  <1>2. PICK p \in {"abort", "back", "over"}, r \in Result :
          /\ call' = [call EXCEPT ![j].pc = p, ![j].result = r]
          /\ p = "back" => call[j].previous # NoBranch
          /\ p = "over" => call[j].previous = NoBranch
    <2>1. CASE Go(j, "abort")
      <3>1. call' = [call EXCEPT ![j].pc = "abort", ![j].result = call[j].result]
        BY <2>1 DEF Go, DInv, TInv, TypeOK, Call
      <3> QED BY <1>1, <3>1 DEF Call
    <2>2. CASE \E r \in Result : Finish(j, r)
      BY <2>2 DEF Finish, End
    <2> QED BY <2>1, <2>2 DEF Merge, Abort, Result
  <1> DEFINE c == [call[j] EXCEPT !.pc = p, !.result = r]
  <1>3. c \in Call /\ c.pc = p /\ c.previous = call[j].previous
    BY <1>1 DEF Call, PC
  <1>4. call' = [call EXCEPT ![j] = c]
    BY <1>2 DEF DInv, TInv, TypeOK, Call
  <1> HIDE DEF c
  <1>5. CASE j \in Exclusive
    <2>1. AloneCall(j, c, head')
      BY <1>1, <1>2, <1>3, <1>5 DEF AloneCall, DInv, Schedule, Placed
    <2> QED BY <1>1, <1>2, <1>3, <1>4, <1>5, <2>1, AloneStep
  <1>6. CASE j \notin Exclusive
    <2>1. PlainCall(c)
      BY <1>2, <1>3, <1>6 DEF PlainCall, DInv, Schedule, Plain
    <2> QED BY <1>1, <1>2, <1>3, <1>4, <1>6, <2>1, PlainStep
  <1> QED BY <1>5, <1>6

(* Whoever leaves a merge unfinished is about to abort it.                 *)
LEMMA AbortedStep ==
  ASSUME DInv, NEW j \in Job, Begin(j) \/ CallStep(j)
  PROVE  Aborted'
  <1> SUFFICES ASSUME merging' PROVE \E k \in Job : At(k, "abort")'
    BY DEF Aborted
  <1>1. CASE merging
    <2>1. ~Abort(j) /\ ~At(j, "abort")
      BY <1>1 DEF Abort, Begin, CallStep, At, AskTarget, AskCurrent, AskStatus,
                  Stash, Checkout, Merge, Back, Pop
    <2>2. PICK k \in Job : At(k, "abort")
      BY <1>1 DEF DInv, Aborted
    <2>3. k # j
      BY <2>1, <2>2
    <2>4. call'[k] = call[k]
      BY <2>3 DEF Begin, MergeIntegrationBranch, CallStep, Go, End, Finish, AfterBack,
                  AskTarget, AskCurrent, AskStatus, Stash, Checkout, Merge, Abort,
                  Back, Pop, DInv, TInv, TypeOK
    <2> QED BY <2>2, <2>4 DEF At
  <1>2. CASE ~merging
    <2>1. Merge(j) /\ Go(j, "abort")
      BY <1>2 DEF Begin, CallStep, AskTarget, AskCurrent, AskStatus, Stash, Checkout,
                  Merge, Abort, Back, Pop
    <2> QED BY <2>1 DEF Go, At, DInv, TInv, TypeOK, Call
  <1> QED BY <1>1, <1>2

LEMMA LandsStep ==
  ASSUME Disciplined, DInv, NEW j \in Job, Begin(j) \/ CallStep(j)
  PROVE  LandsInTarget'
  <1>1. CASE UNCHANGED log
    BY <1>1 DEF LandsInTarget, DInv, Goal
  <1>2. CASE At(j, "merge") /\ log' = [log EXCEPT ![head] = @ \cup {j}]
    <2>1. head = Goal(j)
      BY <1>2, MergesHere
    <2>2. head \in Branch /\ log \in [Branch -> SUBSET Job]
      BY DEF DInv, TInv, TypeOK
    <2>3. \A b \in Branch : \A k \in log'[b] : b = Goal(k)
      BY <1>2, <2>1, <2>2 DEF DInv, LandsInTarget
    <2> QED BY <2>3 DEF LandsInTarget, Goal
  <1> QED BY <1>1, <1>2 DEF Begin, CallStep, AskTarget, AskCurrent, AskStatus, Stash,
                            Checkout, Merge, Abort, Back, Pop

LEMMA DisciplineKept == Disciplined /\ DInv /\ [Next]_vars => DInv'
  <1> SUFFICES ASSUME Disciplined, DInv, [Next]_vars PROVE DInv'
    OBVIOUS
  <1>1. TInv'
    BY TypeStep DEF DInv
  <1>2. ASSUME NEW j \in Job, Begin(j) \/ CallStep(j) PROVE DInv'
    <2>1. Schedule'
      BY <1>2, BeginKeeps, AskKeeps, SwitchKeeps, MergeKeeps DEF CallStep
    <2> QED BY <1>1, <1>2, <2>1, AbortedStep, LandsStep DEF DInv
  <1>3. CASE UNCHANGED <<call, head, merging, log>>
    BY <1>1, <1>3 DEF DInv, Schedule, Alone, AtHome, Fresh, Plain, Placed, Aborted,
                      LandsInTarget, UnderWay, At, Goal
  <1> QED BY <1>2, <1>3 DEF Next, UserEdit, vars

LEMMA DisciplineFromStart == Disciplined /\ Init => DInv
  <1> SUFFICES ASSUME Disciplined, Init PROVE DInv
    OBVIOUS
  <1>1. TInv
    BY InitType
  <1>2. \A j \in Job : call[j] = NoCall
    BY DEF Init
  <1>3. Schedule
    BY <1>2, ScheduleAssumption
    DEF Init, Schedule, Alone, AtHome, Fresh, Plain, Placed, PlainCall, UnderWay, At,
        NoCall
  <1>4. Aborted /\ LandsInTarget
    BY DEF Init, Aborted, LandsInTarget
  <1> QED BY <1>1, <1>3, <1>4 DEF DInv

(* Every branch lands where it is meant to, however many handlers merge at *)
(* once, as long as the calls that switch branches overlap with no other.  *)
THEOREM MergesLand ==
  ASSUME Disciplined
  PROVE  Spec => []LandsInTarget
  <1>1. Init => DInv
    BY DisciplineFromStart
  <1>2. DInv /\ [Next]_vars => DInv'
    BY DisciplineKept
  <1>3. DInv => LandsInTarget
    BY DEF DInv
  <1> QED BY <1>1, <1>2, <1>3, PTL DEF Spec

(* The user finds the own branch checked out and no merge half done when   *)
(* all calls have returned, under the same assumption.                     *)
THEOREM BranchRestored ==
  ASSUME Disciplined
  PROVE  Spec => []TreeRestored
  <1>1. Init => DInv
    BY DisciplineFromStart
  <1>2. DInv /\ [Next]_vars => DInv'
    BY DisciplineKept
  <1>3. DInv => TreeRestored
    BY ScheduleAssumption
    DEF DInv, Schedule, AtHome, Aborted, TreeRestored, Quiet, UnderWay, At
  <1> QED BY <1>1, <1>2, <1>3, PTL DEF Spec

-----------------------------------------------------------------------------
(* What a call reports.  A call without a result has merged nothing yet,   *)
(* and it has none before the merge is over.                               *)
Reported(j) ==
  IF call[j].result = "merged" THEN j \in log[Goal(j)]
                               ELSE \A b \in Branch : j \notin log[b]

Undecided(j) ==
  call[j].pc \notin {"back", "pop", "over"} => call[j].result = "none"

Report == \A j \in Job : Reported(j) /\ Undecided(j)

(* What a step of call j does to its result.                               *)
LEMMA ResultStep ==
  ASSUME TInv, NEW j \in Job, Begin(j) \/ CallStep(j)
  PROVE  /\ call'[j] \in Call /\ \A k \in Job \ {j} : call'[k] = call[k]
         /\ \/ /\ call'[j].result = call[j].result
               /\ call[j].pc \in {"back", "pop"} => call'[j].pc \in {"pop", "over"}
               /\ UNCHANGED log
            \/ /\ At(j, "merge") /\ call'[j].result = "merged"
               /\ call'[j].pc \in {"back", "over"}
               /\ log' = [log EXCEPT ![head] = @ \cup {j}]
            \/ /\ call[j].pc \in {"checkout", "merge", "abort"}
               /\ call'[j].result \in {"thrown", "failed", "conflict"}
               /\ call'[j].pc \in {"back", "over"}
               /\ UNCHANGED log
  <1>1. call \in [Job -> Call] /\ call' \in [Job -> Call]
    BY TypeStep DEF Next, TInv, TypeOK
  <1>2. \A k \in Job \ {j} : call'[k] = call[k]
    BY <1>1 DEF Begin, MergeIntegrationBranch, CallStep, Go, End, Finish, AfterBack,
                AskTarget, AskCurrent, AskStatus, Stash, Checkout, Merge, Abort, Back, Pop
  <1>3. call[j] \in Call  BY <1>1
  <1>4. ASSUME NEW p \in PC, Go(j, p)
        PROVE  call'[j].pc = p /\ call'[j].result = call[j].result
    BY <1>1, <1>3, <1>4 DEF Go, Call
  <1>5. ASSUME NEW r \in Result, End(j, r) \/ Finish(j, r)
        PROVE  call'[j].pc \in {"back", "over"} /\ call'[j].result = r
    BY <1>1, <1>3, <1>5 DEF End, Finish, Call
  <1>6. CASE Begin(j) \/ AskTarget(j) \/ AskCurrent(j) \/ AskStatus(j) \/ Stash(j)
    <2>1. UNCHANGED log /\ call[j].pc \notin {"back", "pop"}
      BY <1>6 DEF Begin, AskTarget, AskCurrent, AskStatus, Stash, At
    <2>2. call'[j].result = call[j].result
      BY <1>1, <1>3, <1>6 DEF Begin, MergeIntegrationBranch, AskTarget, AskCurrent,
                              AskStatus, Stash, Go, Call
    <2> QED BY <1>1, <1>2, <2>1, <2>2
  <1>7. CASE Checkout(j)
    BY <1>1, <1>2, <1>4, <1>5, <1>7 DEF Checkout, At, PC, Result
  <1>8. CASE Merge(j) \/ Abort(j)
    BY <1>1, <1>2, <1>4, <1>5, <1>8 DEF Merge, Abort, At, PC, Result
  <1>9. CASE Back(j) \/ Pop(j)
    BY <1>1, <1>2, <1>4, <1>9 DEF Back, AfterBack, Pop, At, PC
  <1> QED BY <1>6, <1>7, <1>8, <1>9 DEF CallStep

LEMMA ReportStep ==
  ASSUME Disciplined, DInv, Report, [Next]_vars
  PROVE  Report'
  <1>1. ASSUME NEW j \in Job, Begin(j) \/ CallStep(j) PROVE Report'
    <2>1. TInv /\ log \in [Branch -> SUBSET Job] /\ head \in Branch
      BY DEF DInv, TInv, TypeOK
    <2>2. /\ \A k \in Job \ {j} : call'[k] = call[k]
          /\ \A k \in Job \ {j} : \A b \in Branch : k \in log'[b] <=> k \in log[b]
      BY <1>1, <2>1, ResultStep
    <2>3. ASSUME NEW k \in Job \ {j} PROVE Reported(k)' /\ Undecided(k)'
      <3>1. Goal(k) \in Branch
        BY BranchAssumption DEF Goal
      <3> QED BY <2>2, <3>1 DEF Report, Reported, Undecided, Goal
    <2>4. CASE /\ UNCHANGED log /\ call'[j].result = call[j].result
               /\ call[j].pc \in {"back", "pop"} => call'[j].pc \in {"pop", "over"}
      <3>1. ~At(j, "over")
        BY <1>1 DEF Begin, CallStep, AskTarget, AskCurrent, AskStatus, Stash, Checkout,
                    Merge, Abort, Back, Pop, At
      <3> QED BY <2>3, <2>4, <3>1 DEF Report, Reported, Undecided, Goal, At
    <2>5. CASE /\ At(j, "merge") /\ call'[j].result = "merged"
               /\ call'[j].pc \in {"back", "over"}
               /\ log' = [log EXCEPT ![head] = @ \cup {j}]
      <3>1. j \in log'[Goal(j)]
        BY <2>1, <2>5, MergesHere
      <3> QED BY <2>3, <2>5, <3>1 DEF Report, Reported, Undecided, Goal
    <2>6. CASE /\ call[j].pc \in {"checkout", "merge", "abort"}
               /\ call'[j].result \in {"thrown", "failed", "conflict"}
               /\ call'[j].pc \in {"back", "over"} /\ UNCHANGED log
      BY <2>3, <2>6 DEF Report, Reported, Undecided, Goal
    <2> QED BY <1>1, <2>1, <2>4, <2>5, <2>6, ResultStep
  <1>2. CASE UNCHANGED <<call, log>>
    BY <1>2 DEF Report, Reported, Undecided, Goal
  <1> QED BY <1>1, <1>2 DEF Next, UserEdit, vars

(* A call that says merged has put its branch into its target, and what    *)
(* any other call had to merge is nowhere, under the same assumption (the  *)
(* results of merge() and mergeIntegrationBranch()).                       *)
THEOREM ReportsHold ==
  ASSUME Disciplined
  PROVE  Spec => []ReportsTruth
  <1>1. Init => DInv /\ Report
    BY DisciplineFromStart DEF Init, Report, Reported, Undecided, NoCall
  <1>2. DInv /\ Report /\ [Next]_vars => DInv' /\ Report'
    BY DisciplineKept, ReportStep
  <1>3. Report => ReportsTruth
    BY DEF Report, Reported, ReportsTruth
  <1> QED BY <1>1, <1>2, <1>3, PTL DEF Spec

(* No step loses an uncommitted change of the user, in any schedule: what  *)
(* is not in the working tree is in the stash.                             *)
THEOREM ChangesSafe == Spec => ChangesKept
  <1>1. TInv /\ [Next]_vars => [tree \cup Stashed \subseteq (tree \cup Stashed)']_vars
    <2> SUFFICES ASSUME TInv, Next
                 PROVE  tree \cup Stashed \subseteq (tree \cup Stashed)'
      OBVIOUS
    <2>1. stash \in Seq(SUBSET Change)
      BY DEF TInv, TypeOK
    <2>2. CASE UNCHANGED stash /\ tree \subseteq tree'
      BY <2>2 DEF Stashed
    <2>3. ASSUME stash' = <<tree>> \o stash
          PROVE  tree \cup Stashed \subseteq Stashed'
      <3>1. /\ 1 \in DOMAIN stash' /\ stash'[1] = tree
            /\ \A i \in DOMAIN stash : i + 1 \in DOMAIN stash' /\ stash'[i + 1] = stash[i]
        BY <2>1, <2>3
      <3> QED BY <3>1 DEF Stashed
    <2>4. ASSUME stash # <<>>, stash' = Tail(stash), tree' = tree \cup stash[1]
          PROVE  tree \cup Stashed \subseteq tree' \cup Stashed'
      <3>1. \A i \in DOMAIN stash \ {1} :
              i - 1 \in DOMAIN stash' /\ stash'[i - 1] = stash[i]
        BY <2>1, <2>4
      <3> QED BY <2>4, <3>1 DEF Stashed
    <2>5. ASSUME NEW j \in Job, Begin(j) \/ CallStep(j)
          PROVE  \/ UNCHANGED stash /\ tree \subseteq tree'
                 \/ stash' = <<tree>> \o stash
                 \/ stash # <<>> /\ stash' = Tail(stash) /\ tree' = tree \cup stash[1]
      BY <2>5 DEF Begin, CallStep, AskTarget, AskCurrent, AskStatus, Stash, Checkout,
                  Merge, Abort, Back, Pop
    <2>6. ASSUME NEW c \in Change, UserEdit(c)
          PROVE  UNCHANGED stash /\ tree \subseteq tree'
      BY <2>6 DEF UserEdit
    <2> QED BY <2>2, <2>3, <2>4, <2>5, <2>6 DEF Next
  <1>2. Init => TInv
    BY InitType
  <1> QED BY <1>1, <1>2, TypeStep, PTL DEF Spec, ChangesKept
=============================================================================
