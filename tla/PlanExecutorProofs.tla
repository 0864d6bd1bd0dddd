------------------------- MODULE PlanExecutorProofs -------------------------
(* Proofs about PlanExecutor, for every plan, configuration, fault and     *)
(* sequence of user calls.                                                 *)
EXTENDS PlanExecutor, FiniteSetTheorems, TLAPS

(* Where a fiber is about to use the first object it holds.                *)
HoldPC == {"work", "arbitrate", "verify", "merge", "rebase", "reverify",
           "remerge", "quick", "discard", "removing", "create", "install",
           "spawn", "pausing", "killed"}

(* What makes the types inductive: a fiber that is about to use an object  *)
(* holds one, for Head(<<>>) is unspecified, and the quick rebases are     *)
(* counted up to three.                                                    *)
HoldOK == \A f \in Fiber : /\ fib[f].pc \in HoldPC => fib[f].hold # <<>>
                           /\ fib[f].pc = "quick" => fib[f].quick < 3

TInv == TypeOK /\ HoldOK

ProcTypes == /\ step' \in [Step -> StepObj]
             /\ fib' \in [Fiber -> FiberRec]
             /\ HoldOK'

-----------------------------------------------------------------------------
LEMMA NonEmpty ==
  ASSUME NEW S, NEW s \in Seq(S), Len(s) > 0
  PROVE  s # <<>>
  OBVIOUS

(* What a fiber holds is typed, and so is what it refers to.               *)
LEMMA CurType ==
  ASSUME TInv, NEW f \in Fiber, fib[f].hold # <<>>
  PROVE  /\ Cur(f) \in Entry
         /\ Obj(f) \in StepObj
         /\ Tail(fib[f].hold) \in Seq(Entry)
         /\ Len(Tail(fib[f].hold)) = Len(fib[f].hold) - 1
  <1>1. fib[f].hold \in Seq(Entry)
    BY DEF TInv, TypeOK, FiberRec
  <1>2. /\ Cur(f) \in Entry
        /\ Tail(fib[f].hold) \in Seq(Entry)
        /\ Len(Tail(fib[f].hold)) = Len(fib[f].hold) - 1
    BY <1>1 DEF Cur
  <1>3. Obj(f) \in StepObj
    BY <1>2 DEF Obj, Entry, TInv, TypeOK
  <1> QED BY <1>2, <1>3

(* One fiber moves on.                                                     *)
LEMMA FiberMoves ==
  ASSUME TInv, NEW f \in Fiber, NEW r \in FiberRec, fib' = [fib EXCEPT ![f] = r],
         r.pc \in HoldPC => r.hold # <<>>,
         r.pc = "quick" => r.quick < 3
  PROVE  fib' \in [Fiber -> FiberRec] /\ HoldOK'
  BY DEF TInv, TypeOK, HoldOK

LEMMA GotoType ==
  ASSUME TInv, NEW f \in Fiber, NEW p \in PC, Goto(f, p), UNCHANGED step,
         p \in HoldPC => fib[f].hold # <<>>,
         p = "quick" => fib[f].quick < 3
  PROVE  ProcTypes
  BY DEF TInv, TypeOK, FiberRec, Goto, HoldOK, ProcTypes

LEMMA BecomeType ==
  ASSUME TInv, NEW f \in Fiber, NEW o \in StepObj, NEW p \in PC, Become(f, o, p),
         fib[f].hold # <<>>, p # "quick"
  PROVE  ProcTypes
  <1> DEFINE e == Cur(f)
             h == IF e.stale THEN <<[e EXCEPT !.obj = o]>> \o Tail(fib[f].hold)
                             ELSE fib[f].hold
  <1>1. e \in Entry /\ Tail(fib[f].hold) \in Seq(Entry)
    BY CurType
  <1>2. h \in Seq(Entry) /\ h # <<>>
    <2>1. CASE e.stale
      <3>1. [e EXCEPT !.obj = o] \in Entry
        BY <1>1 DEF Entry
      <3>2. <<[e EXCEPT !.obj = o]>> \in Seq(Entry) /\ Len(<<[e EXCEPT !.obj = o]>>) = 1
        BY <3>1
      <3> QED BY <1>1, <2>1, <3>2
    <2>2. CASE ~e.stale
      BY <2>2 DEF TInv, TypeOK, FiberRec
    <2> QED BY <2>1, <2>2
  <1>3. fib' = [fib EXCEPT ![f] = [fib[f] EXCEPT !.pc = p, !.hold = h]]
    BY DEF Become, TInv, TypeOK, FiberRec
  <1> HIDE DEF h
  <1>4. fib' \in [Fiber -> FiberRec] /\ HoldOK'
    BY <1>2, <1>3 DEF TInv, TypeOK, FiberRec, HoldOK
  <1>5. step' \in [Step -> StepObj]
    BY <1>1 DEF Become, TInv, TypeOK, Entry
  <1> QED BY <1>4, <1>5 DEF ProcTypes

LEMMA BecomeAndDropType ==
  ASSUME TInv, NEW f \in Fiber, NEW o \in StepObj, NEW p \in PC,
         BecomeAndDrop(f, o, p), fib[f].hold # <<>>,
         p \in HoldPC => Len(fib[f].hold) > 1, p # "quick"
  PROVE  ProcTypes
  <1> DEFINE h == Tail(fib[f].hold)
  <1>1. Cur(f) \in Entry /\ h \in Seq(Entry) /\ (p \in HoldPC => h # <<>>)
    <2>1. Len(h) = Len(fib[f].hold) - 1 /\ h \in Seq(Entry) /\ Cur(f) \in Entry
      BY CurType
    <2>2. fib[f].hold \in Seq(Entry)
      BY DEF TInv, TypeOK, FiberRec
    <2>3. ASSUME p \in HoldPC PROVE Len(h) > 0
      BY <2>1, <2>2, <2>3
    <2>4. p \in HoldPC => h # <<>>
      BY <2>1, <2>3, NonEmpty
    <2> QED BY <2>1, <2>4
  <1>2. fib' = [fib EXCEPT ![f] = [fib[f] EXCEPT !.pc = p, !.hold = h]]
    BY DEF BecomeAndDrop, TInv, TypeOK, FiberRec
  <1> HIDE DEF h
  <1>3. fib' \in [Fiber -> FiberRec] /\ HoldOK'
    BY <1>1, <1>2 DEF TInv, TypeOK, FiberRec, HoldOK
  <1>4. step' \in [Step -> StepObj]
    BY <1>1 DEF BecomeAndDrop, TInv, TypeOK, Entry
  <1> QED BY <1>3, <1>4 DEF ProcTypes

-----------------------------------------------------------------------------
(* A step keeps the types when it keeps those of the plan's objects and of *)
(* the fibers, and those of what else it changes.                          *)
LEMMA Combine ==
  ASSUME TypeOK, ProcTypes,
         planStatus' \in {"executing", "paused", "done"},
         running' \in BOOLEAN, booted' \in BOOLEAN,
         sess' \in [Session -> SessRec], mapped' \subseteq Session,
         queue' \in Seq(Event), active' \in Int, git' \in [Step -> GitRec],
         closed' \subseteq Step, ops' \in Nat
  PROVE  TInv'
  BY DEF TInv, TypeOK, ProcTypes

LEMMA RefType ==
  ASSUME NEW t \in Step
  PROVE  NewStep(t) \in StepObj /\ Ref(t) \in Entry
  <1>1. NewStep(t) \in StepObj
    BY DEF NewStep, StepObj, Status
  <1> QED BY <1>1 DEF Ref, Entry

LEMMA FirstStep == StepSeq[1] \in Step /\ 1 \in DOMAIN StepSeq
  <1>1. StepSeq \in Seq(Step) /\ StepSeq # <<>>
    BY PlanAssumption
  <1>2. 1 \in DOMAIN StepSeq
    BY <1>1
  <1> QED BY <1>2 DEF Step

(* recomputePlan() keeps what the fibers hold typed.                       *)
LEMMA DetachedType ==
  ASSUME TInv, NEW h \in Seq(Entry)
  PROVE  Detached(h) \in Seq(Entry) /\ (h # <<>> => Detached(h) # <<>>)
  <1>1. \A e \in Entry : Detach(e) \in Entry
    BY DEF Detach, Entry, TInv, TypeOK
  <1>2. \A i \in DOMAIN h : h[i] \in Entry
    OBVIOUS
  <1>3. DOMAIN h = 1..Len(h) /\ Len(h) \in Nat
    OBVIOUS
  <1>4. Detached(h) = [i \in 1..Len(h) |-> Detach(h[i])]
    BY <1>3 DEF Detached
  <1>5. \A i \in 1..Len(h) : Detach(h[i]) \in Entry
    BY <1>1, <1>2, <1>3
  <1>6. Detached(h) \in Seq(Entry) /\ Len(Detached(h)) = Len(h)
    BY <1>3, <1>4, <1>5
  <1> QED BY <1>6

LEMMA RecomputeType ==
  ASSUME TInv, NEW f \in Fiber, Recompute(f)
  PROVE  TInv'
  <1> USE DEF TInv
  <1>1. step' \in [Step -> StepObj]
    BY ZenonT(40) DEF Recompute, TypeOK, StepObj, Status
  <1> DEFINE rec(g) == [fib[g] EXCEPT !.pc = IF g = f THEN "saved" ELSE @,
                                      !.hold = Detached(@)]
  <1>2. fib' = [g \in Fiber |-> rec(g)]
    BY DEF Recompute
  <1>3. ASSUME NEW g \in Fiber
        PROVE  /\ rec(g) \in FiberRec
               /\ rec(g).pc \in HoldPC => rec(g).hold # <<>>
               /\ rec(g).pc = "quick" => rec(g).quick < 3
    <2>1. fib[g] \in FiberRec
      BY DEF TypeOK
    <2>2. Detached(fib[g].hold) \in Seq(Entry)
          /\ (fib[g].hold # <<>> => Detached(fib[g].hold) # <<>>)
      BY <2>1, DetachedType DEF FiberRec
    <2> QED BY <2>1, <2>2 DEF FiberRec, PC, HoldOK, HoldPC
  <1>4. ProcTypes
    BY <1>1, <1>2, <1>3 DEF ProcTypes, HoldOK
  <1> QED BY <1>4, Combine DEF Recompute, TypeOK

(* The list of steps to start is not empty.                                *)
LEMMA StartListType ==
  ASSUME TInv, Cardinality(Occupied) < MaxAgents, Ready # {}, NEW q \in StartLists
  PROVE  LET h == [i \in DOMAIN q |-> Ref(q[i])] IN h \in Seq(Entry) /\ h # <<>>
  <1> DEFINE free == MaxAgents - Cardinality(Occupied)
             n    == IF free < Cardinality(Ready) THEN free ELSE Cardinality(Ready)
  <1>1. /\ IsFiniteSet(Ready) /\ Ready \subseteq Step
        /\ IsFiniteSet(Occupied) /\ Occupied \subseteq Step
    BY FS_Subset, PlanAssumption DEF Ready, Occupied
  <1>2. /\ Cardinality(Ready) \in Nat /\ Cardinality(Ready) # 0
        /\ Cardinality(Occupied) \in Nat
    BY <1>1, FS_CardinalityType, FS_EmptySet
  <1>3. n \in Nat /\ n > 0
    BY <1>2, ConfigAssumption
  <1>4. q \in [1..n -> Ready]
    BY DEF StartLists
  <1> HIDE DEF n
  <1>5. \A i \in 1..n : Ref(q[i]) \in Entry
    BY <1>1, <1>4, RefType
  <1> DEFINE h == [i \in 1..n |-> Ref(q[i])]
  <1>6. h \in Seq(Entry) /\ Len(h) = n
    BY <1>3, <1>5
  <1>7. h # <<>>
    BY <1>3, <1>6
  <1> QED BY <1>4, <1>6, <1>7

LEMMA StartReadyStepsType ==
  ASSUME TInv, NEW f \in Fiber, StartReadySteps(f)
  PROVE  TInv'
  <1> USE DEF TInv
  <1>1. AfterStart(f) \in PC \ (HoldPC \cup {"quick"})
    BY DEF AfterStart, PC, HoldPC
  <1>2. CASE UNCHANGED <<step>> /\ (Goto(f, AfterStart(f)) \/ Goto(f, "term"))
    <2>1. ProcTypes
      BY <1>1, <1>2, GotoType DEF PC, HoldPC
    <2> QED BY <2>1, Combine DEF StartReadySteps, TypeOK
  <1>3. ASSUME NEW q \in StartLists, Cardinality(Occupied) < MaxAgents, Ready # {},
               fib' = [fib EXCEPT ![f].pc = "create",
                         ![f].hold = [i \in DOMAIN q |-> Ref(q[i])]]
        PROVE  TInv'
    <2> DEFINE h == [i \in DOMAIN q |-> Ref(q[i])]
    <2>1. h \in Seq(Entry) /\ h # <<>>
      BY <1>3, StartListType
    <2> HIDE DEF h
    <2>2. fib' = [fib EXCEPT ![f] = [fib[f] EXCEPT !.pc = "create", !.hold = h]]
      BY <1>3 DEF TypeOK, FiberRec, h
    <2>3. ProcTypes
      BY ZenonT(40), <2>1, <2>2
      DEF ProcTypes, StartReadySteps, TypeOK, FiberRec, PC, HoldOK
    <2> QED BY <2>3, Combine DEF StartReadySteps, TypeOK
  <1>4. /\ IsFiniteSet(Occupied)
        /\ Cardinality(Occupied) \in Nat
    <2>1. Occupied \subseteq Step
      BY DEF Occupied
    <2> QED BY <2>1, PlanAssumption, FS_Subset, FS_CardinalityType
  <1>5. Cardinality(Occupied) >= MaxAgents \/ Cardinality(Occupied) < MaxAgents
    BY <1>4, ConfigAssumption
  <1> QED BY <1>2, <1>3, <1>5 DEF StartReadySteps

(* Where startReadySteps() goes on: with the next step, if there is one.   *)
LEMMA StartNextType ==
  ASSUME TInv, NEW f \in Fiber, fib[f].hold # <<>>
  PROVE  /\ StartNext(f) \in PC /\ StartNext(f) # "quick"
         /\ (StartNext(f) \in HoldPC => Len(fib[f].hold) > 1)
  <1> DEFINE n == Len(fib[f].hold)
  <1>1. n \in Nat /\ n # 0
    <2>1. fib[f].hold \in Seq(Entry)
      BY DEF TInv, TypeOK, FiberRec
    <2> QED BY <2>1
  <1>2. /\ AfterStart(f) \in PC
        /\ AfterStart(f) \notin HoldPC \cup {"quick"}
        /\ "create" \in PC
    BY DEF AfterStart, PC, HoldPC
  <1>3. StartNext(f) = IF n = 1 THEN AfterStart(f) ELSE "create"
    BY DEF StartNext
  <1> HIDE DEF n
  <1>4. n = 1 \/ n > 1
    BY <1>1
  <1>5. CASE n = 1
    BY <1>2, <1>3, <1>5
  <1>6. CASE n > 1
    <2>1. n # 1
      BY <1>6
    <2> QED BY <1>2, <1>3, <1>6, <2>1 DEF n
  <1> QED BY <1>4, <1>5, <1>6 DEF n

(* The actions of recomputeAndContinue() that assign to a step's object.   *)
LEMMA StartStepType ==
  ASSUME TInv, NEW f \in Fiber,
         \/ CreateWorktree(f) \/ InstallDone(f)
         \/ (\E s \in Session : SpawnAgent(f, s)) \/ SpawnFails(f)
  PROVE  TInv'
  <1> USE DEF TInv
  <1>1. fib[f].hold # <<>>
    BY DEF CreateWorktree, InstallDone, SpawnAgent, SpawnFails, HoldOK, HoldPC, At
  <1>2. Cur(f) \in Entry /\ Cur(f).t \in Step /\ Obj(f) \in StepObj
    BY <1>1, CurType DEF Entry
  <1>3. git \in [Step -> GitRec]
    BY DEF TypeOK
  <1>4. CASE CreateWorktree(f)
    <2>1. ProcTypes
      <3>1. CASE Goto(f, "spawn") /\ UNCHANGED step
        BY <1>1, <3>1, GotoType DEF PC
      <3>2. CASE Goto(f, "install") /\ UNCHANGED step
        BY <1>1, <3>2, GotoType DEF PC
      <3>3. CASE BecomeAndDrop(f, [Obj(f) EXCEPT !.status = "failed"], StartNext(f))
        <4>1. [Obj(f) EXCEPT !.status = "failed"] \in StepObj
          BY <1>2 DEF StepObj, Status
        <4> QED BY <1>1, <3>3, <4>1, BecomeAndDropType, StartNextType
      <3> QED BY <1>4, <3>1, <3>2, <3>3 DEF CreateWorktree
    <2>2. git' \in [Step -> GitRec]
      <3> DEFINE t == Cur(f).t
                 behind == git[t].ahead /\ git[t].behind
                 checked == git[t].ahead /\ git[t].checked
                 r == [git[t] EXCEPT !.dir = TRUE, !.lock = "none",
                         !.behind = behind, !.checked = checked]
      <3>1. behind \in BOOLEAN /\ checked \in BOOLEAN
        OBVIOUS
      <3>2. UNCHANGED git \/ git' = [git EXCEPT ![t] = r]
        BY <1>4 DEF CreateWorktree
      <3> HIDE DEF behind, checked
      <3>3. r \in GitRec
        BY ZenonT(40), <1>2, <1>3, <3>1 DEF GitRec
      <3> QED BY <1>3, <3>2, <3>3
    <2> QED BY <1>4, <2>1, <2>2, Combine DEF CreateWorktree, TypeOK
  <1>5. CASE InstallDone(f)
    <2>1. [Obj(f) EXCEPT !.tree = TRUE] \in StepObj
      BY <1>2 DEF StepObj
    <2>2. ProcTypes
      BY <1>1, <1>5, <2>1, BecomeType DEF InstallDone, PC
    <2>3. git' \in [Step -> GitRec]
      <3> DEFINE t == Cur(f).t
                 r == [git[t] EXCEPT !.tracked = TRUE,
                         !.lock = IF git[t].dir THEN "executor" ELSE @]
      <3>1. r \in GitRec
        BY ZenonT(40), <1>2, <1>3 DEF GitRec
      <3>2. git' = [git EXCEPT ![t] = r]
        BY <1>2, <1>3, <1>5 DEF InstallDone, GitRec
      <3> QED BY <1>3, <3>1, <3>2
    <2> QED BY <1>5, <2>2, <2>3, Combine DEF InstallDone, TypeOK
  <1>6. ASSUME NEW s \in Session, SpawnAgent(f, s)
        PROVE  TInv'
    <2>1. [Obj(f) EXCEPT !.status = "in-progress", !.session = s] \in StepObj
      BY <1>2 DEF StepObj, Status
    <2>2. ProcTypes
      BY <1>1, <1>6, <2>1, BecomeAndDropType, StartNextType DEF SpawnAgent
    <2>3. git' \in [Step -> GitRec]
      <3> DEFINE t == Cur(f).t
                 r == [git[t] EXCEPT !.lock =
                         IF git[t].tracked /\ git[t].dir THEN s ELSE @]
      <3>1. git' = [git EXCEPT ![t] = r]
        BY <1>2, <1>3, <1>6 DEF SpawnAgent, GitRec
      <3>2. r \in GitRec
        BY <1>2, <1>3 DEF GitRec
      <3> QED BY <1>3, <3>1, <3>2
    <2>4. sess' \in [Session -> SessRec] /\ mapped' \subseteq Session
      BY <1>2, <1>6 DEF SpawnAgent, TypeOK, SessRec
    <2> QED BY <1>6, <2>2, <2>3, <2>4, Combine DEF SpawnAgent, TypeOK
  <1>7. CASE SpawnFails(f)
    <2>1. [Obj(f) EXCEPT !.status = "failed"] \in StepObj
      BY <1>2 DEF StepObj, Status
    <2>2. ProcTypes
      BY <1>1, <1>7, <2>1, BecomeAndDropType, StartNextType DEF SpawnFails
    <2> QED BY <1>7, <2>2, Combine DEF SpawnFails, TypeOK
  <1> QED BY <1>4, <1>5, <1>6, <1>7

(* A worker is gone, or has nothing left in its hands.                     *)
LEMMA IdleType ==
  ASSUME TInv, NEW f \in Fiber, NEW p \in PC \ (HoldPC \cup {"quick"}),
         fib' = [fib EXCEPT ![f] = [IdleFiber EXCEPT !.pc = p]], UNCHANGED step
  PROVE  ProcTypes
  <1>1. [pc |-> p, hold |-> <<>>, sid |-> NoSession, quick |-> 0] \in FiberRec
    <2>1. <<>> \in Seq(Entry)
      OBVIOUS
    <2> QED BY <2>1 DEF FiberRec
  <1> QED BY <1>1 DEF ProcTypes, TInv, TypeOK, HoldOK, IdleFiber, FiberRec

LEMMA EventType ==
  ASSUME TInv, NEW y \in {"agent_completed", "pause", "resume", "skip", "retry",
                          "verification_done", "stall_check"},
         NEW t \in Step, NEW s \in Session \cup {NoSession}
  PROVE  Append(queue, [type |-> y, t |-> t, sid |-> s]) \in Seq(Event)
  BY DEF TInv, TypeOK, Event

(* The end of recomputeAndContinue().                                      *)
LEMMA EndType ==
  ASSUME TInv, NEW f \in Fiber,
         TestComplete(f) \/ SmokeTestDone(f) \/ FinishPlan(f) \/ EndRecompute(f)
  PROVE  TInv'
  <1> USE DEF TInv
  <1>1. CASE TestComplete(f)
    <2>1. ProcTypes
      BY <1>1, GotoType DEF TestComplete, PC, HoldPC
    <2> QED BY <1>1, <2>1, Combine DEF TestComplete, TypeOK
  <1>2. CASE SmokeTestDone(f)
    <2>1. ProcTypes
      BY <1>2, GotoType DEF SmokeTestDone, PC, HoldPC
    <2> QED BY <1>2, <2>1, Combine DEF SmokeTestDone, TypeOK
  <1>3. CASE FinishPlan(f)
    <2>1. ProcTypes
      BY <1>3, GotoType DEF FinishPlan, PC, HoldPC
    <2> QED BY <1>3, <2>1, Combine DEF FinishPlan, TypeOK
  <1>4. CASE EndRecompute(f)
    <2>1. CASE f = Loop
      <3>1. ProcTypes
        BY <1>4, <2>1, GotoType DEF EndRecompute, PC, HoldPC
      <3> QED BY <1>4, <2>1, <3>1, Combine DEF EndRecompute, TypeOK
    <2>2. CASE f # Loop
      <3>1. fib' = [fib EXCEPT ![f] = [IdleFiber EXCEPT !.pc = "idle"]]
        BY <1>4, <2>2 DEF EndRecompute, IdleFiber
      <3>2. ProcTypes
        BY <1>4, <3>1, IdleType DEF EndRecompute, PC, HoldPC
      <3>3. queue' \in Seq(Event)
        BY <1>4, <2>2, EventType, FirstStep DEF EndRecompute
      <3> QED BY <1>4, <3>2, <3>3, Combine DEF EndRecompute, TypeOK
    <2> QED BY <2>1, <2>2
  <1> QED BY <1>1, <1>2, <1>3, <1>4

LEMMA RecomputeStepType ==
  ASSUME TInv, NEW f \in Fiber, RecomputeStep(f)
  PROVE  TInv'
  BY RecomputeType, StartReadyStepsType, StartStepType, EndType DEF RecomputeStep

-----------------------------------------------------------------------------
(* The objects that a completion handler assigns.                          *)
LEMMA ObjectTypes ==
  ASSUME NEW o \in StepObj
  PROVE  /\ \A st \in Status : [o EXCEPT !.status = st] \in StepObj
         /\ [o EXCEPT !.tree = FALSE] \in StepObj
         /\ Reset(o) \in StepObj
         /\ [Reset(o) EXCEPT !.conflict = TRUE] \in StepObj
         /\ [Reset(o) EXCEPT !.attempt = @ + 1] \in StepObj
         /\ [Reset(o) EXCEPT !.attempt = 1, !.rebases = 0] \in StepObj
         /\ (MoreRebases(o) => [o EXCEPT !.rebases = @ + 1] \in StepObj)
  <1>1. \A st \in Status : [o EXCEPT !.status = st] \in StepObj
    BY DEF StepObj
  <1>2. [o EXCEPT !.tree = FALSE] \in StepObj
    BY DEF StepObj
  <1>3. Reset(o) \in StepObj
    BY DEF Reset, StepObj, Status
  <1>4. /\ [Reset(o) EXCEPT !.conflict = TRUE] \in StepObj
        /\ [Reset(o) EXCEPT !.attempt = @ + 1] \in StepObj
        /\ [Reset(o) EXCEPT !.attempt = 1, !.rebases = 0] \in StepObj
    <2> DEFINE r == Reset(o)
    <2>1. r \in StepObj
      BY <1>3
    <2> HIDE DEF r
    <2>2. [r EXCEPT !.conflict = TRUE] \in StepObj
      BY <2>1 DEF StepObj
    <2>3. [r EXCEPT !.attempt = @ + 1] \in StepObj
      BY <2>1 DEF StepObj
    <2>4. [r EXCEPT !.attempt = 1, !.rebases = 0] \in StepObj
      <3> DEFINE r1 == [r EXCEPT !.attempt = 1]
      <3>1. r1 \in StepObj
        BY <2>1 DEF StepObj
      <3>2. [r EXCEPT !.attempt = 1, !.rebases = 0] = [r1 EXCEPT !.rebases = 0]
        BY <2>1 DEF StepObj
      <3> HIDE DEF r1
      <3>3. [r1 EXCEPT !.rebases = 0] \in StepObj
        BY <3>1 DEF StepObj
      <3> QED BY <3>2, <3>3
    <2> QED BY <2>2, <2>3, <2>4 DEF r
  <1>5. ASSUME MoreRebases(o) PROVE [o EXCEPT !.rebases = @ + 1] \in StepObj
    BY <1>5 DEF MoreRebases, StepObj
  <1> QED BY <1>1, <1>2, <1>3, <1>4, <1>5

LEMMA GitTypes ==
  ASSUME TypeOK, NEW t \in Step
  PROVE  /\ Landed(t) \in [Step -> GitRec]
         /\ Discarded(t) \in [Step -> GitRec]
         /\ [git EXCEPT ![t].checked = TRUE] \in [Step -> GitRec]
         /\ [git EXCEPT ![t].checked = FALSE] \in [Step -> GitRec]
         /\ [git EXCEPT ![t].behind = FALSE, ![t].checked = TRUE]
               \in [Step -> GitRec]
         /\ [git EXCEPT ![t].behind = FALSE, ![t].checked = FALSE]
               \in [Step -> GitRec]
  <1>1. git \in [Step -> GitRec]
    BY DEF TypeOK
  <1>2. Landed(t) \in [Step -> GitRec]
    <2> DEFINE landed == git[t].landed \/ git[t].ahead
               behind(u) == git[u].behind \/ (git[u].dir /\ git[t].ahead)
    <2>1. landed \in BOOLEAN /\ \A u \in Step : behind(u) \in BOOLEAN
      OBVIOUS
    <2>2. Landed(t) = [u \in Step |->
            IF u = t THEN [git[t] EXCEPT !.ahead = FALSE, !.behind = FALSE,
                                         !.landed = landed]
            ELSE [git[u] EXCEPT !.behind = behind(u)]]
      BY <1>1 DEF Landed, GitRec
    <2> HIDE DEF landed, behind
    <2>3. [git[t] EXCEPT !.ahead = FALSE, !.behind = FALSE, !.landed = landed]
            \in GitRec
      BY <1>1, <2>1 DEF GitRec
    <2>4. \A u \in Step : [git[u] EXCEPT !.behind = behind(u)] \in GitRec
      BY <1>1, <2>1 DEF GitRec
    <2> QED BY <2>2, <2>3, <2>4
  <1>3. Discarded(t) \in [Step -> GitRec]
    <2>1. [NoTree EXCEPT !.landed = git[t].landed] \in GitRec
      BY <1>1 DEF NoTree, GitRec
    <2> QED BY <1>1, <2>1 DEF Discarded
  <1>4. /\ [git EXCEPT ![t].checked = TRUE] \in [Step -> GitRec]
        /\ [git EXCEPT ![t].checked = FALSE] \in [Step -> GitRec]
    BY <1>1 DEF GitRec
  <1>5. /\ [git EXCEPT ![t].behind = FALSE, ![t].checked = TRUE]
              \in [Step -> GitRec]
        /\ [git EXCEPT ![t].behind = FALSE, ![t].checked = FALSE]
              \in [Step -> GitRec]
    BY <1>1 DEF GitRec
  <1> QED BY <1>2, <1>3, <1>4, <1>5

(* Every action of a handler but the last two uses the object it holds.    *)
LEMMA HandlerHolds ==
  ASSUME TInv, NEW w \in Fiber,
         \/ At(w, "work") \/ At(w, "arbitrate") \/ At(w, "verify")
         \/ At(w, "merge") \/ At(w, "rebase") \/ At(w, "reverify")
         \/ At(w, "remerge") \/ At(w, "quick") \/ At(w, "discard")
         \/ At(w, "removing")
  PROVE  /\ fib[w].hold # <<>>
         /\ Cur(w).t \in Step
         /\ Obj(w) \in StepObj
  <1>1. fib[w].hold # <<>>
    BY DEF TInv, HoldOK, HoldPC, At
  <1> QED BY <1>1, CurType DEF Entry

(* CheckWork, Arbitrate, DiscardEmpty and PauseAfterFailure.               *)
LEMMA FirstHalfType ==
  ASSUME TInv, NEW w \in Fiber,
         \/ CheckWork(w) \/ Arbitrate(w) \/ DiscardEmpty(w) \/ PauseAfterFailure(w)
  PROVE  TInv'
  <1> USE DEF TInv
  <1>1. CASE CheckWork(w)
    <2>1. fib[w].hold # <<>> /\ Cur(w).t \in Step /\ Obj(w) \in StepObj
      BY <1>1, HandlerHolds DEF CheckWork
    <2>2. /\ [Obj(w) EXCEPT !.status = "verifying"] \in StepObj
          /\ [Obj(w) EXCEPT !.status = "failed"] \in StepObj
      BY <2>1, ObjectTypes DEF Status
    <2>3. ProcTypes
      BY <1>1, <2>1, <2>2, BecomeType DEF CheckWork, PC
    <2>4. git' \in [Step -> GitRec]
      <3>1. UNCHANGED git \/ git' = [git EXCEPT ![Cur(w).t].checked = TRUE]
        BY <1>1 DEF CheckWork
      <3>2. [git EXCEPT ![Cur(w).t].checked = TRUE] \in [Step -> GitRec]
        BY <2>1, GitTypes
      <3> QED BY <3>1, <3>2 DEF TypeOK
    <2> QED BY <1>1, <2>3, <2>4, Combine DEF CheckWork, TypeOK
  <1>2. CASE Arbitrate(w)
    <2>1. fib[w].hold # <<>> /\ Obj(w) \in StepObj
      BY <1>2, HandlerHolds DEF Arbitrate
    <2>2. /\ [Obj(w) EXCEPT !.status = "done"] \in StepObj
          /\ [Obj(w) EXCEPT !.status = "failed"] \in StepObj
      BY <2>1, ObjectTypes DEF Status
    <2>3. ProcTypes
      BY <1>2, <2>1, <2>2, BecomeType DEF Arbitrate, PC
    <2> QED BY <1>2, <2>3, Combine DEF Arbitrate, TypeOK
  <1>3. CASE DiscardEmpty(w)
    <2>1. fib[w].hold # <<>> /\ Cur(w).t \in Step /\ Obj(w) \in StepObj
      BY <1>3, HandlerHolds DEF DiscardEmpty
    <2>2. [Obj(w) EXCEPT !.tree = FALSE] \in StepObj
      BY <2>1, ObjectTypes
    <2>3. ProcTypes
      BY <1>3, <2>1, <2>2, BecomeAndDropType DEF DiscardEmpty, PC, HoldPC
    <2>4. git' \in [Step -> GitRec]
      <3>1. Discarded(Cur(w).t) \in [Step -> GitRec]
        BY <2>1, GitTypes
      <3> QED BY <1>3, <3>1 DEF DiscardEmpty, TypeOK
    <2> QED BY <1>3, <2>3, <2>4, Combine DEF DiscardEmpty, TypeOK
  <1>4. CASE PauseAfterFailure(w)
    <2>1. ProcTypes
      BY <1>4, GotoType DEF PauseAfterFailure, PC, HoldPC
    <2> QED BY <1>4, <2>1, Combine DEF PauseAfterFailure, TypeOK
  <1> QED BY <1>1, <1>2, <1>3, <1>4

LEMMA RetryOrFailType ==
  ASSUME TInv, NEW w \in Fiber, RetryOrFail(w), At(w, "verify") \/ At(w, "reverify")
  PROVE  TInv'
  <1> USE DEF TInv
  <1>1. fib[w].hold # <<>> /\ Cur(w).t \in Step /\ Obj(w) \in StepObj
    BY HandlerHolds
  <1>2. /\ [Reset(Obj(w)) EXCEPT !.attempt = @ + 1] \in StepObj
        /\ [Obj(w) EXCEPT !.status = "failed"] \in StepObj
    BY <1>1, ObjectTypes DEF Status
  <1>3. ProcTypes
    BY <1>1, <1>2, BecomeAndDropType DEF RetryOrFail, PC, HoldPC
  <1>4. git' \in [Step -> GitRec]
    <2>1. git' = [git EXCEPT ![Cur(w).t].checked = FALSE]
      BY DEF RetryOrFail
    <2> QED BY <1>1, <2>1, GitTypes
  <1> QED BY <1>3, <1>4, Combine DEF RetryOrFail, TypeOK

LEMMA MergeSucceedsType ==
  ASSUME TInv, NEW w \in Fiber, MergeSucceeds(w), At(w, "merge") \/ At(w, "remerge")
  PROVE  ProcTypes /\ git' \in [Step -> GitRec]
  <1> USE DEF TInv
  <1>1. fib[w].hold # <<>> /\ Cur(w).t \in Step /\ Obj(w) \in StepObj
    BY HandlerHolds
  <1>2. [Obj(w) EXCEPT !.status = "done"] \in StepObj
    BY <1>1, ObjectTypes DEF Status
  <1>3. ProcTypes
    BY <1>1, <1>2, BecomeType DEF MergeSucceeds, PC
  <1> QED BY <1>1, <1>3, GitTypes DEF MergeSucceeds

LEMMA NextRebaseType ==
  ASSUME TInv, NEW w \in Fiber, NextRebase(w),
         At(w, "merge") \/ At(w, "rebase") \/ At(w, "remerge") \/ At(w, "quick")
  PROVE  ProcTypes /\ planStatus' \in {"executing", "paused", "done"}
  <1>1. fib[w].hold # <<>> /\ Obj(w) \in StepObj
    BY HandlerHolds
  <1>2. CASE MoreRebases(Obj(w))
    <2>1. [Obj(w) EXCEPT !.rebases = @ + 1] \in StepObj
      BY <1>1, <1>2, ObjectTypes
    <2> QED BY <1>1, <1>2, <2>1, BecomeType DEF NextRebase, PC, TInv, TypeOK
  <1>3. CASE ~MoreRebases(Obj(w))
    <2>1. [Obj(w) EXCEPT !.status = "needs-rebase"] \in StepObj
      BY <1>1, ObjectTypes DEF Status
    <2>2. ProcTypes
      BY <1>1, <1>3, <2>1, BecomeAndDropType DEF NextRebase, NeedsRebase, PC, HoldPC
    <2> QED BY <1>3, <2>2 DEF NextRebase, NeedsRebase, TInv, TypeOK
  <1> QED BY <1>2, <1>3

(* Merge, Rebase, Remerge and QuickRebase.                                 *)
LEMMA MergeType ==
  ASSUME TInv, NEW w \in Fiber, Merge(w)
  PROVE  TInv'
  <1> USE DEF TInv
  <1>1. At(w, "merge")
    BY DEF Merge
  <1>2. CASE MergeSucceeds(w)
    <2>1. UNCHANGED planStatus
      BY <1>2 DEF MergeSucceeds
    <2> QED BY <1>1, <1>2, <2>1, MergeSucceedsType, Combine DEF Merge, TypeOK
  <1>3. CASE NextRebase(w) /\ UNCHANGED git
    BY <1>1, <1>3, NextRebaseType, Combine DEF Merge, TypeOK
  <1>4. CASE NeedsRebase(w) /\ UNCHANGED git
    <2>1. fib[w].hold # <<>> /\ Obj(w) \in StepObj
      BY <1>1, HandlerHolds
    <2>2. [Obj(w) EXCEPT !.status = "needs-rebase"] \in StepObj
      BY <2>1, ObjectTypes DEF Status
    <2>3. ProcTypes
      BY <1>4, <2>1, <2>2, BecomeAndDropType DEF NeedsRebase, PC, HoldPC
    <2>4. planStatus' \in {"executing", "paused", "done"}
      BY <1>4 DEF NeedsRebase, TypeOK
    <2> QED BY <1>4, <2>3, <2>4, Combine DEF Merge, TypeOK
  <1> QED BY <1>2, <1>3, <1>4 DEF Merge

LEMMA RebaseType ==
  ASSUME TInv, NEW w \in Fiber, Rebase(w)
  PROVE  TInv'
  <1> USE DEF TInv
  <1>1. At(w, "rebase")
    BY DEF Rebase
  <1>2. fib[w].hold # <<>> /\ Cur(w).t \in Step /\ Obj(w) \in StepObj
    BY <1>1, HandlerHolds
  <1>3. CASE CleanRebase(w)
    <2>1. [Obj(w) EXCEPT !.status = "verifying"] \in StepObj
      BY <1>2, ObjectTypes DEF Status
    <2>2. ProcTypes
      BY <1>2, <1>3, <2>1, BecomeType DEF CleanRebase, PC
    <2>3. git' \in [Step -> GitRec] /\ UNCHANGED planStatus
      <3>1. git' = [git EXCEPT ![Cur(w).t].behind = FALSE, ![Cur(w).t].checked = TRUE]
        BY <1>3 DEF CleanRebase
      <3>2. [git EXCEPT ![Cur(w).t].behind = FALSE, ![Cur(w).t].checked = TRUE]
              \in [Step -> GitRec]
        BY <1>2, GitTypes
      <3> QED BY <1>3, <3>1, <3>2 DEF CleanRebase
    <2> QED BY <2>2, <2>3, Combine DEF Rebase, TypeOK
  <1>4. CASE /\ BecomeAndDrop(w, [Reset(Obj(w)) EXCEPT !.conflict = TRUE], "fin")
             /\ UNCHANGED <<planStatus, git>>
    <2>1. [Reset(Obj(w)) EXCEPT !.conflict = TRUE] \in StepObj
      BY <1>2, ObjectTypes
    <2>2. ProcTypes
      BY <1>2, <1>4, <2>1, BecomeAndDropType DEF PC, HoldPC
    <2> QED BY <1>4, <2>2, Combine DEF Rebase, TypeOK
  <1>5. CASE NextRebase(w) /\ UNCHANGED git
    BY <1>1, <1>5, NextRebaseType, Combine DEF Rebase, TypeOK
  <1> QED BY <1>3, <1>4, <1>5 DEF Rebase

LEMMA RemergeType ==
  ASSUME TInv, NEW w \in Fiber, Remerge(w)
  PROVE  TInv'
  <1> USE DEF TInv
  <1>1. At(w, "remerge")
    BY DEF Remerge
  <1>2. CASE MergeSucceeds(w)
    <2>1. UNCHANGED planStatus
      BY <1>2 DEF MergeSucceeds
    <2> QED BY <1>1, <1>2, <2>1, MergeSucceedsType, Combine DEF Remerge, TypeOK
  <1>3. CASE NextRebase(w) /\ UNCHANGED git
    BY <1>1, <1>3, NextRebaseType, Combine DEF Remerge, TypeOK
  <1>4. CASE /\ fib[w].quick < 3 /\ Goto(w, "quick")
             /\ UNCHANGED <<step, git, planStatus>>
    <2>1. fib[w].hold # <<>>
      BY <1>1, HandlerHolds
    <2>2. ProcTypes
      BY <1>4, <2>1, GotoType DEF PC
    <2> QED BY <1>4, <2>2, Combine DEF Remerge, TypeOK
  <1> QED BY <1>2, <1>3, <1>4 DEF Remerge

(* A new round of merging begins: the quick rebases are counted.           *)
LEMMA RoundType ==
  ASSUME TInv, NEW w \in Fiber, NEW n \in 0..3, fib[w].hold # <<>>, UNCHANGED step,
         fib' = [fib EXCEPT ![w] = [fib[w] EXCEPT !.pc = "remerge", !.quick = n]]
  PROVE  ProcTypes
  <1> DEFINE r == [fib[w] EXCEPT !.pc = "remerge", !.quick = n]
  <1>1. /\ r \in FiberRec
        /\ r.hold # <<>>
        /\ r.pc = "remerge"
    BY DEF TInv, TypeOK, FiberRec, PC
  <1> HIDE DEF r
  <1>2. fib' = [fib EXCEPT ![w] = r]
    BY DEF r
  <1>3. fib' \in [Fiber -> FiberRec] /\ HoldOK'
    BY <1>1, <1>2 DEF TInv, TypeOK, HoldOK
  <1> QED BY <1>3 DEF ProcTypes, TInv, TypeOK

LEMMA QuickRebaseType ==
  ASSUME TInv, NEW w \in Fiber, QuickRebase(w)
  PROVE  TInv'
  <1> USE DEF TInv
  <1>1. At(w, "quick")
    BY DEF QuickRebase
  <1>2. fib[w].hold # <<>> /\ Cur(w).t \in Step
    BY <1>1, HandlerHolds
  <1>3. CASE /\ git' = [git EXCEPT ![Cur(w).t].behind = FALSE,
                                   ![Cur(w).t].checked = FALSE]
             /\ fib' = [fib EXCEPT ![w].pc = "remerge", ![w].quick = @ + 1]
             /\ UNCHANGED <<step, planStatus>>
    <2>1. fib[w].quick + 1 \in 0..3
      BY <1>1 DEF At, HoldOK, TypeOK, FiberRec
    <2>2. fib' = [fib EXCEPT ![w] =
                    [fib[w] EXCEPT !.pc = "remerge", !.quick = fib[w].quick + 1]]
      BY <1>3 DEF TypeOK, FiberRec
    <2>3. ProcTypes
      BY <1>2, <1>3, <2>1, <2>2, RoundType
    <2>4. git' \in [Step -> GitRec]
      BY <1>2, <1>3, GitTypes
    <2> QED BY <1>3, <2>3, <2>4, Combine DEF QuickRebase, TypeOK
  <1>4. CASE NextRebase(w) /\ UNCHANGED git
    BY <1>1, <1>4, NextRebaseType, Combine DEF QuickRebase, TypeOK
  <1> QED BY <1>3, <1>4 DEF QuickRebase

(* Verify and Reverify.                                                    *)
LEMMA VerifyType ==
  ASSUME TInv, NEW w \in Fiber, Verify(w) \/ Reverify(w)
  PROVE  TInv'
  <1> USE DEF TInv
  <1>1. At(w, "verify") \/ At(w, "reverify")
    BY DEF Verify, Reverify
  <1>2. fib[w].hold # <<>>
    BY <1>1, HandlerHolds
  <1>3. CASE RetryOrFail(w)
    BY <1>1, <1>3, RetryOrFailType
  <1>4. CASE Goto(w, "merge") /\ Verify(w) /\ ~RetryOrFail(w)
    <2>1. UNCHANGED step
      BY <1>4 DEF Verify
    <2>2. ProcTypes
      BY <1>2, <1>4, <2>1, GotoType DEF PC
    <2> QED BY <1>4, <2>2, Combine DEF Verify, TypeOK
  <1>5. CASE Reverify(w) /\ ~RetryOrFail(w)
    <2>1. /\ fib' = [fib EXCEPT ![w].pc = "remerge", ![w].quick = 0]
          /\ UNCHANGED step
      BY <1>5 DEF Reverify
    <2>2. fib' = [fib EXCEPT ![w] = [fib[w] EXCEPT !.pc = "remerge", !.quick = 0]]
      BY <2>1 DEF TypeOK, FiberRec
    <2>3. ProcTypes
      <3>1. 0 \in 0..3
        OBVIOUS
      <3> QED BY <1>2, <2>1, <2>2, <3>1, RoundType
    <2> QED BY <1>5, <2>3, Combine DEF Reverify, TypeOK
  <1> QED BY <1>3, <1>4, <1>5 DEF Verify

LEMMA RemoveWorktreeType ==
  ASSUME TInv, NEW f \in Fiber, RemoveWorktree(f)
  PROVE  TInv'
  <1> USE DEF TInv
  <1>1. fib[f].hold # <<>> /\ Cur(f).t \in Step /\ Obj(f) \in StepObj
    BY HandlerHolds DEF RemoveWorktree
  <1>2. [Obj(f) EXCEPT !.tree = FALSE] \in StepObj
    BY <1>1, ObjectTypes
  <1>3. ProcTypes
    BY <1>1, <1>2, BecomeAndDropType DEF RemoveWorktree, PC, HoldPC
  <1>4. git' \in [Step -> GitRec]
    BY <1>1, GitTypes DEF RemoveWorktree
  <1>5. closed' \subseteq Step
    BY <1>1 DEF RemoveWorktree, TypeOK
  <1> QED BY <1>3, <1>4, <1>5, Combine DEF RemoveWorktree, TypeOK

LEMMA VerificationOverType ==
  ASSUME TInv, NEW w \in Fiber, VerificationOver(w)
  PROVE  TInv'
  <1> USE DEF TInv
  <1>1. ProcTypes
    BY IdleType DEF VerificationOver, PC, HoldPC
  <1>2. active' \in Int
    BY DEF VerificationOver, TypeOK
  <1> QED BY <1>1, <1>2, Combine DEF VerificationOver, TypeOK

LEMMA WorkerStepType ==
  ASSUME TInv, NEW w \in Fiber, WorkerStep(w)
  PROVE  TInv'
  BY FirstHalfType, VerifyType, MergeType, RebaseType, RemergeType,
     QuickRebaseType, RemoveWorktreeType, VerificationOverType DEF WorkerStep

-----------------------------------------------------------------------------
(* The event loop.                                                         *)
LEMMA LoopIsFiber == Loop \in Fiber /\ Worker \subseteq Fiber /\ Loop \notin Worker
  BY ModelAssumption DEF Fiber

LEMMA TakeType ==
  ASSUME TypeOK, NEW y, Take(y)
  PROVE  /\ Head(queue) \in Event
         /\ queue' \in Seq(Event)
         /\ booted' \in BOOLEAN
  BY DEF TypeOK, Take

LEMMA UnlockedType ==
  ASSUME TypeOK, NEW T
  PROVE  Unlocked(T) \in [Step -> GitRec]
  <1>1. \A t \in Step : [git[t] EXCEPT !.lock = "none"] \in GitRec
    BY DEF TypeOK, GitRec
  <1> QED BY <1>1 DEF Unlocked, TypeOK

LEMMA NewWorkerType ==
  ASSUME NEW t \in Step, NEW s \in Session \cup {NoSession}
  PROVE  /\ NewWorker(t, s) \in FiberRec
         /\ NewWorker(t, s).hold # <<>>
         /\ NewWorker(t, s).pc = "work"
  <1>1. Ref(t) \in Entry
    BY RefType
  <1>2. <<Ref(t)>> \in Seq(Entry) /\ <<Ref(t)>> # <<>>
    BY <1>1
  <1> QED BY <1>2 DEF NewWorker, FiberRec, PC

(* LoopWaits, LoopExits, HandleDone, HandleStall, HandleRetry.             *)
LEMMA SimpleLoopType ==
  ASSUME TInv, LoopWaits \/ LoopExits \/ HandleDone \/ HandleStall \/ HandleRetry
  PROVE  TInv'
  <1> USE DEF TInv
  <1>1. CASE LoopWaits
    <2>1. ProcTypes
      BY <1>1, GotoType, LoopIsFiber DEF LoopWaits, PC, HoldPC
    <2> QED BY <1>1, <2>1, Combine DEF LoopWaits, TypeOK
  <1>2. CASE LoopExits
    <2>1. ProcTypes
      BY <1>2, GotoType, LoopIsFiber DEF LoopExits, PC, HoldPC
    <2> QED BY <1>2, <2>1, Combine DEF LoopExits, TypeOK
  <1>3. CASE HandleDone
    <2>1. ProcTypes
      BY <1>3, GotoType, LoopIsFiber DEF HandleDone, PC, HoldPC
    <2> QED BY <1>3, <2>1, TakeType, Combine DEF HandleDone, TypeOK
  <1>4. CASE HandleRetry
    <2>1. step' \in [Step -> StepObj]
      <3>1. Head(queue).t \in Step
        BY <1>4, TakeType DEF HandleRetry, Event
      <3>2. [Reset(step[Head(queue).t]) EXCEPT !.attempt = 1, !.rebases = 0]
              \in StepObj
        <4>1. step[Head(queue).t] \in StepObj
          BY <3>1 DEF TypeOK
        <4> QED BY <4>1, ObjectTypes
      <3>3. \/ UNCHANGED step
            \/ step' = [step EXCEPT ![Head(queue).t] =
                 [Reset(step[Head(queue).t]) EXCEPT !.attempt = 1, !.rebases = 0]]
        BY <1>4 DEF HandleRetry
      <3> QED BY <3>1, <3>2, <3>3 DEF TypeOK
    <2>2. fib' \in [Fiber -> FiberRec] /\ HoldOK'
      <3> DEFINE r == [fib[Loop] EXCEPT !.pc = "load"]
      <3>1. r \in FiberRec /\ r.pc = "load"
        BY ZenonT(40), LoopIsFiber DEF TypeOK, FiberRec, PC
      <3>2. fib' = [fib EXCEPT ![Loop] = r]
        BY <1>4 DEF HandleRetry, Goto
      <3> HIDE DEF r
      <3> QED BY <3>1, <3>2, FiberMoves, LoopIsFiber DEF HoldPC
    <2>3. ProcTypes
      BY <2>1, <2>2 DEF ProcTypes
    <2> QED BY <1>4, <2>3, TakeType, Combine DEF HandleRetry, TypeOK
  <1>5. CASE HandleStall
    <2>1. ProcTypes
      BY <1>5, GotoType, LoopIsFiber DEF HandleStall, PC, HoldPC
    <2>2. planStatus' \in {"executing", "paused", "done"}
      BY <1>5 DEF HandleStall, TypeOK
    <2> QED BY <1>5, <2>1, <2>2, TakeType, Combine DEF HandleStall, TypeOK
  <1> QED BY <1>1, <1>2, <1>3, <1>4, <1>5

LEMMA HandleCompletedType ==
  ASSUME TInv, NEW w \in Worker, HandleCompleted(w)
  PROVE  TInv'
  <1> USE DEF TInv
  <1> DEFINE e == Head(queue)
  <1>1. e \in Event /\ queue' \in Seq(Event) /\ booted' \in BOOLEAN
    BY TakeType DEF HandleCompleted
  <1>2. e.t \in Step /\ e.sid \in Session \cup {NoSession}
    BY <1>1 DEF Event
  <1> DEFINE r == NewWorker(e.t, e.sid)
  <1>3. r \in FiberRec /\ r.hold # <<>> /\ r.pc = "work"
    BY <1>2, NewWorkerType
  <1>4. fib' = [fib EXCEPT ![w] = r, ![Loop] = [fib[Loop] EXCEPT !.pc = "check"]]
    BY LoopIsFiber DEF HandleCompleted, TypeOK, FiberRec
  <1>5. step' \in [Step -> StepObj]
    <2>1. Launched(step[e.t]) \in StepObj
      BY ZenonT(40), <1>2 DEF Launched, TypeOK, StepObj
    <2> QED BY <1>2, <2>1 DEF HandleCompleted, TypeOK
  <1> HIDE DEF r
  <1>6. ProcTypes
    BY <1>3, <1>4, <1>5, LoopIsFiber
    DEF ProcTypes, TypeOK, FiberRec, PC, HoldOK, HoldPC
  <1>7. git' \in [Step -> GitRec] /\ active' \in Int
    BY UnlockedType DEF HandleCompleted, TypeOK
  <1> QED BY <1>1, <1>6, <1>7, Combine DEF HandleCompleted, TypeOK

LEMMA HandlePauseType ==
  ASSUME TInv, HandlePause
  PROVE  TInv'
  <1> USE DEF TInv
  <1> DEFINE h == [i \in DOMAIN StepSeq |-> Ref(StepSeq[i])]
  <1>1. h \in Seq(Entry) /\ h # <<>>
    <2>1. StepSeq \in Seq(Step) /\ StepSeq # <<>>
      BY PlanAssumption
    <2>2. /\ DOMAIN StepSeq = 1..Len(StepSeq) /\ Len(StepSeq) \in Nat
          /\ Len(StepSeq) # 0
      BY <2>1
    <2>3. \A i \in 1..Len(StepSeq) : Ref(StepSeq[i]) \in Entry
      BY <2>1, <2>2, RefType
    <2>4. h = [i \in 1..Len(StepSeq) |-> Ref(StepSeq[i])]
      BY <2>2
    <2>5. h \in Seq(Entry) /\ Len(h) = Len(StepSeq)
      BY <2>2, <2>3, <2>4
    <2> QED BY <2>2, <2>5
  <1>2. fib' = [fib EXCEPT ![Loop] = [fib[Loop] EXCEPT !.pc = "pausing", !.hold = h]]
    BY DEF HandlePause
  <1> HIDE DEF h
  <1>3. ProcTypes
    <2> DEFINE r == [fib[Loop] EXCEPT !.pc = "pausing", !.hold = h]
    <2>1. r \in FiberRec /\ r.hold # <<>> /\ r.pc = "pausing"
      BY ZenonT(40), <1>1, LoopIsFiber DEF TypeOK, FiberRec, PC
    <2>2. fib' = [fib EXCEPT ![Loop] = r]
      BY <1>2
    <2> HIDE DEF r
    <2>3. fib' \in [Fiber -> FiberRec] /\ HoldOK'
      BY <2>1, <2>2, FiberMoves, LoopIsFiber
    <2> QED BY <2>3 DEF ProcTypes, HandlePause, TypeOK
  <1> QED BY <1>3, TakeType, Combine DEF HandlePause, TypeOK

LEMMA PauseStepType ==
  ASSUME TInv, PauseStep \/ PauseReset
  PROVE  TInv'
  <1> USE DEF TInv
  <1>1. fib[Loop].hold # <<>>
    BY LoopIsFiber DEF PauseStep, PauseReset, At, HoldOK, HoldPC
  <1>2. Cur(Loop) \in Entry /\ Obj(Loop) \in StepObj /\ Cur(Loop).t \in Step
    BY <1>1, CurType, LoopIsFiber DEF Entry
  <1>3. /\ PauseNext \in PC /\ PauseNext # "quick"
        /\ (PauseNext \in HoldPC => Len(fib[Loop].hold) > 1)
    <2> DEFINE n == Len(fib[Loop].hold)
    <2>1. n \in Nat /\ n # 0
      <3>1. fib[Loop].hold \in Seq(Entry)
        BY LoopIsFiber DEF TypeOK, FiberRec
      <3> QED BY <1>1, <3>1
    <2>2. PauseNext = IF n = 1 THEN "check" ELSE "pausing"
      BY DEF PauseNext
    <2>3. /\ "check" \in PC /\ "check" \notin HoldPC /\ "pausing" \in PC
      BY DEF PC, HoldPC
    <2> HIDE DEF n
    <2>4. n = 1 \/ (n > 1 /\ n # 1)
      BY <2>1
    <2>5. n = 1 => PauseNext = "check"
      BY <2>2
    <2>6. n # 1 => PauseNext = "pausing"
      BY <2>2
    <2> QED BY <2>3, <2>4, <2>5, <2>6 DEF n
  <1>4. CASE PauseStep
    <2>1. CASE BecomeAndDrop(Loop, Obj(Loop), PauseNext) /\ UNCHANGED mapped
      <3>1. ProcTypes
        BY <1>1, <1>2, <1>3, <2>1, BecomeAndDropType, LoopIsFiber
      <3> QED BY <1>4, <2>1, <3>1, Combine DEF PauseStep, TypeOK
    <2>2. CASE /\ mapped' = mapped \ {Obj(Loop).session}
               /\ fib' = [fib EXCEPT ![Loop].pc = "killed",
                                     ![Loop].sid = Obj(Loop).session]
               /\ UNCHANGED step
      <3>1. Obj(Loop).session \in Session \cup {NoSession}
        BY <1>2 DEF StepObj
      <3>2. ProcTypes
        <4> DEFINE r == [fib[Loop] EXCEPT !.pc = "killed", !.sid = Obj(Loop).session]
        <4>1. r \in FiberRec /\ r.hold # <<>> /\ r.pc = "killed"
          BY ZenonT(40), <1>1, <3>1, LoopIsFiber DEF TypeOK, FiberRec, PC
        <4>2. fib' = [fib EXCEPT ![Loop] = r]
          BY <2>2, LoopIsFiber DEF TypeOK, FiberRec
        <4> HIDE DEF r
        <4>3. fib' \in [Fiber -> FiberRec] /\ HoldOK'
          BY <4>1, <4>2, FiberMoves, LoopIsFiber
        <4> QED BY <2>2, <4>3 DEF ProcTypes, TypeOK
      <3>3. mapped' \subseteq Session
        BY <2>2 DEF TypeOK
      <3> QED BY <1>4, <3>2, <3>3, Combine DEF PauseStep, TypeOK
    <2> QED BY <1>4, <2>1, <2>2 DEF PauseStep
  <1>5. CASE PauseReset
    <2>1. step' \in [Step -> StepObj]
      <3>1. Reset(Obj(Loop)) \in StepObj
        BY <1>2, ObjectTypes
      <3> QED BY <1>2, <1>5, <3>1 DEF PauseReset, TypeOK
    <2>2. /\ Tail(fib[Loop].hold) \in Seq(Entry)
          /\ (PauseNext \in HoldPC => Tail(fib[Loop].hold) # <<>>)
      <3> DEFINE h == Tail(fib[Loop].hold)
      <3>1. h \in Seq(Entry) /\ Len(h) = Len(fib[Loop].hold) - 1
        BY <1>1, CurType, LoopIsFiber
      <3>2. fib[Loop].hold \in Seq(Entry)
        BY LoopIsFiber DEF TypeOK, FiberRec
      <3>3. ASSUME PauseNext \in HoldPC PROVE Len(h) > 0
        BY <1>3, <3>1, <3>2, <3>3
      <3> QED BY <3>1, <3>3, NonEmpty
    <2> DEFINE r == [fib[Loop] EXCEPT !.pc = PauseNext, !.sid = NoSession,
                                      !.hold = Tail(fib[Loop].hold)]
    <2>3. fib' = [fib EXCEPT ![Loop] = r]
      BY <1>5, LoopIsFiber DEF PauseReset, TypeOK, FiberRec
    <2>4. fib' \in [Fiber -> FiberRec] /\ HoldOK'
      <3>1. /\ r \in FiberRec
            /\ r.pc = PauseNext
            /\ r.hold = Tail(fib[Loop].hold)
        BY <1>3, <2>2, LoopIsFiber DEF TypeOK, FiberRec
      <3> HIDE DEF r
      <3> QED BY <1>3, <2>2, <2>3, <3>1, FiberMoves, LoopIsFiber
    <2>5. sess' \in [Session -> SessRec]
      BY ZenonT(40), <1>5 DEF PauseReset, TypeOK, SessRec
    <2>6. ProcTypes
      BY <2>1, <2>4 DEF ProcTypes
    <2> QED BY <1>5, <2>5, <2>6, Combine DEF PauseReset, TypeOK
  <1> QED BY <1>4, <1>5

LEMMA HandleSkipType ==
  ASSUME TInv, HandleSkip
  PROVE  TInv'
  <1> USE DEF TInv
  <1> DEFINE t == Head(queue).t
  <1>1. t \in Step
    BY TakeType DEF HandleSkip, Event
  <1>2. step' \in [Step -> StepObj]
    BY ZenonT(40), <1>1 DEF HandleSkip, TypeOK, StepObj, Status
  <1>3. fib' \in [Fiber -> FiberRec] /\ HoldOK'
    <2>1. CASE step[t].tree
      <3> DEFINE r == [fib[Loop] EXCEPT !.pc = "removing", !.hold = <<Ref(t)>>]
      <3>1. <<Ref(t)>> \in Seq(Entry) /\ <<Ref(t)>> # <<>>
        BY <1>1, RefType
      <3>2. r \in FiberRec /\ r.hold # <<>> /\ r.pc = "removing"
        BY ZenonT(40), <3>1, LoopIsFiber DEF TypeOK, FiberRec, PC
      <3>3. fib' = [fib EXCEPT ![Loop] = r]
        BY <2>1, LoopIsFiber DEF HandleSkip, TypeOK, FiberRec
      <3> HIDE DEF r
      <3> QED BY <3>2, <3>3, FiberMoves, LoopIsFiber
    <2>2. CASE ~step[t].tree
      <3> DEFINE r == [fib[Loop] EXCEPT !.pc = "load"]
      <3>1. r \in FiberRec /\ r.pc = "load"
        BY ZenonT(40), LoopIsFiber DEF TypeOK, FiberRec, PC
      <3>2. fib' = [fib EXCEPT ![Loop] = r]
        BY <2>2 DEF HandleSkip
      <3> HIDE DEF r
      <3> QED BY <3>1, <3>2, FiberMoves, LoopIsFiber DEF HoldPC
    <2> QED BY <2>1, <2>2
  <1>4. ProcTypes
    BY <1>2, <1>3 DEF ProcTypes
  <1> QED BY <1>4, TakeType, Combine DEF HandleSkip, TypeOK

(* What resume assigns to a step.                                          *)
LEMMA ResumedType ==
  ASSUME TypeOK, NEW t \in Step
  PROVE  Resumed(t) \in StepObj
  <1> DEFINE o == step[t]
  <1>1. o \in StepObj
    BY DEF TypeOK
  <1> DEFINE a == [Launched(o) EXCEPT
                     !.rebases = IF o.status = "needs-rebase" THEN 0 ELSE @]
             b == [Reset(o) EXCEPT !.attempt = @ + 1]
             c == [Reset(o) EXCEPT !.attempt = 1, !.rebases = 0]
  <1>2. a \in StepObj
    <2> DEFINE l == Launched(o)
    <2>1. l \in StepObj
      BY <1>1 DEF Launched, StepObj
    <2> HIDE DEF l
    <2>2. [l EXCEPT !.rebases = IF o.status = "needs-rebase" THEN 0 ELSE @]
            \in StepObj
      BY <2>1 DEF StepObj
    <2> QED BY <2>2 DEF l
  <1>3. b \in StepObj /\ c \in StepObj /\ Reset(o) \in StepObj
    BY <1>1, ObjectTypes
  <1>4. Resumed(t) \in {a, b, c, Reset(o), o}
    BY DEF Resumed
  <1> HIDE DEF a, b, c, o
  <1> QED BY <1>1, <1>2, <1>3, <1>4

LEMMA HandleResumeType ==
  ASSUME TInv, HandleResume
  PROVE  TInv'
  <1> USE DEF TInv
  <1>1. step' \in [Step -> StepObj]
    BY ResumedType DEF HandleResume
  <1>2. git' \in [Step -> GitRec]
    <2> DEFINE g == Unlocked(Relaunched)
               tracked(t) == g[t].tracked \/ step[t].tree
    <2>1. g \in [Step -> GitRec]
      BY UnlockedType
    <2>2. git' = [t \in Step |-> [g[t] EXCEPT !.tracked = tracked(t)]]
      BY <2>1 DEF HandleResume, GitRec
    <2>3. \A t \in Step : tracked(t) \in BOOLEAN
      OBVIOUS
    <2> HIDE DEF g, tracked
    <2>4. \A t \in Step : [g[t] EXCEPT !.tracked = tracked(t)] \in GitRec
      BY <2>1, <2>3 DEF GitRec
    <2> QED BY <2>2, <2>4
  <1>3. Relaunched \subseteq Step /\ Cardinality(Relaunched) \in Nat
    <2>1. Relaunched \subseteq Step
      BY DEF Relaunched
    <2> QED BY <2>1, PlanAssumption, FS_Subset, FS_CardinalityType
  <1>4. active' \in Int /\ mapped' \subseteq Session
    BY <1>3 DEF HandleResume, TypeOK
  <1>5. fib' \in [Fiber -> FiberRec] /\ HoldOK'
    <2>1. PICK slot \in [Relaunched -> FreeWorkers] :
            fib' = [f \in Fiber |->
              IF f = Loop THEN [fib[f] EXCEPT !.pc = "load"]
              ELSE IF \E t \in Relaunched : slot[t] = f
                THEN NewWorker(CHOOSE t \in Relaunched : slot[t] = f, NoSession)
                ELSE fib[f]]
      BY DEF HandleResume
    <2>2. ASSUME NEW f \in Fiber
          PROVE  /\ fib'[f] \in FiberRec
                 /\ (fib'[f].pc \in HoldPC => fib'[f].hold # <<>>)
                 /\ (fib'[f].pc = "quick" => fib'[f].quick < 3)
      <3>1. CASE f = Loop
        <4> DEFINE r == [fib[f] EXCEPT !.pc = "load"]
        <4>1. r \in FiberRec /\ r.pc = "load"
          BY DEF TypeOK, FiberRec, PC
        <4>2. fib'[f] = r
          BY <2>1, <3>1
        <4> HIDE DEF r
        <4> QED BY <4>1, <4>2 DEF HoldPC
      <3>2. CASE f # Loop /\ \E t \in Relaunched : slot[t] = f
        <4> DEFINE t == CHOOSE u \in Relaunched : slot[u] = f
        <4>1. t \in Step
          BY <1>3, <3>2
        <4>2. fib'[f] = NewWorker(t, NoSession)
          BY <2>1, <3>2
        <4> HIDE DEF t
        <4> QED BY <4>1, <4>2, NewWorkerType
      <3>3. CASE f # Loop /\ ~\E t \in Relaunched : slot[t] = f
        <4>1. fib'[f] = fib[f]
          BY <2>1, <3>3
        <4> QED BY <4>1 DEF TypeOK, HoldOK
      <3> QED BY <3>1, <3>2, <3>3
    <2> QED BY <2>1, <2>2 DEF HoldOK
  <1>6. ProcTypes
    BY <1>1, <1>5 DEF ProcTypes
  <1> QED BY <1>2, <1>4, <1>6, TakeType, Combine DEF HandleResume, TypeOK

LEMMA LoopStepType ==
  ASSUME TInv, LoopStep
  PROVE  TInv'
  BY SimpleLoopType, HandleCompletedType, HandlePauseType, PauseStepType,
     HandleResumeType, HandleSkipType DEF LoopStep

-----------------------------------------------------------------------------
(* The agents.                                                             *)
LEMMA UnchangedProcs ==
  ASSUME TInv, UNCHANGED <<step, fib>>
  PROVE  ProcTypes
  BY DEF ProcTypes, TInv, TypeOK, HoldOK

LEMMA NotifyType ==
  ASSUME TInv, NEW s \in Session, Notify(s)
  PROVE  queue' \in Seq(Event)
  <1>1. sess[s].t \in Step
    BY DEF TInv, TypeOK, SessRec
  <1> QED BY <1>1, EventType DEF Notify, TInv, TypeOK

LEMMA AgentStepType ==
  ASSUME TInv, NEW s \in Session, AgentStep(s)
  PROVE  TInv'
  <1> USE DEF TInv
  <1>1. CASE AgentCommit(s)
    <2>1. sess[s].t \in Step
      BY DEF TypeOK, SessRec
    <2>2. PICK b \in {git[sess[s].t].behind, FALSE} :
            git' = [git EXCEPT ![sess[s].t] =
                     [@ EXCEPT !.ahead = TRUE, !.checked = FALSE, !.behind = b]]
      BY <1>1 DEF AgentCommit
    <2>3. git' \in [Step -> GitRec]
      BY ZenonT(40), <2>1, <2>2 DEF TypeOK, GitRec
    <2> QED BY <1>1, <2>3, UnchangedProcs, Combine DEF AgentCommit, TypeOK
  <1>2. CASE AgentExit(s)
    <2>1. sess' \in [Session -> SessRec]
      BY <1>2 DEF AgentExit, TypeOK, SessRec
    <2>2. queue' \in Seq(Event)
      BY <1>2, NotifyType DEF AgentExit
    <2> QED BY <1>2, <2>1, <2>2, UnchangedProcs, Combine DEF AgentExit, TypeOK
  <1>3. CASE StopNoticed(s)
    <2>1. sess' \in [Session -> SessRec]
      BY <1>3 DEF StopNoticed, TypeOK, SessRec
    <2>2. queue' \in Seq(Event)
      BY <1>3, NotifyType DEF StopNoticed
    <2> QED BY <1>3, <2>1, <2>2, UnchangedProcs, Combine DEF StopNoticed, TypeOK
  <1> QED BY <1>1, <1>2, <1>3 DEF AgentStep

-----------------------------------------------------------------------------
(* The user's calls.                                                       *)
LEMMA PushType ==
  ASSUME TInv, NEW t \in Step,
         \/ Push("pause", t) \/ Push("resume", t) \/ Push("skip", t) \/ Push("retry", t)
         \/ Push("stall_check", t)
  PROVE  queue' \in Seq(Event)
  BY EventType DEF Push

LEMMA CallType ==
  ASSUME TypeOK, NEW op, Call(op)
  PROVE  ops' \in Nat
  BY DEF Call, TypeOK

LEMMA UserStepType ==
  ASSUME TInv, UserStep
  PROVE  TInv'
  <1> USE DEF TInv
  <1>1. CASE UserPause
    <2>1. queue' \in Seq(Event)
      BY <1>1, PushType, FirstStep DEF UserPause
    <2>2. planStatus' \in {"executing", "paused", "done"} /\ ops' \in Nat
      BY <1>1, CallType DEF UserPause
    <2> QED BY <1>1, <2>1, <2>2, UnchangedProcs, Combine DEF UserPause, TypeOK
  <1>2. CASE UserResume
    <2>1. queue' \in Seq(Event) /\ ops' \in Nat
      BY <1>2, PushType, FirstStep, CallType DEF UserResume
    <2> QED BY <1>2, <2>1, UnchangedProcs, Combine DEF UserResume, TypeOK
  <1>3. CASE UserStop
    <2>1. ProcTypes
      <3>1. CASE Goto(Loop, "check")
        BY <1>3, <3>1, GotoType, LoopIsFiber DEF UserStop, PC, HoldPC
      <3>2. CASE UNCHANGED fib
        BY <1>3, <3>2, UnchangedProcs DEF UserStop
      <3> QED BY <1>3, <3>1, <3>2 DEF UserStop
    <2>2. ops' \in Nat /\ running' \in BOOLEAN
      BY <1>3, CallType DEF UserStop
    <2> QED BY <1>3, <2>1, <2>2, Combine DEF UserStop, TypeOK
  <1>4. CASE UserCommit
    <2>1. git' \in [Step -> GitRec]
      <3> DEFINE behind(t) == git[t].behind \/ git[t].dir
      <3>1. git' = [t \in Step |-> [git[t] EXCEPT !.behind = behind(t)]]
        BY <1>4 DEF UserCommit, TypeOK, GitRec
      <3>2. \A t \in Step : behind(t) \in BOOLEAN
        OBVIOUS
      <3> HIDE DEF behind
      <3>3. \A t \in Step : [git[t] EXCEPT !.behind = behind(t)] \in GitRec
        BY <3>2 DEF TypeOK, GitRec
      <3> QED BY <3>1, <3>3
    <2>2. ops' \in Nat
      BY <1>4, CallType DEF UserCommit
    <2> QED BY <1>4, <2>1, <2>2, UnchangedProcs, Combine DEF UserCommit, TypeOK
  <1>5. ASSUME NEW t \in Step, UserSkip(t) PROVE TInv'
    <2>1. queue' \in Seq(Event) /\ ops' \in Nat
      BY <1>5, PushType, CallType DEF UserSkip
    <2> QED BY <1>5, <2>1, UnchangedProcs, Combine DEF UserSkip, TypeOK
  <1>6. ASSUME NEW t \in Step, UserRetry(t) PROVE TInv'
    <2>1. queue' \in Seq(Event) /\ ops' \in Nat
      BY <1>6, PushType, CallType DEF UserRetry
    <2> QED BY <1>6, <2>1, UnchangedProcs, Combine DEF UserRetry, TypeOK
  <1>7. ASSUME NEW t \in Step, UserClose(t) PROVE TInv'
    <2>1. closed' \subseteq Step /\ ops' \in Nat
      BY <1>7, CallType DEF UserClose, TypeOK
    <2> QED BY <1>7, <2>1, UnchangedProcs, Combine DEF UserClose, TypeOK
  <1>8. ASSUME NEW s \in Session, UserKill(s) PROVE TInv'
    <2>1. queue' \in Seq(Event) /\ ops' \in Nat
      BY <1>8, NotifyType, CallType DEF UserKill
    <2>2. sess' \in [Session -> SessRec]
      BY <1>8 DEF UserKill, TypeOK, SessRec
    <2> QED BY <1>8, <2>1, <2>2, UnchangedProcs, Combine DEF UserKill, TypeOK
  <1>9. CASE StallTimer
    <2>1. queue' \in Seq(Event) /\ ops' \in Nat
      BY <1>9, PushType, FirstStep, CallType DEF StallTimer
    <2> QED BY <1>9, <2>1, UnchangedProcs, Combine DEF StallTimer, TypeOK
  <1> QED BY <1>1, <1>2, <1>3, <1>4, <1>5, <1>6, <1>7, <1>8, <1>9 DEF UserStep

-----------------------------------------------------------------------------
LEMMA InitType == Init => TInv
  <1> SUFFICES ASSUME Init PROVE TInv
    OBVIOUS
  <1>1. step \in [Step -> StepObj]
    BY RefType DEF Init
  <1>2. fib \in [Fiber -> FiberRec] /\ HoldOK
    <2>1. <<>> \in Seq(Entry)
      OBVIOUS
    <2>2. \A f \in Fiber : /\ fib[f].pc \in {"saved", "idle"}
                           /\ fib[f] \in FiberRec
      <3> DEFINE r(p) == [pc |-> p, hold |-> <<>>, sid |-> NoSession, quick |-> 0]
      <3>1. r("idle") \in FiberRec /\ r("saved") \in FiberRec
        BY <2>1 DEF FiberRec, PC
      <3>2. IdleFiber = r("idle") /\ [IdleFiber EXCEPT !.pc = "saved"] = r("saved")
        BY DEF IdleFiber
      <3>3. \A f \in Fiber : fib[f] = r("idle") \/ fib[f] = r("saved")
        BY <3>2 DEF Init
      <3>4. r("idle").pc = "idle" /\ r("saved").pc = "saved"
        OBVIOUS
      <3> HIDE DEF r
      <3> QED BY <3>1, <3>3, <3>4
    <2>3. fib = [f \in Fiber |-> fib[f]]
      BY DEF Init
    <2> QED BY <2>2, <2>3 DEF HoldOK, HoldPC
  <1>3. sess \in [Session -> SessRec]
    BY FirstStep DEF Init, SessRec
  <1>4. git \in [Step -> GitRec]
    BY DEF Init, NoTree, GitRec
  <1>5. queue \in Seq(Event)
    <2>1. <<>> \in Seq(Event)
      OBVIOUS
    <2> QED BY <2>1 DEF Init
  <1>6. /\ planStatus \in {"executing", "paused", "done"}
        /\ running \in BOOLEAN
        /\ booted \in BOOLEAN
    BY DEF Init
  <1>7. mapped \subseteq Session /\ closed \subseteq Step
    BY DEF Init
  <1>8. active \in Int /\ ops \in Nat
    BY DEF Init
  <1> QED BY <1>1, <1>2, <1>3, <1>4, <1>5, <1>6, <1>7, <1>8 DEF TInv, TypeOK

LEMMA StepType == TInv /\ [Next]_vars => TInv'
  <1> SUFFICES ASSUME TInv, [Next]_vars PROVE TInv'
    OBVIOUS
  <1>1. CASE LoopStep
    BY <1>1, LoopStepType
  <1>2. ASSUME NEW f \in Fiber, OtherStep(f) PROVE TInv'
    BY <1>2, RecomputeStepType, WorkerStepType, RemoveWorktreeType DEF OtherStep
  <1>3. ASSUME NEW s \in Session, AgentStep(s) PROVE TInv'
    BY <1>3, AgentStepType
  <1>4. CASE UserStep
    BY <1>4, UserStepType
  <1>5. CASE UNCHANGED vars
    BY <1>5 DEF vars, TInv, TypeOK, HoldOK
  <1> QED BY <1>1, <1>2, <1>3, <1>4, <1>5 DEF Next

(* The state of the executor is typed in every behaviour: no fiber ever    *)
(* uses an object it does not hold, and neither the rebases of a step nor  *)
(* the quick rebases of a merge exceed three.                              *)
THEOREM TypeCorrect == Spec => []TypeOK
  <1>1. Init => TInv
    BY InitType
  <1>2. TInv /\ [Next]_vars => TInv'
    BY StepType
  <1>3. TInv => TypeOK
    BY DEF TInv
  <1> QED BY <1>1, <1>2, <1>3, PTL DEF Spec

-----------------------------------------------------------------------------
(* The count on which the executor's loop bases its end.                   *)
AtWork == {w \in Worker : Working(w)}

(* Fiber f moves to p and no other fiber moves.                            *)
Moves(f, p) == /\ \A g \in Fiber \ {f} : fib'[g] = fib[g]
               /\ fib'[f].pc = p

WorkPC == {"work", "arbitrate", "verify", "merge", "rebase", "reverify",
           "remerge", "quick", "discard", "failed", "removing", "fin"}

CInv == TInv /\ VerificationsCounted

(* No handler begins or ends, and none is counted or forgotten.            *)
SameWork == AtWork' = AtWork /\ active' = active

-----------------------------------------------------------------------------
LEMMA WorkFinite == IsFiniteSet(AtWork) /\ Cardinality(AtWork) \in Nat
  <1>1. AtWork \subseteq Worker
    BY DEF AtWork
  <1> QED BY <1>1, FS_Subset, FS_CardinalityType, ModelAssumption

LEMMA HelperMoves ==
  ASSUME TInv, NEW f \in Fiber, NEW p, NEW o,
         Goto(f, p) \/ Become(f, o, p) \/ BecomeAndDrop(f, o, p)
  PROVE  Moves(f, p)
  BY DEF TInv, TypeOK, FiberRec, Goto, Become, BecomeAndDrop, Moves

LEMMA GotoMoves ==
  ASSUME TInv, NEW f \in Fiber, NEW p, Goto(f, p)
  PROVE  Moves(f, p)
  BY DEF TInv, TypeOK, FiberRec, Goto, Moves

(* A fiber that stays within, or without, a completion handler.            *)
LEMMA WorkStays ==
  ASSUME NEW f \in Fiber, NEW p, Moves(f, p),
         f \in Worker => (fib[f].pc \in WorkPC <=> p \in WorkPC)
  PROVE  AtWork' = AtWork
  <1>1. Worker \subseteq Fiber
    BY DEF Fiber
  <1>2. ASSUME NEW w \in Worker PROVE Working(w)' <=> Working(w)
    <2>1. CASE w = f
      BY <2>1 DEF Moves, Working, WorkPC
    <2>2. CASE w # f
      <3>1. fib'[w] = fib[w]
        BY <1>1, <2>2 DEF Moves
      <3> QED BY <3>1 DEF Working
    <2> QED BY <2>1, <2>2
  <1> QED BY <1>2 DEF AtWork

(* Where recomputeAndContinue() waits, no handler is at work.              *)
RestPC == {"load", "saved", "create", "install", "spawn", "term", "smoke",
           "finish", "end", "idle", "check"}

LEMMA RestStays ==
  ASSUME NEW f \in Fiber, NEW p \in RestPC, Moves(f, p), fib[f].pc \in RestPC
  PROVE  AtWork' = AtWork
  <1>1. fib[f].pc \notin WorkPC /\ p \notin WorkPC
    BY DEF RestPC, WorkPC
  <1> QED BY <1>1, WorkStays

LEMMA RecomputeStays ==
  ASSUME TInv, NEW f \in Fiber, RecomputeStep(f)
  PROVE  SameWork
  <1> USE DEF TInv
  <1>1. fib[f] \in FiberRec
    BY DEF TypeOK
  <1>2. AfterStart(f) \in RestPC /\ StartNext(f) \in RestPC
    BY DEF AfterStart, StartNext, RestPC
  <1>3. CASE Recompute(f)
    <2>1. \A g \in Fiber : fib'[g].pc = IF g = f THEN "saved" ELSE fib[g].pc
      BY <1>3 DEF Recompute, TypeOK, FiberRec
    <2>2. ~(fib[f].pc \in WorkPC) /\ "saved" \notin WorkPC
      BY <1>3 DEF Recompute, At, WorkPC
    <2>3. \A w \in Worker : Working(w)' <=> Working(w)
      BY <2>1, <2>2 DEF Working, WorkPC, Fiber
    <2> QED BY <1>3, <2>3 DEF SameWork, AtWork, Recompute
  <1>4. CASE StartReadySteps(f)
    <2>1. fib[f].pc \in RestPC /\ UNCHANGED active
      BY <1>4 DEF StartReadySteps, At, RestPC
    <2>2. CASE Goto(f, AfterStart(f)) \/ Goto(f, "term")
      BY <1>2, <2>1, <2>2, GotoMoves, RestStays DEF SameWork, RestPC
    <2>3. ASSUME NEW q \in StartLists,
                 fib' = [fib EXCEPT ![f].pc = "create",
                           ![f].hold = [i \in DOMAIN q |-> Ref(q[i])]]
          PROVE  SameWork
      <3>1. Moves(f, "create")
        BY <1>1, <2>3 DEF Moves, TypeOK, FiberRec
      <3> QED BY <2>1, <3>1, RestStays DEF SameWork, RestPC
    <2> QED BY <1>4, <2>2, <2>3 DEF StartReadySteps
  <1>5. CASE CreateWorktree(f)
    <2>1. fib[f].pc \in RestPC /\ UNCHANGED active
      BY <1>5 DEF CreateWorktree, At, RestPC
    <2>2. Moves(f, "spawn") \/ Moves(f, "install") \/ Moves(f, StartNext(f))
      BY <1>5, HelperMoves, GotoMoves DEF CreateWorktree
    <2> QED BY <1>2, <2>1, <2>2, RestStays DEF SameWork, RestPC
  <1>6. CASE InstallDone(f)
    <2>1. fib[f].pc \in RestPC /\ UNCHANGED active /\ Moves(f, "spawn")
      BY <1>6, HelperMoves DEF InstallDone, At, RestPC
    <2> QED BY <2>1, RestStays DEF SameWork, RestPC
  <1>7. ASSUME NEW s \in Session, SpawnAgent(f, s) PROVE SameWork
    <2>1. fib[f].pc \in RestPC /\ UNCHANGED active /\ Moves(f, StartNext(f))
      BY <1>7, HelperMoves DEF SpawnAgent, At, RestPC
    <2> QED BY <1>2, <2>1, RestStays DEF SameWork
  <1>8. CASE SpawnFails(f)
    <2>1. fib[f].pc \in RestPC /\ UNCHANGED active /\ Moves(f, StartNext(f))
      BY <1>8, HelperMoves DEF SpawnFails, At, RestPC
    <2> QED BY <1>2, <2>1, RestStays DEF SameWork
  <1>9. CASE TestComplete(f) \/ SmokeTestDone(f) \/ FinishPlan(f)
    <2>1. /\ fib[f].pc \in RestPC /\ UNCHANGED active
          /\ \E p \in {"smoke", "end", "finish"} : Moves(f, p)
      BY <1>9, GotoMoves DEF TestComplete, SmokeTestDone, FinishPlan, At, RestPC
    <2> QED BY <2>1, RestStays DEF SameWork, RestPC
  <1>10. CASE EndRecompute(f)
    <2>1. fib[f].pc \in RestPC /\ UNCHANGED active
      BY <1>10 DEF EndRecompute, At, RestPC
    <2>2. Moves(f, "check") \/ Moves(f, "idle")
      BY <1>10, GotoMoves DEF EndRecompute, Moves, IdleFiber, TypeOK
    <2> QED BY <2>1, <2>2, RestStays DEF SameWork, RestPC
  <1> QED BY <1>3, <1>4, <1>5, <1>6, <1>7, <1>8, <1>9, <1>10 DEF RecomputeStep

-----------------------------------------------------------------------------
(* A handler goes from one of its awaits to another.                       *)
LEMMA HandlerStays ==
  ASSUME NEW w \in Fiber, NEW p \in WorkPC, Moves(w, p), fib[w].pc \in WorkPC
  PROVE  AtWork' = AtWork
  BY WorkStays

LEMMA NextRebaseMoves ==
  ASSUME TInv, NEW w \in Fiber, NextRebase(w)
  PROVE  \E p \in WorkPC : Moves(w, p)
  BY HelperMoves DEF NextRebase, NeedsRebase, WorkPC

LEMMA RetryMoves ==
  ASSUME TInv, NEW w \in Fiber, RetryOrFail(w)
  PROVE  \E p \in WorkPC : Moves(w, p)
  BY HelperMoves DEF RetryOrFail, WorkPC

LEMMA WorkerStays ==
  ASSUME TInv, NEW w \in Worker, WorkerStep(w), ~VerificationOver(w)
  PROVE  SameWork
  <1> USE DEF TInv
  <1>1. w \in Fiber /\ w # Loop
    BY LoopIsFiber
  <1>2. fib[w] \in FiberRec
    BY <1>1 DEF TypeOK
  <1>3. fib[w].pc \in WorkPC /\ UNCHANGED active
    BY DEF WorkerStep, CheckWork, Arbitrate, DiscardEmpty, PauseAfterFailure,
           Verify, Merge, Rebase, Reverify, Remerge, QuickRebase,
           RemoveWorktree, VerificationOver, At, WorkPC, RetryOrFail
  <1>4. \E p \in WorkPC : Moves(w, p)
    <2>1. CASE CheckWork(w) \/ Arbitrate(w) \/ DiscardEmpty(w) \/ PauseAfterFailure(w)
      BY <1>1, <2>1, HelperMoves, GotoMoves
      DEF CheckWork, Arbitrate, DiscardEmpty, PauseAfterFailure, WorkPC
    <2>2. CASE Verify(w)
      BY <1>1, <2>2, GotoMoves, RetryMoves DEF Verify, WorkPC
    <2>3. CASE Merge(w)
      BY <1>1, <2>3, HelperMoves, NextRebaseMoves
      DEF Merge, MergeSucceeds, NeedsRebase, WorkPC
    <2>4. CASE Rebase(w)
      BY <1>1, <2>4, HelperMoves, NextRebaseMoves DEF Rebase, CleanRebase, WorkPC
    <2>5. CASE Reverify(w)
      <3>1. CASE RetryOrFail(w)
        BY <1>1, <3>1, RetryMoves
      <3>2. CASE fib' = [fib EXCEPT ![w].pc = "remerge", ![w].quick = 0]
        <4>1. Moves(w, "remerge")
          BY <1>1, <1>2, <3>2 DEF Moves, TypeOK, FiberRec
        <4> QED BY <4>1 DEF WorkPC
      <3> QED BY <2>5, <3>1, <3>2 DEF Reverify
    <2>6. CASE Remerge(w)
      BY <1>1, <2>6, HelperMoves, GotoMoves, NextRebaseMoves
      DEF Remerge, MergeSucceeds, WorkPC
    <2>7. CASE QuickRebase(w)
      <3>1. CASE NextRebase(w)
        BY <1>1, <3>1, NextRebaseMoves
      <3>2. CASE fib' = [fib EXCEPT ![w].pc = "remerge", ![w].quick = @ + 1]
        <4>1. Moves(w, "remerge")
          BY <1>1, <1>2, <3>2 DEF Moves, TypeOK, FiberRec
        <4> QED BY <4>1 DEF WorkPC
      <3> QED BY <2>7, <3>1, <3>2 DEF QuickRebase
    <2>8. CASE RemoveWorktree(w)
      BY <1>1, <2>8, HelperMoves DEF RemoveWorktree, WorkPC
    <2> QED BY <2>1, <2>2, <2>3, <2>4, <2>5, <2>6, <2>7, <2>8 DEF WorkerStep
  <1> QED BY <1>1, <1>3, <1>4, HandlerStays DEF SameWork

(* The end of a handler is counted.                                        *)
LEMMA HandlerEnds ==
  ASSUME CInv, NEW w \in Worker, VerificationOver(w)
  PROVE  VerificationsCounted'
  <1> USE DEF CInv, TInv
  <1>1. /\ fib[w].pc = "fin" /\ w \in Fiber
        /\ Worker \subseteq Fiber
    BY LoopIsFiber DEF VerificationOver, At
  <1>2. w \in AtWork
    BY <1>1 DEF AtWork, Working
  <1>3. Moves(w, "load")
    BY <1>1 DEF VerificationOver, Moves, IdleFiber, TypeOK
  <1>4. AtWork' = AtWork \ {w}
    <2>1. ~Working(w)'
      BY <1>3 DEF Moves, Working
    <2>2. \A v \in Worker \ {w} : Working(v)' <=> Working(v)
      BY <1>1, <1>3 DEF Moves, Working
    <2> QED BY <2>1, <2>2 DEF AtWork
  <1>5. Cardinality(AtWork \ {w}) = Cardinality(AtWork) - 1
    BY <1>2, WorkFinite, FS_RemoveElement
  <1>6. active' = active - 1 /\ active = Cardinality(AtWork)
    BY DEF VerificationOver, VerificationsCounted, AtWork
  <1> QED BY <1>4, <1>5, <1>6 DEF VerificationsCounted, AtWork

-----------------------------------------------------------------------------
(* The loop is no handler: what only it does changes no count.             *)
LEMMA LoopOnlyStays ==
  ASSUME \A g \in Fiber \ {Loop} : fib'[g] = fib[g]
  PROVE  AtWork' = AtWork
  <1>1. \A w \in Worker : fib'[w] = fib[w]
    BY LoopIsFiber
  <1> QED BY <1>1 DEF AtWork, Working

LEMMA LoopStays ==
  ASSUME TInv,
         \/ LoopWaits \/ LoopExits \/ HandleDone \/ HandlePause \/ PauseStep
         \/ PauseReset \/ HandleSkip \/ HandleRetry \/ HandleStall
         \/ RemoveWorktree(Loop)
  PROVE  SameWork
  <1> USE DEF TInv
  <1>1. \A g \in Fiber \ {Loop} : fib'[g] = fib[g]
    BY LoopIsFiber
    DEF LoopWaits, LoopExits, HandleDone, HandlePause, PauseStep, PauseReset,
        HandleSkip, HandleRetry, HandleStall, RemoveWorktree, Goto,
        BecomeAndDrop, TypeOK
  <1>2. active' = active
    BY DEF LoopWaits, LoopExits, HandleDone, HandlePause, PauseStep, PauseReset,
           HandleSkip, HandleRetry, HandleStall, RemoveWorktree
  <1> QED BY <1>1, <1>2, LoopOnlyStays DEF SameWork

(* agent_completed begins a handler, and counts it.                        *)
LEMMA HandlerBegins ==
  ASSUME CInv, NEW w \in Worker, HandleCompleted(w)
  PROVE  VerificationsCounted'
  <1> USE DEF CInv, TInv
  <1>1. fib[w].pc = "idle" /\ Worker \subseteq Fiber /\ w # Loop
    BY LoopIsFiber DEF HandleCompleted, FreeWorkers, At
  <1>2. w \notin AtWork
    BY <1>1 DEF AtWork, Working
  <1>3. fib'[w].pc = "work" /\ \A g \in Worker \ {w} : fib'[g] = fib[g]
    BY <1>1, LoopIsFiber DEF HandleCompleted, NewWorker, TypeOK
  <1>4. AtWork' = AtWork \cup {w}
    <2>1. Working(w)'
      BY <1>3 DEF Working
    <2>2. \A v \in Worker \ {w} : Working(v)' <=> Working(v)
      BY <1>3 DEF Working
    <2> QED BY <2>1, <2>2 DEF AtWork
  <1>5. Cardinality(AtWork \cup {w}) = Cardinality(AtWork) + 1
    BY <1>2, WorkFinite, FS_AddElement
  <1>6. active' = active + 1 /\ active = Cardinality(AtWork)
    BY DEF HandleCompleted, VerificationsCounted, AtWork
  <1> QED BY <1>4, <1>5, <1>6 DEF VerificationsCounted, AtWork

(* resume begins a handler for every step it takes up again, and counts    *)
(* them all: no two of them share a slot, and every slot was free.         *)
LEMMA HandlersBegin ==
  ASSUME CInv, HandleResume
  PROVE  VerificationsCounted'
  <1> USE DEF CInv, TInv
  <1>1. PICK slot \in [Relaunched -> FreeWorkers] :
          /\ \A t, u \in Relaunched : slot[t] = slot[u] => t = u
          /\ fib' = [f \in Fiber |->
               IF f = Loop THEN [fib[f] EXCEPT !.pc = "load"]
               ELSE IF \E t \in Relaunched : slot[t] = f
                 THEN NewWorker(CHOOSE t \in Relaunched : slot[t] = f, NoSession)
                 ELSE fib[f]]
    BY DEF HandleResume
  <1> DEFINE Slots == {slot[t] : t \in Relaunched}
  <1>2. Slots \subseteq Worker /\ Slots \cap AtWork = {}
    BY <1>1 DEF FreeWorkers, At, AtWork, Working
  <1>3. AtWork' = AtWork \cup Slots
    <2>1. ASSUME NEW w \in Worker
          PROVE  Working(w)' <=> Working(w) \/ w \in Slots
      <3>1. w \in Fiber /\ w # Loop
        BY LoopIsFiber
      <3>2. CASE w \in Slots
        <4>1. fib'[w].pc = "work"
          BY <1>1, <3>1, <3>2 DEF NewWorker
        <4> QED BY <3>2, <4>1 DEF Working
      <3>3. CASE w \notin Slots
        <4>1. fib'[w] = fib[w]
          BY <1>1, <3>1, <3>3
        <4> QED BY <3>3, <4>1 DEF Working
      <3> QED BY <3>2, <3>3
    <2> HIDE DEF Slots
    <2> QED BY <1>2, <2>1 DEF AtWork
  <1>4. IsFiniteSet(Relaunched)
    <2>1. Relaunched \subseteq Step
      BY DEF Relaunched
    <2> QED BY <2>1, PlanAssumption, FS_Subset
  <1>5. IsFiniteSet(Slots) /\ Cardinality(Slots) = Cardinality(Relaunched)
    <2>1. slot \in Bijection(Relaunched, Slots)
      BY <1>1 DEF Bijection, Injection, Surjection, IsInjective
    <2>2. ExistsBijection(Relaunched, Slots)
      BY <2>1 DEF ExistsBijection
    <2> QED BY <1>4, <2>2, FS_Bijection
  <1> HIDE DEF Slots
  <1>6. Cardinality(AtWork \cup Slots) = Cardinality(AtWork) + Cardinality(Slots)
    <2>1. Cardinality(AtWork \cap Slots) = 0
      BY <1>2, FS_EmptySet
    <2>2. Cardinality(AtWork \cup Slots) =
            Cardinality(AtWork) + Cardinality(Slots) - Cardinality(AtWork \cap Slots)
      BY <1>5, WorkFinite, FS_Union
    <2>3. Cardinality(Slots) \in Nat
      BY <1>5, FS_CardinalityType
    <2> QED BY <2>1, <2>2, <2>3, WorkFinite
  <1>7. active' = active + Cardinality(Relaunched) /\ active = Cardinality(AtWork)
    BY DEF HandleResume, VerificationsCounted, AtWork
  <1> QED BY <1>3, <1>5, <1>6, <1>7 DEF VerificationsCounted, AtWork

LEMMA AgentsStay ==
  ASSUME NEW s \in Session, AgentStep(s)
  PROVE  SameWork
  BY DEF AgentStep, AgentCommit, AgentExit, StopNoticed, SameWork, AtWork, Working

LEMMA UserStays ==
  ASSUME TInv, UserStep
  PROVE  SameWork
  <1>1. \A g \in Fiber \ {Loop} : fib'[g] = fib[g]
    BY DEF UserStep, UserPause, UserResume, UserStop, UserCommit, UserSkip, Goto,
           UserRetry, UserClose, UserKill, StallTimer, TInv, TypeOK
  <1>2. active' = active
    BY DEF UserStep, UserPause, UserResume, UserStop, UserCommit, UserSkip,
           UserRetry, UserClose, UserKill, StallTimer
  <1> QED BY <1>1, <1>2, LoopOnlyStays DEF SameWork

LEMMA InitCounted == Init => VerificationsCounted
  <1> SUFFICES ASSUME Init PROVE VerificationsCounted
    OBVIOUS
  <1>1. \A w \in Worker : fib[w].pc = "idle"
    BY LoopIsFiber DEF Init, IdleFiber
  <1>2. {w \in Worker : Working(w)} = {}
    BY <1>1 DEF Working
  <1>3. active = 0
    BY DEF Init
  <1> QED BY <1>2, <1>3, FS_EmptySet DEF VerificationsCounted

LEMMA StepCounted == CInv /\ [Next]_vars => VerificationsCounted'
  <1> SUFFICES ASSUME CInv, [Next]_vars PROVE VerificationsCounted'
    OBVIOUS
  <1> USE DEF CInv
  <1>1. SameWork => VerificationsCounted'
    BY DEF SameWork, VerificationsCounted, AtWork
  <1>2. CASE LoopStep
    BY <1>1, <1>2, LoopStays, HandlerBegins, HandlersBegin DEF LoopStep
  <1>3. ASSUME NEW f \in Fiber, OtherStep(f) PROVE VerificationsCounted'
    BY <1>1, <1>3, RecomputeStays, WorkerStays, HandlerEnds, LoopStays
    DEF OtherStep
  <1>4. ASSUME NEW s \in Session, AgentStep(s) PROVE VerificationsCounted'
    BY <1>1, <1>4, AgentsStay
  <1>5. CASE UserStep
    BY <1>1, <1>5, UserStays
  <1>6. CASE UNCHANGED vars
    BY <1>6 DEF vars, VerificationsCounted, Working
  <1> QED BY <1>2, <1>3, <1>4, <1>5, <1>6 DEF Next

(* In every behaviour activeVerifications, on which shouldExitLoop() and   *)
(* so the end of run() depends, is the number of the completion handlers   *)
(* under way: it never ends early, and never waits for nobody.             *)
THEOREM VerificationsAreCounted == Spec => []VerificationsCounted
  <1>1. Init => CInv
    BY InitType, InitCounted DEF CInv
  <1>2. CInv /\ [Next]_vars => CInv'
    BY StepType, StepCounted DEF CInv
  <1>3. CInv => VerificationsCounted
    BY DEF CInv
  <1> QED BY <1>1, <1>2, <1>3, PTL DEF Spec
=============================================================================
