------------------------- MODULE PlanSequenceProofs -------------------------
(* What the executor promises for every plan, configuration and fault, in  *)
(* two ways of running it: one agent at a time, left alone by the user;    *)
(* and every step at once, with as many agents as there are steps, where   *)
(* handlers overlap at every await.  When steps wait for slots, come back  *)
(* to ready or are resumed while handlers are at work, some of these       *)
(* promises fail.                                                          *)
EXTENDS PlanExecutorProofs

(* One agent at a time, and nobody calls: others may commit to main.       *)
Alone == MaxAgents = 1 /\ UserOps \subseteq {"commit"}

(* Where a fiber has the plan in its hands: a handler, or a fiber that     *)
(* recomputes the plan and starts an agent.                                *)
StartPC == {"create", "install", "spawn"}
JudgePC == {"arbitrate", "verify", "merge", "rebase", "reverify", "remerge",
            "quick"}
HeldPC  == {"work"} \cup JudgePC
BusyPC  == HeldPC \cup StartPC \cup {"discard", "failed", "removing", "fin",
                                     "load", "saved"}

Busy(f) == fib[f].pc \in BusyPC
News(i) == queue[i].type = "agent_completed"

(* Nobody pauses, resumes, skips, retries or stops: run() starts agents    *)
(* once, and then only takes events.                                       *)
Calm ==
  /\ \A i \in DOMAIN queue : queue[i].type \in {"agent_completed", "verification_done"}
  /\ \A s \in Session : sess[s].st # "stopping"
  /\ Live \subseteq mapped
  /\ fib[Loop].pc \in {"saved", "check", "wait", "exited"} \cup StartPC
  /\ fib[Loop].pc \in {"saved"} \cup StartPC => ~booted /\ planStatus = "executing"
  /\ \A w \in Worker : /\ fib[w].pc \in BusyPC \cup {"idle", "term", "smoke",
                                                     "finish", "end"}
                       /\ ~booted => fib[w].pc = "idle"

(* There is one token: an agent, the news of its end, or a busy fiber.     *)
OneToken ==
  /\ \A f, g \in Fiber : Busy(f) /\ Busy(g) => f = g
  /\ \A s, r \in Live : s = r
  /\ \A i, j \in DOMAIN queue : News(i) /\ News(j) => i = j
  /\ \A f \in Fiber : Busy(f) => Live = {} /\ \A i \in DOMAIN queue : ~News(i)
  /\ Live # {} => \A i \in DOMAIN queue : ~News(i)

(* What a fiber that waits at p knows of its step, whose object is o and   *)
(* whose branch and worktree are g.                                        *)
Fit(p, o, g) ==
  /\ p \in StartPC => o.status = "ready"
  /\ p = "work" => o.status = "in-progress"
  /\ p \in JudgePC => o.status = "verifying"
  /\ p = "discard" => o.status = "failed"
  /\ p = "removing" => o.status = "done"
  /\ p \notin HeldPC => o.status \notin {"in-progress", "verifying"}
  /\ p \in JudgePC \ {"arbitrate"} => g.ahead
  /\ p \in {"arbitrate", "discard", "removing"} => ~(g.tracked /\ g.ahead)
  /\ p = "arbitrate" => ZeroCommitOracle
  /\ UserOps = {} =>
       /\ p # "quick"
       /\ p \in JudgePC \ {"arbitrate"} => g.checked
       /\ p \in {"reverify", "remerge"} => ~g.behind

(* Its object is the one in the plan, and the only one it holds.           *)
Holds(f) ==
  fib[f].pc \in HoldPC =>
    /\ ~Cur(f).stale /\ Len(fib[f].hold) = 1
    /\ Fit(fib[f].pc, step[Cur(f).t], git[Cur(f).t])
    /\ fib[f].pc \in StartPC => planStatus = "executing"

(* The step on which the token is.                                         *)
On(t) == \/ \E s \in Live : sess[s].t = t
         \/ \E i \in DOMAIN queue : News(i) /\ queue[i].t = t
         \/ \E f \in Fiber : fib[f].pc \in HeldPC /\ Cur(f).t = t

Tasks ==
  /\ \A s \in Live : step[sess[s].t].status = "in-progress"
  /\ \A i \in DOMAIN queue : News(i) => step[queue[i].t].status = "in-progress"
  /\ \A f \in Fiber : Holds(f)
  /\ \A t \in Occupied : On(t)

(* What may be said of every step that has begun, or may begin: it is done *)
(* only with its work in main.                                             *)
Good(o, g) == /\ o.status # "skipped"
              /\ o.attempt <= 1 + MaxRetries
              /\ o.status = "done" /\ ~ZeroCommitOracle => g.landed

(* It has begun only when all that blocks it was resolved.                 *)
Fact(t) ==
  /\ Good(step[t], git[t])
  /\ step[t].status # "blocked" => Unresolved(t) = {}
  /\ t \in closed => step[t].status = "done"

(* Nothing is left to do, which nothing changes any more.                  *)
AllOver == /\ \A t \in Step : step[t].status \in TerminalStatus
           /\ \A w \in Worker : ~Working(w)

Ending == \/ planStatus = "done" \/ ~running \/ At(Loop, "exited")
          \/ \E w \in Worker : fib[w].pc \in {"smoke", "finish"}

SInv == Calm /\ OneToken /\ Tasks /\ (\A t \in Step : Fact(t)) /\ (Ending => AllOver)

SeqInv == CInv /\ SInv

-----------------------------------------------------------------------------
(* A fiber that has the plan in its hands is alone with it.                *)
LEMMA HolderFacts ==
  ASSUME TInv, SInv, NEW f \in Fiber, Busy(f)
  PROVE  /\ Live = {} /\ \A i \in DOMAIN queue : ~News(i)
         /\ \A g \in Fiber \ {f} : ~Busy(g) /\ fib[g].pc \notin HoldPC
         /\ \A t \in Occupied : fib[f].pc \in HeldPC /\ Cur(f).t = t
         /\ f \in Worker => booted
  <1>1. Live = {} /\ \A i \in DOMAIN queue : ~News(i)
    BY DEF SInv, OneToken
  <1>2. \A g \in Fiber \ {f} : ~Busy(g)
    BY DEF SInv, OneToken
  <1>3. \A g \in Fiber : ~Busy(g) => fib[g].pc \notin HoldPC
    <2>1. \A g \in Fiber : fib[g].pc \notin {"pausing", "killed"}
      BY DEF Fiber, SInv, Calm, BusyPC, HeldPC, JudgePC, StartPC
    <2> QED BY <2>1 DEF Busy, BusyPC, HeldPC, JudgePC, StartPC, HoldPC
  <1>4. \A t \in Occupied : fib[f].pc \in HeldPC /\ Cur(f).t = t
    <2>1. \A g \in Fiber : fib[g].pc \in HeldPC => Busy(g)
      BY DEF Busy, BusyPC
    <2> QED BY <1>1, <1>2, <2>1 DEF SInv, Tasks, On
  <1>5. f \in Worker => booted
    BY DEF SInv, Calm, Busy, BusyPC, HeldPC, JudgePC, StartPC
  <1> QED BY <1>1, <1>2, <1>3, <1>4, <1>5

(* What a fiber that is about to use an object knows.                      *)
LEMMA ObjectFacts ==
  ASSUME TInv, SInv, NEW f \in Fiber, fib[f].pc \in HoldPC
  PROVE  /\ Busy(f) /\ fib[f].hold # <<>> /\ Len(fib[f].hold) = 1
         /\ Cur(f).t \in Step /\ ~Cur(f).stale
         /\ Obj(f) = step[Cur(f).t] /\ Obj(f) \in StepObj
         /\ Fit(fib[f].pc, Obj(f), git[Cur(f).t])
         /\ Good(Obj(f), git[Cur(f).t])
         /\ Obj(f).status # "blocked" /\ Unresolved(Cur(f).t) = {}
         /\ fib[f].pc \in StartPC => planStatus = "executing"
  <1>1. fib[f].hold # <<>>
    BY DEF TInv, HoldOK
  <1>2. Cur(f).t \in Step /\ Obj(f) \in StepObj
    BY <1>1, CurType DEF Entry
  <1>3. Holds(f)
    BY DEF SInv, Tasks
  <1>4. Obj(f) = step[Cur(f).t]
    BY <1>3 DEF Holds, Obj
  <1>5. Busy(f)
    <2>1. fib[f].pc \notin {"pausing", "killed"}
      BY DEF Fiber, SInv, Calm, BusyPC, HeldPC, JudgePC, StartPC
    <2> QED BY <2>1 DEF Busy, BusyPC, HeldPC, JudgePC, StartPC, HoldPC
  <1>6. Obj(f).status # "blocked"
    BY <1>3, <1>4, <1>5
    DEF Holds, Fit, Busy, BusyPC, HeldPC, JudgePC, StartPC, HoldPC
  <1> QED BY <1>1, <1>2, <1>3, <1>4, <1>5, <1>6 DEF Holds, SInv, Fact

(* A plan that is over has nobody at work on a step.                       *)
LEMMA NotEnding ==
  ASSUME TInv, SInv, NEW f \in Fiber, fib[f].pc \in HoldPC \cup {"failed", "fin"}
  PROVE  ~Ending
  <1>1. CASE f \in Worker /\ Working(f)
    BY <1>1 DEF SInv, AllOver
  <1>2. CASE ~(f \in Worker /\ Working(f))
    <2>1. fib[f].pc \in StartPC
      BY <1>2 DEF SInv, Calm, Fiber, Working, HoldPC, StartPC, BusyPC, HeldPC, JudgePC
    <2>2. step[Cur(f).t].status = "ready" /\ Cur(f).t \in Step
      BY <2>1, ObjectFacts DEF Fit, StartPC, HoldPC
    <2> QED BY <2>2 DEF SInv, AllOver, TerminalStatus
  <1> QED BY <1>1, <1>2

-----------------------------------------------------------------------------
(* Fiber f assigns o to the object it holds and goes to p; unless it is    *)
(* through with the object, it still holds it there.                       *)
Turns(f, o, p) ==
  /\ Moves(f, p)
  /\ p \in HoldPC => fib'[f].hold = fib[f].hold
  /\ step' = [step EXCEPT ![Cur(f).t] = o]

(* Where f may go.                                                         *)
Targets(f) == IF f = Loop THEN StartPC \cup {"check"}
                          ELSE BusyPC \cup {"term"}

LEMMA HelperTurns ==
  ASSUME TInv, SInv, NEW f \in Fiber, fib[f].pc \in HoldPC, NEW o, NEW p,
         \/ Become(f, o, p)
         \/ BecomeAndDrop(f, o, p) /\ p \notin HoldPC
         \/ Goto(f, p) /\ UNCHANGED step /\ o = Obj(f)
  PROVE  Turns(f, o, p)
  <1>1. Moves(f, p)
    BY HelperMoves
  <1>2. ~Cur(f).stale /\ Obj(f) = step[Cur(f).t] /\ Cur(f).t \in Step
    BY ObjectFacts
  <1>3. step' = [step EXCEPT ![Cur(f).t] = o]
    BY <1>2 DEF Become, BecomeAndDrop, TInv, TypeOK
  <1>4. p \in HoldPC => fib'[f].hold = fib[f].hold
    BY <1>2 DEF Become, Goto, TInv, TypeOK, FiberRec
  <1> QED BY <1>1, <1>3, <1>4 DEF Turns

(* What a step that turns an object must show.                             *)
LEMMA TurnKeepsToken ==
  ASSUME TInv, SInv, NEW f \in Fiber, Busy(f), NEW p \in Targets(f), Moves(f, p),
         UNCHANGED <<sess, queue>>
  PROVE  OneToken'
  <1>1. Live = {} /\ (\A i \in DOMAIN queue : ~News(i))
        /\ (\A g \in Fiber \ {f} : ~Busy(g))
    BY HolderFacts
  <1>2. Live' = {} /\ (\A i \in DOMAIN queue' : ~News(i)')
    BY <1>1 DEF Live, News
  <1>3. \A g \in Fiber \ {f} : ~Busy(g)'
    BY <1>1 DEF Moves, Busy
  <1> QED BY <1>2, <1>3 DEF OneToken

LEMMA TurnKeepsCalm ==
  ASSUME TInv, SInv, NEW f \in Fiber, Busy(f), NEW p \in Targets(f), Moves(f, p),
         UNCHANGED <<sess, queue, booted>>, f = Loop => UNCHANGED planStatus
  PROVE  Calm'
  <1>1. Live' = {} /\ Live' \subseteq mapped'
    BY HolderFacts DEF Live
  <1>2. /\ \A i \in DOMAIN queue' : queue'[i].type \in {"agent_completed", "verification_done"}
        /\ \A s \in Session : sess'[s].st # "stopping"
    BY DEF SInv, Calm
  <1>3. CASE f = Loop
    <2>1. fib'[Loop].pc \in StartPC \cup {"check"} /\ fib[Loop].pc \in {"saved"} \cup StartPC
      BY <1>3 DEF Moves, Targets, SInv, Calm, Busy, BusyPC, HeldPC, JudgePC, StartPC
    <2>2. \A w \in Worker : fib'[w] = fib[w]
      BY <1>3, LoopIsFiber DEF Moves
    <2> QED BY <1>1, <1>2, <1>3, <2>1, <2>2 DEF SInv, Calm, StartPC
  <1>4. CASE f # Loop
    <2>1. f \in Worker /\ booted /\ fib'[Loop] = fib[Loop]
      BY <1>4, HolderFacts, LoopIsFiber DEF Fiber, Moves
    <2>2. fib[Loop].pc \notin {"saved"} \cup StartPC
      BY <2>1 DEF SInv, Calm
    <2>3. \A w \in Worker : fib'[w].pc \in BusyPC \cup {"idle", "term", "smoke",
                                                     "finish", "end"}
      BY <1>4, LoopIsFiber DEF Moves, Targets, SInv, Calm
    <2> QED BY <1>1, <1>2, <2>1, <2>2, <2>3 DEF SInv, Calm
  <1> QED BY <1>3, <1>4

LEMMA TurnKeepsTasks ==
  ASSUME TInv, SInv, NEW f \in Fiber, fib[f].pc \in HoldPC, NEW o \in StepObj,
         NEW p \in Targets(f), Turns(f, o, p), UNCHANGED <<sess, queue>>,
         Fit(p, o, git'[Cur(f).t]),
         p \in StartPC => fib[f].pc \in StartPC /\ UNCHANGED planStatus
  PROVE  Tasks'
  <1> DEFINE t == Cur(f).t
  <1>1. Busy(f) /\ t \in Step /\ ~Cur(f).stale /\ Len(fib[f].hold) = 1
    BY ObjectFacts
  <1>2. Live' = {} /\ (\A i \in DOMAIN queue' : ~News(i)')
    BY <1>1, HolderFacts DEF Live, News
  <1>3. step'[t] = o /\ \A u \in Step \ {t} : step'[u] = step[u]
    BY <1>1 DEF Turns, TInv, TypeOK
  <1>4. p \in HoldPC => Cur(f)' = Cur(f)
    BY DEF Turns, Cur
  <1>5. fib'[f].pc = p
    BY DEF Turns, Moves
  <1>6. Holds(f)'
    <2> SUFFICES ASSUME p \in HoldPC PROVE Holds(f)'
      BY <1>5 DEF Holds
    <2>1. Cur(f)' = Cur(f) /\ fib'[f].hold = fib[f].hold
      BY <1>4 DEF Turns
    <2>2. p \in StartPC => planStatus' = "executing"
      BY ObjectFacts
    <2> QED BY <1>1, <1>3, <1>5, <2>1, <2>2 DEF Holds
  <1>7. \A g \in Fiber : Holds(g)'
    <2>1. \A g \in Fiber \ {f} : fib'[g].pc \notin HoldPC
      BY <1>1, HolderFacts DEF Turns, Moves
    <2> QED BY <1>6, <2>1 DEF Holds
  <1>8. ASSUME NEW u \in Occupied' PROVE On(u)'
    <2>1. u = t
      BY <1>1, <1>3, <1>8, HolderFacts DEF Occupied
    <2>2. p \in HeldPC
      BY <1>3, <1>8, <2>1 DEF Occupied, Fit
    <2>3. Cur(f)'.t = t
      BY <1>4, <2>2 DEF HeldPC, JudgePC, HoldPC
    <2> QED BY <1>5, <2>1, <2>2, <2>3 DEF On
  <1> QED BY <1>2, <1>7, <1>8 DEF Tasks

LEMMA TurnKeepsFacts ==
  ASSUME TInv, SInv, NEW f \in Fiber, fib[f].pc \in HoldPC, NEW o \in StepObj,
         NEW p \in Targets(f), Turns(f, o, p), Good(o, git'[Cur(f).t]),
         \A u \in Step \ {Cur(f).t} : git'[u].landed = git[u].landed,
         Obj(f).status = "done" => o.status = "done",
         closed' = closed \/ (closed' = closed \cup {Cur(f).t} /\ o.status = "done")
  PROVE  \A t \in Step : Fact(t)'
  <1>0. PICK t \in Step : t = Cur(f).t
    BY ObjectFacts
  <1>1. Obj(f) = step[t] /\ Unresolved(t) = {}
    BY <1>0, ObjectFacts
  <1>2. step'[t] = o /\ \A u \in Step \ {t} : step'[u] = step[u]
    BY <1>0 DEF Turns, TInv, TypeOK
  <1>3. \A u \in Step : step[u].status \in {"done", "skipped"}
                          => step'[u].status \in {"done", "skipped"}
    <2>1. step[t].status # "skipped"
      BY <1>1 DEF SInv, Fact, Good
    <2> QED BY <1>1, <1>2, <2>1
  <1>4. \A u \in Step : Unresolved(u)' \subseteq Unresolved(u)
    BY <1>3, PlanAssumption DEF Unresolved
  <1>5. ASSUME NEW u \in Step, u # t PROVE Fact(u)'
    <2>1. Fact(u) /\ step'[u] = step[u] /\ git'[u].landed = git[u].landed
      BY <1>0, <1>2, <1>5 DEF SInv
    <2>2. Good(step[u], git[u])' /\ (u \in closed' => step'[u].status = "done")
      BY <1>0, <1>5, <2>1 DEF Fact, Good
    <2> QED BY <1>4, <2>1, <2>2 DEF Fact
  <1>6. Fact(t)'
    <2>1. t \in closed' => o.status = "done"
      BY <1>0, <1>1 DEF SInv, Fact
    <2>2. Good(step[t], git[t])'
      BY <1>0, <1>2
    <2> QED BY <1>1, <1>2, <1>4, <2>1, <2>2 DEF Fact
  <1> QED BY <1>5, <1>6

LEMMA TurnKeepsEnding ==
  ASSUME TInv, SInv, NEW f \in Fiber, fib[f].pc \in HoldPC \cup {"failed", "fin"},
         NEW p \in Targets(f), Moves(f, p), UNCHANGED running,
         planStatus' \in {planStatus, "paused"}
  PROVE  ~Ending'
  <1>1. ~Ending
    BY NotEnding
  <1>2. p \notin {"smoke", "finish", "exited"}
    BY DEF Targets, BusyPC, HeldPC, JudgePC, StartPC
  <1>3. \A g \in Fiber : fib'[g].pc \in {"smoke", "finish", "exited"}
                           => fib'[g].pc = fib[g].pc
    BY <1>2 DEF Moves
  <1> QED BY <1>1, <1>3, LoopIsFiber DEF Ending, At

(* A fiber takes its step one await further, with the token in its hands.  *)
LEMMA HolderStep ==
  ASSUME TInv, SInv, NEW f \in Fiber, fib[f].pc \in HoldPC, NEW o \in StepObj,
         NEW p \in Targets(f), Turns(f, o, p), UNCHANGED <<sess, queue, running, booted>>,
         Fit(p, o, git'[Cur(f).t]), Good(o, git'[Cur(f).t]),
         \A u \in Step \ {Cur(f).t} : git'[u].landed = git[u].landed,
         Obj(f).status = "done" => o.status = "done",
         closed' = closed \/ (closed' = closed \cup {Cur(f).t} /\ o.status = "done"),
         planStatus' \in {planStatus, "paused"},
         f = Loop => UNCHANGED planStatus,
         p \in StartPC => fib[f].pc \in StartPC /\ UNCHANGED planStatus
  PROVE  SInv'
  <1>1. Busy(f) /\ Moves(f, p)
    BY ObjectFacts DEF Turns
  <1>2. Calm' /\ OneToken'
    BY <1>1, TurnKeepsCalm, TurnKeepsToken
  <1>3. Tasks'
    BY TurnKeepsTasks
  <1>4. \A t \in Step : Fact(t)'
    BY TurnKeepsFacts
  <1>5. ~Ending'
    BY <1>1, TurnKeepsEnding
  <1> QED BY <1>2, <1>3, <1>4, <1>5 DEF SInv

-----------------------------------------------------------------------------
(* startReadySteps() has one step to start, and returns after it.          *)
LEMMA StartEnds ==
  ASSUME TInv, SInv, NEW f \in Fiber, fib[f].pc \in StartPC \cup {"saved"}
  PROVE  /\ AfterStart(f) \in Targets(f) \ HoldPC
         /\ AfterStart(f) \notin BusyPC
         /\ AfterStart(f) \in {"check", "term"}
         /\ fib[f].pc # "saved" => StartNext(f) = AfterStart(f)
  <1>1. f = Loop => ~booted
    BY DEF SInv, Calm
  <1>2. /\ AfterStart(f) = IF f = Loop THEN "check" ELSE "term"
        /\ AfterStart(f) \notin HoldPC \cup BusyPC
    BY <1>1 DEF AfterStart, HoldPC, BusyPC, HeldPC, JudgePC, StartPC
  <1>3. fib[f].pc # "saved" => Len(fib[f].hold) = 1
    BY ObjectFacts DEF HoldPC, StartPC
  <1> QED BY <1>2, <1>3 DEF Targets, StartNext

(* A step that could not be started has failed.                            *)
LEMMA StartFails ==
  ASSUME TInv, SInv, NEW f \in Fiber, fib[f].pc \in StartPC,
         BecomeAndDrop(f, [Obj(f) EXCEPT !.status = "failed"], StartNext(f)),
         UNCHANGED <<planStatus, running, booted, sess, queue, git, closed>>
  PROVE  SInv'
  <1> DEFINE o == [Obj(f) EXCEPT !.status = "failed"]
             p == AfterStart(f)
             t == Cur(f).t
  <1>1. fib[f].pc \in HoldPC
    BY DEF HoldPC, StartPC
  <1>2. /\ Obj(f) \in StepObj /\ t \in Step
        /\ Good(Obj(f), git[t]) /\ Fit(fib[f].pc, Obj(f), git[t])
    BY <1>1, ObjectFacts
  <1>3. StartNext(f) = p /\ p \in Targets(f) /\ p \notin HoldPC /\ p \in {"check", "term"}
    BY StartEnds DEF StartPC
  <1>4. o \in StepObj /\ o.status = "failed" /\ o.attempt = Obj(f).attempt
    BY <1>2 DEF StepObj, Status
  <1> HIDE DEF o, p
  <1>5. Turns(f, o, p)
    BY <1>1, <1>3, HelperTurns DEF o
  <1>6. Fit(p, o, git'[t]) /\ Good(o, git'[t])
    BY <1>2, <1>3, <1>4
    DEF Fit, Good, HeldPC, JudgePC, StartPC
  <1>7. Obj(f).status # "done"
    BY <1>2 DEF Fit
  <1>8. p \notin StartPC
    BY <1>3 DEF StartPC
  <1> QED BY <1>1, <1>3, <1>4, <1>5, <1>6, <1>7, <1>8, HolderStep

LEMMA CreateKeeps ==
  ASSUME TInv, SInv, NEW f \in Fiber, CreateWorktree(f)
  PROVE  SInv'
  <1> DEFINE t == Cur(f).t
  <1>1. fib[f].pc \in StartPC /\ fib[f].pc \in HoldPC
    BY DEF CreateWorktree, At, StartPC, HoldPC
  <1>2. /\ Obj(f) \in StepObj /\ t \in Step
        /\ Good(Obj(f), git[t]) /\ Fit(fib[f].pc, Obj(f), git[t])
    BY <1>1, ObjectFacts
  <1>3. CASE BecomeAndDrop(f, [Obj(f) EXCEPT !.status = "failed"], StartNext(f))
             /\ UNCHANGED git
    BY <1>1, <1>3, StartFails DEF CreateWorktree
  <1>4. ASSUME NEW p \in {"spawn", "install"}, Goto(f, p), UNCHANGED step,
               \A u \in Step \ {t} : git'[u] = git[u],
               git'[t].landed = git[t].landed
        PROVE  SInv'
    <2>1. Turns(f, Obj(f), p)
      BY <1>1, <1>4, HelperTurns
    <2>2. p \in StartPC /\ p \in Targets(f)
      BY DEF StartPC, Targets, BusyPC
    <2>3. Fit(p, Obj(f), git'[t]) /\ Good(Obj(f), git'[t])
      BY <1>1, <1>2, <1>4 DEF Fit, Good, HeldPC, JudgePC, StartPC
    <2> QED BY <1>1, <1>2, <1>4, <2>1, <2>2, <2>3, HolderStep DEF CreateWorktree
  <1>5. CASE Goto(f, "spawn") /\ UNCHANGED <<step, git>>
    BY <1>4, <1>5
  <1>6. CASE /\ git' = [git EXCEPT ![t] =
                          [@ EXCEPT !.dir = TRUE, !.lock = "none",
                                    !.behind = git[t].ahead /\ git[t].behind,
                                    !.checked = git[t].ahead /\ git[t].checked]]
             /\ Goto(f, "install") /\ UNCHANGED step
    <2>1. git'[t].landed = git[t].landed /\ \A u \in Step \ {t} : git'[u] = git[u]
      BY <1>2, <1>6 DEF TInv, TypeOK, GitRec
    <2> QED BY <1>4, <1>6, <2>1
  <1> QED BY <1>3, <1>5, <1>6 DEF CreateWorktree

LEMMA InstallKeeps ==
  ASSUME TInv, SInv, NEW f \in Fiber, InstallDone(f)
  PROVE  SInv'
  <1> DEFINE t == Cur(f).t  o == [Obj(f) EXCEPT !.tree = TRUE]
  <1>1. fib[f].pc \in StartPC /\ fib[f].pc \in HoldPC
    BY DEF InstallDone, At, StartPC, HoldPC
  <1>2. /\ Obj(f) \in StepObj /\ t \in Step
        /\ Good(Obj(f), git[t]) /\ Fit(fib[f].pc, Obj(f), git[t])
    BY <1>1, ObjectFacts
  <1>3. o \in StepObj /\ o.status = Obj(f).status /\ o.attempt = Obj(f).attempt
    BY <1>2 DEF StepObj
  <1>4. git'[t].landed = git[t].landed /\ \A u \in Step \ {t} : git'[u] = git[u]
    BY <1>2 DEF InstallDone, TInv, TypeOK, GitRec
  <1>5. "spawn" \in StartPC /\ "spawn" \in Targets(f)
    BY DEF StartPC, Targets, BusyPC
  <1>6. Turns(f, o, "spawn")
    BY <1>1, HelperTurns DEF InstallDone
  <1>7. Fit("spawn", o, git'[t]) /\ Good(o, git'[t])
    BY <1>1, <1>2, <1>3, <1>4 DEF Fit, Good, HeldPC, JudgePC, StartPC
  <1> HIDE DEF o
  <1> QED BY <1>1, <1>2, <1>3, <1>4, <1>5, <1>6, <1>7, HolderStep DEF InstallDone

LEMMA SpawnFailsKeeps ==
  ASSUME TInv, SInv, NEW f \in Fiber, SpawnFails(f)
  PROVE  SInv'
  BY StartFails DEF SpawnFails, At, StartPC

-----------------------------------------------------------------------------
(* startSession() has returned: the token passes to the agent.             *)
LEMMA SpawnKeeps ==
  ASSUME TInv, SInv, NEW f \in Fiber, NEW s \in Session, SpawnAgent(f, s)
  PROVE  SInv'
  <1> DEFINE o == [Obj(f) EXCEPT !.status = "in-progress", !.session = s]
             p == AfterStart(f)
  <1>1. fib[f].pc \in StartPC /\ fib[f].pc \in HoldPC
    BY DEF SpawnAgent, At, StartPC, HoldPC
  <1>2. PICK t \in Step : t = Cur(f).t
    BY <1>1, ObjectFacts
  <1>3. /\ Obj(f) \in StepObj /\ Obj(f) = step[t] /\ Busy(f)
        /\ Good(Obj(f), git[t]) /\ Fit(fib[f].pc, Obj(f), git[t])
    BY <1>1, <1>2, ObjectFacts
  <1>4. /\ StartNext(f) = p /\ p \in Targets(f) /\ p \notin HoldPC
        /\ p \notin BusyPC /\ p \in {"check", "term"}
    BY <1>1, StartEnds DEF StartPC
  <1>5. /\ o \in StepObj /\ o.status = "in-progress"
        /\ o.attempt = Obj(f).attempt
    BY <1>3 DEF StepObj, Status
  <1> HIDE DEF o, p
  <1>6. Turns(f, o, p)
    BY <1>1, <1>4, HelperTurns DEF SpawnAgent, o
  <1>7. step'[t] = o /\ \A u \in Step \ {t} : step'[u] = step[u]
    BY <1>2, <1>6 DEF Turns, TInv, TypeOK
  <1>8. sess'[s] = [st |-> "live", t |-> t] /\ \A r \in Session \ {s} : sess'[r] = sess[r]
    BY <1>2 DEF SpawnAgent, TInv, TypeOK
  <1>9. Live' = {s}
    <2>1. Live = {}
      BY <1>3, HolderFacts
    <2> QED BY <1>8, <2>1 DEF Live
  <1>10. (\A g \in Fiber : ~Busy(g)' /\ fib'[g].pc \notin HoldPC)
         /\ \A i \in DOMAIN queue' : ~News(i)'
    <2>1. /\ \A i \in DOMAIN queue : ~News(i)
          /\ \A g \in Fiber \ {f} : ~Busy(g) /\ fib[g].pc \notin HoldPC
      BY <1>3, HolderFacts
    <2>2. queue' = queue
      BY DEF SpawnAgent
    <2> QED BY <1>4, <1>6, <2>1, <2>2 DEF Turns, Moves, Busy, News
  <1>11. Calm'
    <2>1. /\ \A i \in DOMAIN queue' : queue'[i].type \in {"agent_completed", "verification_done"}
          /\ UNCHANGED <<booted, planStatus>>
      BY DEF SpawnAgent, SInv, Calm
    <2>2. \A r \in Session : sess'[r].st # "stopping"
      BY <1>8 DEF SInv, Calm
    <2>3. Live' \subseteq mapped'
      BY <1>9 DEF SpawnAgent
    <2>4. CASE f = Loop
      <3>1. fib'[Loop].pc = "check" /\ \A w \in Worker : fib'[w] = fib[w]
        BY <1>4, <1>6, <2>4, LoopIsFiber DEF Turns, Moves, Targets, StartPC
      <3> QED BY <2>1, <2>2, <2>3, <3>1 DEF SInv, Calm, StartPC
    <2>5. CASE f # Loop
      <3>1. /\ f \in Worker /\ booted /\ fib'[Loop] = fib[Loop] /\ fib'[f].pc = "term"
            /\ \A w \in Worker \ {f} : fib'[w] = fib[w]
        BY <1>3, <1>4, <1>6, <2>5, HolderFacts, LoopIsFiber
        DEF Fiber, Turns, Moves, Targets, BusyPC
      <3> QED BY <2>1, <2>2, <2>3, <3>1 DEF SInv, Calm
    <2> QED BY <2>4, <2>5
  <1>12. OneToken'
    BY <1>9, <1>10 DEF OneToken
  <1>13. Tasks'
    <2>1. \A r \in Live' : step'[sess'[r].t].status = "in-progress"
      BY <1>5, <1>7, <1>8, <1>9
    <2>2. ASSUME NEW u \in Occupied' PROVE On(u)'
      <3>1. \A v \in Occupied : FALSE
        BY <1>1, <1>3, HolderFacts DEF StartPC, HeldPC, JudgePC
      <3>2. u = t
        BY <1>7, <2>2, <3>1 DEF Occupied
      <3> QED BY <1>8, <1>9, <3>2 DEF On
    <2> QED BY <1>10, <2>1, <2>2 DEF Tasks, Holds
  <1>14. \A u \in Step : Fact(u)'
    <2>1. Good(o, git'[t])
      BY <1>2, <1>3, <1>5 DEF Good, SpawnAgent
    <2>2. \A u \in Step \ {t} : git'[u].landed = git[u].landed
      BY <1>2 DEF SpawnAgent, TInv, TypeOK
    <2>3. Obj(f).status # "done"
      BY <1>1, <1>3 DEF Fit
    <2> QED BY <1>1, <1>2, <1>4, <1>5, <1>6, <2>1, <2>2, <2>3, TurnKeepsFacts
            DEF SpawnAgent
  <1>15. ~Ending'
    BY <1>1, <1>4, <1>6, TurnKeepsEnding DEF Turns, SpawnAgent
  <1> QED BY <1>11, <1>12, <1>13, <1>14, <1>15 DEF SInv

(* Nothing is in progress or under verification where a fiber holds        *)
(* nothing.                                                                *)
LEMMA NoneOccupied ==
  ASSUME TInv, SInv, NEW f \in Fiber, Busy(f), fib[f].pc \notin HeldPC
  PROVE  Occupied = {}
  BY HolderFacts

(* What the steps are is not touched.                                      *)
LEMMA FactsStay ==
  ASSUME SInv, UNCHANGED <<step, closed>>,
         \A t \in Step : git'[t].landed = git[t].landed
  PROVE  \A t \in Step : Fact(t)'
  <1>1. \A t \in Step : Fact(t)
    BY DEF SInv
  <1>2. \A t \in Step : Unresolved(t)' = Unresolved(t)
    BY DEF Unresolved
  <1> QED BY <1>1, <1>2 DEF Fact, Good

LEMMA OverStays ==
  ASSUME SInv, UNCHANGED step, AtWork' = AtWork, Ending' => Ending
  PROVE  Ending' => AllOver'
  <1>1. AllOver => AllOver'
    BY DEF AllOver, AtWork
  <1> QED BY <1>1 DEF SInv

(* Fiber f lets go of the plan.                                            *)
LEMMA HolderLetsGo ==
  ASSUME TInv, SInv, NEW f \in Fiber, Busy(f), fib[f].pc \notin HeldPC,
         NEW p \in {"check", "term"}, p \in Targets(f), Moves(f, p), AtWork' = AtWork,
         UNCHANGED <<planStatus, running, booted, step, sess, queue, git, closed>>
  PROVE  SInv'
  <1>1. Calm' /\ OneToken'
    BY TurnKeepsCalm, TurnKeepsToken
  <1>2. Tasks'
    <2>1. /\ Live' = {} /\ (\A i \in DOMAIN queue' : ~News(i)')
          /\ Occupied' = {}
      BY HolderFacts, NoneOccupied DEF Live, News, Occupied
    <2>2. \A g \in Fiber : fib'[g].pc \notin HoldPC
      BY HolderFacts DEF Moves, HoldPC
    <2> QED BY <2>1, <2>2 DEF Tasks, Holds
  <1>3. Ending' => Ending
    BY LoopIsFiber DEF Moves, Ending, At
  <1> QED BY <1>1, <1>2, <1>3, FactsStay, OverStays DEF SInv

(* One step is chosen, for there is one agent.                             *)
LEMMA OneToStart ==
  ASSUME Alone, Occupied = {}, Ready # {}, NEW q \in StartLists
  PROVE  /\ DOMAIN q = 1..1 /\ q[1] \in Ready
  <1> DEFINE k == Cardinality(Ready)
             free == MaxAgents - Cardinality(Occupied)
             n == IF free < k THEN free ELSE k
  <1>1. IsFiniteSet(Ready)
    <2>1. Ready \subseteq Step
      BY DEF Ready
    <2> QED BY <2>1, PlanAssumption, FS_Subset
  <1>2. k \in Nat /\ k # 0
    BY <1>1, FS_CardinalityType, FS_EmptySet
  <1>3. free = 1
    BY FS_EmptySet DEF Alone
  <1>4. n = 1
    BY <1>2, <1>3
  <1>5. q \in [1..n -> Ready]
    BY DEF StartLists
  <1> QED BY <1>4, <1>5

LEMMA StartReadyKeeps ==
  ASSUME Alone, TInv, SInv, NEW f \in Fiber, StartReadySteps(f)
  PROVE  SInv'
  <1>1. fib[f].pc = "saved" /\ Busy(f) /\ fib[f].pc \notin HeldPC
    BY DEF StartReadySteps, At, Busy, BusyPC, HeldPC, JudgePC, StartPC
  <1>2. Occupied = {} /\ AtWork' = AtWork
    BY <1>1, NoneOccupied, RecomputeStays DEF RecomputeStep, SameWork
  <1>3. ASSUME Goto(f, AfterStart(f)) PROVE SInv'
    BY <1>1, <1>2, <1>3, GotoMoves, StartEnds, HolderLetsGo DEF StartReadySteps
  <1>4. ASSUME ~MayStart(f), Goto(f, "term") PROVE SInv'
    <2>1. f # Loop
      BY <1>1, <1>4 DEF MayStart, SInv, Calm
    <2> QED BY <1>1, <1>2, <1>4, <2>1, GotoMoves, HolderLetsGo
            DEF StartReadySteps, Targets
  <1>5. ASSUME MayStart(f), Ready # {}, NEW q \in StartLists,
               fib' = [fib EXCEPT ![f].pc = "create",
                         ![f].hold = [i \in DOMAIN q |-> Ref(q[i])]]
        PROVE  SInv'
    <2>1. DOMAIN q = 1..1 /\ q[1] \in Ready
      BY <1>2, <1>5, OneToStart
    <2> DEFINE h == [i \in 1..1 |-> Ref(q[1])]
    <2>2. [i \in DOMAIN q |-> Ref(q[i])] = h
      BY <2>1
    <2>3. q[1] \in Step /\ step[q[1]].status = "ready"
      BY <2>1 DEF Ready
    <2>4. Len(h) = 1 /\ Head(h) = Ref(q[1])
      <3>1. Ref(q[1]) \in Entry
        BY <2>3, RefType
      <3>2. h \in Seq(Entry) /\ h[1] = Ref(q[1]) /\ Len(h) = 1
        BY <3>1
      <3> QED BY <3>2
    <2> HIDE DEF h
    <2>5. fib'[f].pc = "create" /\ fib'[f].hold = h /\ Moves(f, "create")
      BY <1>5, <2>2 DEF TInv, TypeOK, FiberRec, Moves
    <2>6. /\ Cur(f)'.t = q[1] /\ ~Cur(f)'.stale
      BY <2>4, <2>5 DEF Cur, Ref
    <2>7. planStatus = "executing"
      BY <1>1, <1>5 DEF MayStart, SInv, Calm
    <2>8. "create" \in Targets(f)
      BY DEF Targets, StartPC, BusyPC
    <2>9. Calm' /\ OneToken'
      BY <1>1, <2>5, <2>8, TurnKeepsCalm, TurnKeepsToken DEF StartReadySteps
    <2>10. Holds(f)'
      <3>1. Fit("create", step[q[1]], git'[q[1]])
        BY <2>3 DEF Fit, HeldPC, JudgePC, StartPC
      <3> QED BY <2>4, <2>5, <2>6, <2>7, <3>1 DEF Holds, StartReadySteps
    <2>11. Tasks'
      <3>1. /\ Live' = {} /\ (\A i \in DOMAIN queue' : ~News(i)')
            /\ Occupied' = {}
        BY <1>1, <1>2, HolderFacts DEF Live, News, Occupied, StartReadySteps
      <3>2. \A g \in Fiber \ {f} : fib'[g].pc \notin HoldPC
        BY <1>1, <2>5, HolderFacts DEF Moves
      <3> QED BY <2>10, <3>1, <3>2 DEF Tasks, Holds
    <2>12. Ending' => Ending
      BY <2>5, LoopIsFiber DEF Moves, Ending, At, StartReadySteps
    <2> QED BY <1>2, <2>9, <2>11, <2>12, FactsStay, OverStays
            DEF SInv, StartReadySteps
  <1> QED BY <1>3, <1>4, <1>5 DEF StartReadySteps

(* recomputePlan() in a worker: nothing is in progress, and what waits is  *)
(* ready or blocked as the steps that are done say.                        *)
LEMMA RecomputeKeeps ==
  ASSUME TInv, SInv, NEW f \in Fiber, Recompute(f)
  PROVE  SInv'
  <1>1. fib[f].pc = "load" /\ Busy(f) /\ fib[f].pc \notin HeldPC /\ f \in Worker
    BY DEF Recompute, At, Busy, BusyPC, HeldPC, JudgePC, StartPC, SInv, Calm, Fiber
  <1>2. Occupied = {} /\ AtWork' = AtWork
    BY <1>1, NoneOccupied, RecomputeStays DEF RecomputeStep, SameWork
  <1>3. \A g \in Fiber : fib'[g].pc = IF g = f THEN "saved" ELSE fib[g].pc
    BY DEF Recompute, TInv, TypeOK, FiberRec
  <1>4. ASSUME NEW t \in Step
        PROVE  /\ step'[t] \in StepObj /\ step'[t].attempt = step[t].attempt
               /\ Sticky(step[t].status) => step'[t] = step[t]
               /\ ~Sticky(step[t].status) =>
                    step'[t].status = IF Unresolved(t) = {} THEN "ready" ELSE "blocked"
    <2>1. t \in closed => Sticky(step[t].status)
      BY DEF SInv, Fact, Sticky
    <2>2. step[t] \in StepObj
      BY DEF TInv, TypeOK
    <2>3. CASE Sticky(step[t].status)
      BY <2>2, <2>3 DEF Recompute
    <2>4. CASE ~Sticky(step[t].status)
      <3>1. step'[t] = [step[t] EXCEPT !.status =
                          IF Unresolved(t) = {} THEN "ready" ELSE "blocked"]
        BY <2>1, <2>4 DEF Recompute
      <3> QED BY <2>2, <2>4, <3>1 DEF StepObj, Status
    <2> QED BY <2>3, <2>4
  <1>5. \A t \in Step : /\ step'[t].status \in {"done", "skipped"}
                             <=> step[t].status \in {"done", "skipped"}
                        /\ step'[t].status = "done" <=> step[t].status = "done"
    BY <1>4 DEF Sticky
  <1>6. \A t \in Step : Unresolved(t)' = Unresolved(t)
    <2>1. closed' = closed
      BY DEF Recompute
    <2> QED BY <1>5, <2>1, PlanAssumption DEF Unresolved
  <1>7. \A t \in Step : Fact(t)'
    <2> SUFFICES ASSUME NEW t \in Step PROVE Fact(t)'
      OBVIOUS
    <2>1. Fact(t) /\ UNCHANGED <<git, closed>>
      BY DEF SInv, Recompute
    <2>2. step'[t].status # "skipped"
      BY <1>4, <2>1 DEF Fact, Good
    <2>3. step'[t].status # "blocked" => Unresolved(t) = {}
      BY <1>4, <2>1 DEF Fact, Sticky
    <2>4. t \in closed' => step'[t].status = "done"
      BY <1>5, <2>1 DEF Fact
    <2> QED BY <1>4, <1>5, <1>6, <2>1, <2>2, <2>3, <2>4 DEF Fact, Good
  <1>8. /\ Live' = {} /\ (\A i \in DOMAIN queue' : ~News(i)')
        /\ \A g \in Fiber : fib'[g].pc \notin HoldPC
    <2>1. Live' = {} /\ (\A i \in DOMAIN queue' : ~News(i)')
      <3>1. sess' = sess /\ queue' = queue
        BY DEF Recompute
      <3> QED BY <1>1, <3>1, HolderFacts DEF Live, News
    <2>2. ASSUME NEW g \in Fiber PROVE fib'[g].pc \notin HoldPC
      <3>1. CASE g = f
        BY <1>3, <3>1 DEF HoldPC
      <3>2. CASE g # f
        BY <1>1, <1>3, <3>2, HolderFacts
      <3> QED BY <3>1, <3>2
    <2> QED BY <2>1, <2>2
  <1>9. Calm'
    <2>1. /\ booted /\ Loop # f /\ Live' \subseteq mapped'
          /\ UNCHANGED <<planStatus, booted, queue, sess>>
      BY <1>1, <1>8, HolderFacts, LoopIsFiber DEF Recompute
    <2>2. fib'[Loop].pc = fib[Loop].pc
      BY <1>3, <2>1, LoopIsFiber
    <2>3. \A w \in Worker : fib'[w].pc \in BusyPC \cup {"idle", "term", "smoke",
                                                     "finish", "end"}
      BY <1>3, LoopIsFiber DEF SInv, Calm, BusyPC
    <2> QED BY <2>1, <2>2, <2>3 DEF SInv, Calm
  <1>10. OneToken'
    <2>1. \A g \in Fiber \ {f} : ~Busy(g)'
      BY <1>1, <1>3, HolderFacts DEF Busy
    <2> QED BY <1>8, <2>1 DEF OneToken
  <1>11. Tasks'
    <2>1. Occupied' = {}
      BY <1>2, <1>4 DEF Occupied, Sticky
    <2> QED BY <1>8, <2>1 DEF Tasks, Holds
  <1>12. Ending' => AllOver'
    <2>1. Ending' => Ending
      <3>1. planStatus' = planStatus /\ running' = running
        BY DEF Recompute
      <3>2. \A g \in Fiber : fib'[g].pc \in {"exited", "smoke", "finish"}
                               => fib'[g].pc = fib[g].pc
        BY <1>3
      <3> QED BY <3>1, <3>2, LoopIsFiber DEF Ending, At
    <2>2. AllOver => AllOver'
      <3>1. \A t \in Step : step[t].status \in TerminalStatus => step'[t] = step[t]
        BY <1>4 DEF Sticky, TerminalStatus
      <3> QED BY <1>2, <3>1 DEF AllOver, AtWork
    <2> QED BY <2>1, <2>2 DEF SInv
  <1> QED BY <1>7, <1>9, <1>10, <1>11, <1>12 DEF SInv

-----------------------------------------------------------------------------
(* What is added to the queue, and is no news of an agent, changes nothing *)
(* for the news that is in it.                                             *)
OtherEvent(e) == e.type = "verification_done"

LEMMA OtherAppended ==
  ASSUME TInv, SInv, NEW e \in Event, OtherEvent(e), queue' = Append(queue, e)
  PROVE  /\ \A i \in DOMAIN queue' : News(i)' => i \in DOMAIN queue /\ News(i)
                                                 /\ queue'[i] = queue[i]
         /\ \A i \in DOMAIN queue : i \in DOMAIN queue' /\ queue'[i] = queue[i]
         /\ \A i \in DOMAIN queue' : queue'[i].type \in {"agent_completed", "verification_done"}
  <1>1. queue \in Seq(Event)
    BY DEF TInv, TypeOK
  <1>2. /\ DOMAIN queue' = 1..Len(queue)+1 /\ DOMAIN queue = 1..Len(queue)
        /\ Len(queue) \in Nat /\ queue'[Len(queue)+1] = e
        /\ \A i \in 1..Len(queue) : queue'[i] = queue[i]
    BY <1>1
  <1> QED BY <1>2 DEF OtherEvent, News, SInv, Calm

(* A worker that is through with the plan goes on.                         *)
LEMMA WorkerRests ==
  ASSUME TInv, SInv, NEW f \in Worker, fib[f].pc \in {"term", "smoke", "finish", "end"},
         NEW p \in {"smoke", "finish", "end", "idle"}, Moves(f, p),
         UNCHANGED <<booted, step, sess, mapped, git, closed>>,
         planStatus' = planStatus \/ Ending,
         \/ queue' = queue
         \/ \E e \in Event : OtherEvent(e) /\ queue' = Append(queue, e),
         Ending' => AllOver'
  PROVE  SInv'
  <1>1. f \in Fiber /\ f # Loop /\ booted
    BY LoopIsFiber DEF SInv, Calm
  <1>2. /\ \A i \in DOMAIN queue' : News(i)' => i \in DOMAIN queue /\ News(i)
                                                 /\ queue'[i] = queue[i]
        /\ \A i \in DOMAIN queue : i \in DOMAIN queue' /\ queue'[i] = queue[i]
        /\ \A i \in DOMAIN queue' : queue'[i].type \in {"agent_completed", "verification_done"}
    <2>1. CASE queue' = queue
      BY <2>1 DEF News, SInv, Calm
    <2>2. ASSUME NEW e \in Event, OtherEvent(e), queue' = Append(queue, e) PROVE <1>2!:
      BY <2>2, OtherAppended
    <2> QED BY <2>1, <2>2
  <1>3. /\ ~Busy(f) /\ ~Busy(f)' /\ fib'[f].pc \notin HoldPC /\ fib[f].pc \notin HeldPC
        /\ \A g \in Fiber \ {f} : fib'[g] = fib[g]
    BY <1>1 DEF Moves, Busy, BusyPC, HeldPC, JudgePC, StartPC, HoldPC
  <1>4. \A g \in Fiber : Busy(g)' => Busy(g)
    BY <1>3 DEF Busy
  <1>5. Calm'
    <2>1. fib'[Loop] = fib[Loop]
      BY <1>1, <1>3, LoopIsFiber
    <2>2. fib[Loop].pc \notin {"saved"} \cup StartPC
      BY <1>1 DEF SInv, Calm
    <2>3. \A w \in Worker : fib'[w].pc \in BusyPC \cup {"idle", "term", "smoke",
                                                     "finish", "end"}
      BY <1>3, LoopIsFiber DEF Moves, SInv, Calm
    <2> QED BY <1>1, <1>2, <2>1, <2>2, <2>3 DEF SInv, Calm, Live
  <1>6. OneToken'
    <2>1. Live' = Live
      BY DEF Live
    <2>2. \A g, h \in Fiber : Busy(g)' /\ Busy(h)' => g = h
      BY <1>4 DEF SInv, OneToken
    <2>3. \A i, j \in DOMAIN queue' : News(i)' /\ News(j)' => i = j
      BY <1>2 DEF SInv, OneToken
    <2>4. \A g \in Fiber : Busy(g)' => Live' = {} /\ \A i \in DOMAIN queue' : ~News(i)'
      BY <1>2, <1>4, <2>1 DEF SInv, OneToken
    <2>5. Live' # {} => \A i \in DOMAIN queue' : ~News(i)'
      BY <1>2, <2>1 DEF SInv, OneToken
    <2>6. \A s, r \in Live' : s = r
      BY <2>1 DEF SInv, OneToken
    <2> QED BY <2>2, <2>3, <2>4, <2>5, <2>6 DEF OneToken
  <1>7. Tasks'
    <2>1. \A s \in Live' : step'[sess'[s].t].status = "in-progress"
      BY DEF Live, SInv, Tasks
    <2>2. \A i \in DOMAIN queue' : News(i)' => step'[queue'[i].t].status = "in-progress"
      BY <1>2 DEF SInv, Tasks
    <2>3. ASSUME NEW g \in Fiber, fib'[g].pc \in HoldPC PROVE Holds(g)'
      <3>1. fib'[g] = fib[g] /\ fib[g].pc \in HoldPC
        BY <1>3, <2>3
      <3>2. planStatus' = planStatus
        BY <3>1, NotEnding
      <3>3. Holds(g)
        BY DEF SInv, Tasks
      <3> QED BY <3>1, <3>2, <3>3 DEF Holds, Cur
    <2>4. ASSUME NEW u \in Occupied' PROVE On(u)'
      <3>1. On(u)
        BY <2>4 DEF Occupied, SInv, Tasks
      <3>2. ASSUME NEW s \in Live, sess[s].t = u PROVE On(u)'
        BY <3>2 DEF On, Live
      <3>3. ASSUME NEW i \in DOMAIN queue, News(i), queue[i].t = u PROVE On(u)'
        <4>1. i \in DOMAIN queue' /\ queue'[i] = queue[i]
          BY <1>2
        <4> QED BY <3>3, <4>1 DEF On, News
      <3>4. ASSUME NEW g \in Fiber, fib[g].pc \in HeldPC, Cur(g).t = u PROVE On(u)'
        <4>1. fib'[g] = fib[g]
          BY <1>3, <3>4
        <4> QED BY <3>4, <4>1 DEF On, Cur
      <3> QED BY <3>1, <3>2, <3>3, <3>4 DEF On
    <2> QED BY <2>1, <2>2, <2>3, <2>4 DEF Tasks, Holds
  <1>8. \A t \in Step : Fact(t)'
    BY FactsStay
  <1> QED BY <1>5, <1>6, <1>7, <1>8 DEF SInv

(* isPlanTerminal() says the truth, for the handlers are counted.          *)
LEMMA TerminalIsOver ==
  ASSUME CInv, IsPlanTerminal
  PROVE  AllOver
  <1>1. active = Cardinality(AtWork) /\ active <= 0
    BY DEF CInv, VerificationsCounted, AtWork, IsPlanTerminal
  <1>2. Cardinality(AtWork) = 0
    BY <1>1, WorkFinite
  <1>3. AtWork = {}
    BY <1>2, WorkFinite, FS_EmptySet
  <1> QED BY <1>3 DEF AtWork, AllOver, IsPlanTerminal

LEMMA AllOverStays ==
  ASSUME AllOver, UNCHANGED step, AtWork' = AtWork
  PROVE  AllOver'
  BY DEF AllOver, AtWork

LEMMA EndKeeps ==
  ASSUME CInv, SInv, NEW f \in Fiber,
         TestComplete(f) \/ SmokeTestDone(f) \/ FinishPlan(f) \/ EndRecompute(f)
  PROVE  SInv'
  <1> USE DEF CInv
  <1>1. fib[f].pc \in {"term", "smoke", "finish", "end"}
    BY DEF TestComplete, SmokeTestDone, FinishPlan, EndRecompute, At
  <1>2. f \in Worker /\ f # Loop
    BY <1>1, LoopIsFiber DEF SInv, Calm, Fiber, StartPC
  <1>3. AtWork' = AtWork
    BY RecomputeStays DEF RecomputeStep, SameWork
  <1>4. fib[f].pc \in {"smoke", "finish"} => Ending
    BY <1>2 DEF Ending
  <1>5. Ending => AllOver
    BY DEF SInv
  <1>6. CASE TestComplete(f)
    <2> DEFINE p == IF ShouldExitLoop THEN "smoke" ELSE "end"
    <2>1. Moves(f, p) /\ p \in {"smoke", "finish", "end", "idle"}
      BY <1>6, GotoMoves DEF TestComplete
    <2>2. Ending' => Ending \/ ShouldExitLoop
      BY <1>2, <1>6, <2>1, LoopIsFiber DEF TestComplete, Ending, At, Moves
    <2>3. Ending' => AllOver'
      BY <1>3, <1>5, <1>6, <2>2, TerminalIsOver, AllOverStays
      DEF TestComplete, ShouldExitLoop
    <2> HIDE DEF p
    <2> QED BY <1>1, <1>2, <1>6, <2>1, <2>3, WorkerRests DEF TestComplete
  <1>7. CASE SmokeTestDone(f)
    <2>1. Moves(f, "finish") /\ Ending
      BY <1>4, <1>7, GotoMoves DEF SmokeTestDone, At
    <2>2. AllOver'
      BY <1>3, <1>5, <1>7, <2>1, AllOverStays DEF SmokeTestDone
    <2> QED BY <1>1, <1>2, <1>7, <2>1, <2>2, WorkerRests DEF SmokeTestDone
  <1>8. CASE FinishPlan(f)
    <2>1. Moves(f, "end") /\ Ending
      BY <1>4, <1>8, GotoMoves DEF FinishPlan, At
    <2>2. AllOver'
      BY <1>3, <1>5, <1>8, <2>1, AllOverStays DEF FinishPlan
    <2> QED BY <1>1, <1>2, <1>8, <2>1, <2>2, WorkerRests DEF FinishPlan
  <1>9. CASE EndRecompute(f)
    <2> DEFINE e == [type |-> "verification_done", t |-> StepSeq[1], sid |-> NoSession]
    <2>1. Moves(f, "idle")
      BY <1>2, <1>9 DEF EndRecompute, Moves, IdleFiber, TInv, TypeOK
    <2>2. e \in Event /\ OtherEvent(e) /\ queue' = Append(queue, e)
      BY <1>2, <1>9, FirstStep DEF EndRecompute, Event, OtherEvent
    <2> HIDE DEF e
    <2>3. Ending' => Ending
      BY <1>2, <1>9, <2>1, LoopIsFiber DEF EndRecompute, Ending, At, Moves
    <2>4. Ending' => AllOver'
      BY <1>3, <1>5, <1>9, <2>3, AllOverStays DEF EndRecompute
    <2> QED BY <1>1, <1>2, <1>9, <2>1, <2>2, <2>4, WorkerRests DEF EndRecompute
  <1> QED BY <1>6, <1>7, <1>8, <1>9

LEMMA RecomputeStepKeeps ==
  ASSUME Alone, CInv, SInv, NEW f \in Fiber, RecomputeStep(f)
  PROVE  SInv'
  BY RecomputeKeeps, StartReadyKeeps, CreateKeeps, InstallKeeps, SpawnKeeps,
     SpawnFailsKeeps, EndKeeps DEF RecomputeStep, CInv

-----------------------------------------------------------------------------
(* A completion handler goes one await further.                            *)
LEMMA HandlerTurn ==
  ASSUME TInv, SInv, NEW w \in Worker, fib[w].pc \in HoldPC, NEW o \in StepObj,
         NEW p \in BusyPC \ StartPC, Turns(w, o, p),
         UNCHANGED <<sess, queue, running, booted>>,
         Fit(p, o, git'[Cur(w).t]), Good(o, git'[Cur(w).t]),
         \A u \in Step \ {Cur(w).t} : git'[u].landed = git[u].landed,
         Obj(w).status = "done" => o.status = "done",
         closed' = closed \/ (closed' = closed \cup {Cur(w).t} /\ o.status = "done"),
         planStatus' \in {planStatus, "paused"}
  PROVE  SInv'
  <1>1. w \in Fiber /\ w # Loop /\ p \in Targets(w)
    BY LoopIsFiber DEF Targets
  <1> QED BY <1>1, HolderStep

(* What the handler's object becomes.                                      *)
LEMMA Assigned ==
  ASSUME NEW o \in StepObj
  PROVE  /\ \A st \in Status : /\ [o EXCEPT !.status = st] \in StepObj
                               /\ [o EXCEPT !.status = st].status = st
                               /\ [o EXCEPT !.status = st].attempt = o.attempt
         /\ LET r == [o EXCEPT !.tree = FALSE] IN
              r \in StepObj /\ r.status = o.status /\ r.attempt = o.attempt
         /\ LET r == [Reset(o) EXCEPT !.conflict = TRUE] IN
              r \in StepObj /\ r.status = "ready" /\ r.attempt = o.attempt
         /\ LET r == [Reset(o) EXCEPT !.attempt = @ + 1] IN
              r \in StepObj /\ r.status = "ready" /\ r.attempt = o.attempt + 1
         /\ MoreRebases(o) =>
              LET r == [o EXCEPT !.rebases = @ + 1] IN
              r \in StepObj /\ r.status = o.status /\ r.attempt = o.attempt
  <1>1. \A st \in Status : [o EXCEPT !.status = st] \in StepObj
    BY ObjectTypes
  <1>2. /\ [o EXCEPT !.tree = FALSE] \in StepObj
        /\ [Reset(o) EXCEPT !.conflict = TRUE] \in StepObj
        /\ [Reset(o) EXCEPT !.attempt = @ + 1] \in StepObj
        /\ (MoreRebases(o) => [o EXCEPT !.rebases = @ + 1] \in StepObj)
    BY ObjectTypes
  <1>3. \A st \in Status : /\ [o EXCEPT !.status = st].status = st
                           /\ [o EXCEPT !.status = st].attempt = o.attempt
    BY DEF StepObj
  <1>4. /\ [o EXCEPT !.tree = FALSE].status = o.status
        /\ [o EXCEPT !.tree = FALSE].attempt = o.attempt
        /\ [o EXCEPT !.rebases = @ + 1].status = o.status
        /\ [o EXCEPT !.rebases = @ + 1].attempt = o.attempt
    BY DEF StepObj
  <1>5. /\ Reset(o) \in StepObj /\ Reset(o).status = "ready"
        /\ Reset(o).attempt = o.attempt
    BY DEF Reset, StepObj, Status
  <1>6. /\ [Reset(o) EXCEPT !.conflict = TRUE].status = "ready"
        /\ [Reset(o) EXCEPT !.conflict = TRUE].attempt = o.attempt
        /\ [Reset(o) EXCEPT !.attempt = @ + 1].status = "ready"
        /\ [Reset(o) EXCEPT !.attempt = @ + 1].attempt = o.attempt + 1
    <2> DEFINE r == Reset(o)
    <2> HIDE DEF r
    <2>1. r \in StepObj /\ r.status = "ready" /\ r.attempt = o.attempt
      BY <1>5 DEF r
    <2>2. /\ [r EXCEPT !.conflict = TRUE].status = "ready"
          /\ [r EXCEPT !.conflict = TRUE].attempt = o.attempt
          /\ [r EXCEPT !.attempt = @ + 1].status = "ready"
          /\ [r EXCEPT !.attempt = @ + 1].attempt = o.attempt + 1
      BY <2>1 DEF StepObj
    <2> QED BY <2>2 DEF r
  <1> QED BY <1>1, <1>2, <1>3, <1>4, <1>6

(* A handler that has failed, or is over, has let go of the step.          *)
LEMMA HandlerMovesOn ==
  ASSUME TInv, SInv, NEW w \in Worker, fib[w].pc \in {"failed", "fin"},
         NEW p \in {"fin", "load"}, Moves(w, p),
         UNCHANGED <<running, booted, step, sess, mapped, queue, git, closed>>,
         planStatus' \in {planStatus, "paused"}
  PROVE  SInv'
  <1>1. /\ w \in Fiber /\ w # Loop /\ p \in Targets(w) /\ Busy(w)
        /\ fib[w].pc \notin HeldPC /\ p \notin HoldPC
    BY LoopIsFiber DEF Targets, Busy, BusyPC, HeldPC, JudgePC, HoldPC
  <1>2. Calm' /\ OneToken'
    BY <1>1, TurnKeepsCalm, TurnKeepsToken
  <1>3. Tasks'
    <2>1. /\ Live' = {} /\ (\A i \in DOMAIN queue' : ~News(i)')
          /\ Occupied' = {}
      BY <1>1, HolderFacts, NoneOccupied DEF Live, News, Occupied
    <2>2. \A g \in Fiber : fib'[g].pc \notin HoldPC
      BY <1>1, HolderFacts DEF Moves
    <2> QED BY <2>1, <2>2 DEF Tasks, Holds
  <1>4. ~Ending'
    BY <1>1, TurnKeepsEnding
  <1> QED BY <1>2, <1>3, <1>4, FactsStay DEF SInv

LEMMA FailureKeeps ==
  ASSUME TInv, SInv, NEW w \in Worker, PauseAfterFailure(w) \/ VerificationOver(w)
  PROVE  SInv'
  <1>1. w \in Fiber
    BY LoopIsFiber
  <1>2. CASE PauseAfterFailure(w)
    BY <1>1, <1>2, GotoMoves, HandlerMovesOn DEF PauseAfterFailure, At
  <1>3. CASE VerificationOver(w)
    <2>1. Moves(w, "load")
      BY <1>1, <1>3 DEF VerificationOver, Moves, IdleFiber, TInv, TypeOK
    <2> QED BY <1>3, <2>1, HandlerMovesOn DEF VerificationOver, At
  <1> QED BY <1>2, <1>3

(* What the handlers do to the branches.                                   *)
LEMMA BranchFacts ==
  ASSUME TInv, NEW t \in Step
  PROVE  /\ Landed(t)[t].landed = (git[t].landed \/ git[t].ahead)
         /\ ~Landed(t)[t].ahead
         /\ \A u \in Step \ {t} : Landed(t)[u].landed = git[u].landed
         /\ ~Discarded(t)[t].tracked
         /\ \A u \in Step : Discarded(t)[u].landed = git[u].landed
         /\ \A c \in BOOLEAN :
              LET g == [git EXCEPT ![t].checked = c] IN
              /\ \A u \in Step : g[u].landed = git[u].landed
              /\ g[t].ahead = git[t].ahead /\ g[t].checked = c
  <1>1. git \in [Step -> GitRec]
    BY DEF TInv, TypeOK
  <1>2. /\ Landed(t)[t].landed = (git[t].landed \/ git[t].ahead)
        /\ ~Landed(t)[t].ahead
    <2>1. Landed(t)[t] = [git[t] EXCEPT !.ahead = FALSE, !.behind = FALSE,
                                        !.landed = git[t].landed \/ git[t].ahead]
      BY <1>1 DEF Landed, GitRec
    <2> QED BY <1>1, <2>1 DEF GitRec
  <1>3. \A u \in Step \ {t} : Landed(t)[u].landed = git[u].landed
    BY <1>1 DEF Landed, GitRec
  <1>4. /\ ~Discarded(t)[t].tracked
        /\ \A u \in Step : Discarded(t)[u].landed = git[u].landed
    <2>1. CASE git[t].tracked
      <3> DEFINE r == [NoTree EXCEPT !.landed = git[t].landed]
      <3>1. ~r.tracked /\ r.landed = git[t].landed
        BY DEF NoTree
      <3>2. Discarded(t) = [git EXCEPT ![t] = r]
        BY <2>1 DEF Discarded
      <3> HIDE DEF r
      <3>3. Discarded(t)[t] = r /\ \A u \in Step \ {t} : Discarded(t)[u] = git[u]
        BY <1>1, <3>2
      <3>4. ~Discarded(t)[t].tracked /\ Discarded(t)[t].landed = git[t].landed
        BY <3>1, <3>3
      <3>5. \A u \in Step : Discarded(t)[u].landed = git[u].landed
        BY <3>3, <3>4
      <3> QED BY <3>4, <3>5
    <2>2. CASE ~git[t].tracked
      <3>1. Discarded(t) = git
        BY <2>2 DEF Discarded
      <3> QED BY <1>1, <2>2, <3>1
    <2> QED BY <2>1, <2>2
  <1>5. \A c \in BOOLEAN :
          LET g == [git EXCEPT ![t].checked = c] IN
          /\ \A u \in Step : g[u].landed = git[u].landed
          /\ g[t].ahead = git[t].ahead /\ g[t].checked = c
    BY <1>1 DEF GitRec
  <1> QED BY <1>2, <1>3, <1>4, <1>5

LEMMA CheckKeeps ==
  ASSUME TInv, SInv, NEW w \in Worker, CheckWork(w)
  PROVE  SInv'
  <1> DEFINE t == Cur(w).t
  <1>1. fib[w].pc = "work" /\ fib[w].pc \in HoldPC /\ w \in Fiber
    BY LoopIsFiber DEF CheckWork, At, HoldPC
  <1>2. /\ Obj(w) \in StepObj /\ t \in Step
        /\ Good(Obj(w), git[t]) /\ Fit("work", Obj(w), git[t])
    BY <1>1, ObjectFacts
  <1>3. Obj(w).status = "in-progress"
    BY <1>2 DEF Fit
  <1>4. ASSUME NEW st \in {"verifying", "failed"},
               NEW p \in {"verify", "arbitrate", "discard"},
               Become(w, [Obj(w) EXCEPT !.status = st], p),
               Fit(p, [Obj(w) EXCEPT !.status = st], git'[t]),
               \A u \in Step : git'[u].landed = git[u].landed
        PROVE  SInv'
    <2> DEFINE o == [Obj(w) EXCEPT !.status = st]
    <2>1. o \in StepObj /\ o.status = st /\ o.attempt = Obj(w).attempt
      <3>1. st \in Status
        BY DEF Status
      <3> QED BY <1>2, <3>1, Assigned
    <2> HIDE DEF o
    <2>2. Turns(w, o, p)
      BY <1>1, <1>4, HelperTurns DEF o
    <2>3. Good(o, git'[t])
      BY <1>2, <1>4, <2>1 DEF Good
    <2>4. p \in BusyPC \ StartPC
      BY DEF BusyPC, HeldPC, JudgePC, StartPC
    <2>5. Fit(p, o, git'[t])
      BY <1>4 DEF o
    <2> QED BY <1>1, <1>2, <1>3, <1>4, <2>1, <2>2, <2>3, <2>4, <2>5, HandlerTurn
            DEF CheckWork
  <1> DEFINE v == [Obj(w) EXCEPT !.status = "verifying"]
             x == [Obj(w) EXCEPT !.status = "failed"]
  <1>5. v.status = "verifying" /\ x.status = "failed"
    BY <1>2, Assigned DEF Status
  <1>6. CASE HasWork(t) /\ Become(w, v, "verify") /\ git' = [git EXCEPT ![t].checked = TRUE]
    <2>1. /\ \A u \in Step : git'[u].landed = git[u].landed
          /\ git'[t].ahead /\ git'[t].checked
      <3> DEFINE g == [git EXCEPT ![t].checked = TRUE]
      <3>1. /\ \A u \in Step : g[u].landed = git[u].landed
            /\ g[t].ahead = git[t].ahead /\ g[t].checked
        BY <1>2, BranchFacts
      <3> HIDE DEF g
      <3> QED BY <1>6, <3>1 DEF HasWork, g
    <2> HIDE DEF v
    <2>2. Fit("verify", v, git'[t])
      BY <1>5, <2>1 DEF Fit, HeldPC, JudgePC, StartPC
    <2> QED BY <1>4, <1>6, <2>1, <2>2 DEF v
  <1>7. CASE ~HasWork(t) /\ ZeroCommitOracle /\ Become(w, v, "arbitrate") /\ UNCHANGED git
    <2> HIDE DEF v
    <2>1. Fit("arbitrate", v, git'[t])
      BY <1>5, <1>7 DEF Fit, HeldPC, JudgePC, StartPC, HasWork
    <2> QED BY <1>4, <1>7, <2>1 DEF v
  <1>8. CASE ~HasWork(t) /\ Become(w, x, "discard") /\ UNCHANGED git
    <2> HIDE DEF x
    <2>1. Fit("discard", x, git'[t])
      BY <1>5, <1>8 DEF Fit, HeldPC, JudgePC, StartPC, HasWork
    <2> QED BY <1>4, <1>8, <2>1 DEF x
  <1> QED BY <1>6, <1>7, <1>8 DEF CheckWork

LEMMA ArbitrateKeeps ==
  ASSUME TInv, SInv, NEW w \in Worker, Arbitrate(w)
  PROVE  SInv'
  <1> DEFINE t == Cur(w).t
  <1>1. fib[w].pc = "arbitrate" /\ fib[w].pc \in HoldPC /\ w \in Fiber
    BY LoopIsFiber DEF Arbitrate, At, HoldPC
  <1>2. /\ Obj(w) \in StepObj /\ t \in Step
        /\ Good(Obj(w), git[t]) /\ Fit("arbitrate", Obj(w), git[t])
    BY <1>1, ObjectFacts
  <1>3. Obj(w).status = "verifying" /\ ZeroCommitOracle /\ ~(git[t].tracked /\ git[t].ahead)
    BY <1>2 DEF Fit, JudgePC
  <1>4. ASSUME NEW st \in {"done", "failed"}, NEW p \in {"removing", "discard"},
               Become(w, [Obj(w) EXCEPT !.status = st], p),
               p = "removing" <=> st = "done"
        PROVE  SInv'
    <2> DEFINE o == [Obj(w) EXCEPT !.status = st]
    <2>1. o \in StepObj /\ o.status = st /\ o.attempt = Obj(w).attempt
      <3>1. st \in Status
        BY DEF Status
      <3> QED BY <1>2, <3>1, Assigned
    <2> HIDE DEF o
    <2>2. Turns(w, o, p)
      BY <1>1, <1>4, HelperTurns DEF o
    <2>3. UNCHANGED git
      BY DEF Arbitrate
    <2>4. Good(o, git'[t]) /\ Fit(p, o, git'[t])
      BY <1>2, <1>3, <1>4, <2>1, <2>3 DEF Good, Fit, HeldPC, JudgePC, StartPC
    <2>5. p \in BusyPC \ StartPC
      BY DEF BusyPC, HeldPC, JudgePC, StartPC
    <2> QED BY <1>1, <1>2, <1>3, <2>1, <2>2, <2>3, <2>4, <2>5, HandlerTurn DEF Arbitrate
  <1> QED BY <1>4 DEF Arbitrate

LEMMA DiscardKeeps ==
  ASSUME TInv, SInv, NEW w \in Worker, DiscardEmpty(w)
  PROVE  SInv'
  <1> DEFINE t == Cur(w).t  r == [Obj(w) EXCEPT !.tree = FALSE]
  <1>1. fib[w].pc = "discard" /\ fib[w].pc \in HoldPC /\ w \in Fiber
    BY LoopIsFiber DEF DiscardEmpty, At, HoldPC
  <1>2. /\ Obj(w) \in StepObj /\ t \in Step
        /\ Good(Obj(w), git[t]) /\ Fit("discard", Obj(w), git[t])
    BY <1>1, ObjectFacts
  <1>3. Obj(w).status = "failed"
    BY <1>2 DEF Fit
  <1>4. ASSUME NEW o \in StepObj, o.status = "failed", o.attempt = Obj(w).attempt,
               BecomeAndDrop(w, o, "failed"),
               \A u \in Step : git'[u].landed = git[u].landed
        PROVE  SInv'
    <2>1. Turns(w, o, "failed") /\ "failed" \in BusyPC \ StartPC
      BY <1>1, <1>4, HelperTurns DEF HoldPC, BusyPC, StartPC
    <2>2. Good(o, git'[t]) /\ Fit("failed", o, git'[t])
      BY <1>2, <1>4 DEF Good, Fit, HeldPC, JudgePC, StartPC
    <2> QED BY <1>1, <1>2, <1>3, <1>4, <2>1, <2>2, HandlerTurn DEF DiscardEmpty
  <1>5. r \in StepObj /\ r.status = "failed" /\ r.attempt = Obj(w).attempt
    BY <1>2, <1>3, Assigned
  <1> HIDE DEF r
  <1>6. CASE git' = Discarded(t) /\ BecomeAndDrop(w, r, "failed")
    <2>1. \A u \in Step : git'[u].landed = git[u].landed
      BY <1>2, <1>6, BranchFacts
    <2> QED BY <1>4, <1>5, <1>6, <2>1
  <1>7. CASE UNCHANGED git /\ BecomeAndDrop(w, Obj(w), "failed")
    BY <1>2, <1>3, <1>4, <1>7
  <1> QED BY <1>6, <1>7 DEF DiscardEmpty, r

(* Where a verification is under way, the branch has work that main lacks. *)
MergePC == {"verify", "merge", "rebase", "reverify", "remerge", "quick"}

LEMMA JudgeFacts ==
  ASSUME TInv, SInv, NEW w \in Worker, fib[w].pc \in MergePC
  PROVE  /\ fib[w].pc \in HoldPC /\ w \in Fiber /\ Cur(w).t \in Step
         /\ Obj(w) \in StepObj /\ Obj(w).status = "verifying"
         /\ Good(Obj(w), git[Cur(w).t]) /\ git[Cur(w).t].ahead
         /\ UserOps = {} => /\ fib[w].pc # "quick" /\ git[Cur(w).t].checked
                            /\ fib[w].pc \in {"reverify", "remerge"}
                                 => ~git[Cur(w).t].behind
  <1>1. w \in Fiber /\ fib[w].pc \in HoldPC /\ fib[w].pc \in JudgePC \ {"arbitrate"}
    BY LoopIsFiber DEF MergePC, HoldPC, JudgePC
  <1> QED BY <1>1, ObjectFacts DEF Fit

(* The handler is through with the step, which waits for a new agent or    *)
(* has come to an end without being done.                                  *)
LEMMA GivesUp ==
  ASSUME TInv, SInv, NEW w \in Worker, fib[w].pc \in MergePC, NEW o \in StepObj,
         o.status \in {"ready", "failed", "needs-rebase"}, o.attempt <= 1 + MaxRetries,
         NEW p \in {"fin", "failed"}, BecomeAndDrop(w, o, p),
         \A u \in Step : git'[u].landed = git[u].landed,
         UNCHANGED <<sess, queue, running, booted, closed>>,
         planStatus' \in {planStatus, "paused"}
  PROVE  SInv'
  <1>1. /\ fib[w].pc \in HoldPC /\ w \in Fiber /\ Cur(w).t \in Step
        /\ Obj(w).status = "verifying"
    BY JudgeFacts
  <1>2. p \in BusyPC \ StartPC /\ p \notin HoldPC
    BY DEF HoldPC, BusyPC, StartPC
  <1>3. Turns(w, o, p)
    BY <1>1, <1>2, HelperTurns
  <1>4. Good(o, git'[Cur(w).t]) /\ Fit(p, o, git'[Cur(w).t])
    BY DEF Good, Fit, HeldPC, JudgePC, StartPC
  <1> QED BY <1>1, <1>2, <1>3, <1>4, HandlerTurn

(* The verification goes on.                                               *)
LEMMA GoesOn ==
  ASSUME TInv, SInv, NEW w \in Worker, fib[w].pc \in MergePC, NEW o \in StepObj,
         o.status = "verifying", o.attempt = Obj(w).attempt,
         NEW p \in MergePC, Turns(w, o, p),
         \A u \in Step : git'[u].landed = git[u].landed,
         git'[Cur(w).t].ahead,
         UserOps = {} => /\ p # "quick" /\ git'[Cur(w).t].checked
                         /\ p \in {"reverify", "remerge"} => ~git'[Cur(w).t].behind,
         UNCHANGED <<sess, queue, running, booted, closed, planStatus>>
  PROVE  SInv'
  <1>1. /\ fib[w].pc \in HoldPC /\ w \in Fiber /\ Cur(w).t \in Step
        /\ Obj(w).status = "verifying" /\ Good(Obj(w), git[Cur(w).t])
    BY JudgeFacts
  <1>2. p \in BusyPC \ StartPC
    BY DEF MergePC, BusyPC, HeldPC, JudgePC, StartPC
  <1>3. Good(o, git'[Cur(w).t]) /\ Fit(p, o, git'[Cur(w).t])
    BY <1>1 DEF Good, Fit, MergePC, HeldPC, JudgePC, StartPC
  <1> QED BY <1>1, <1>2, <1>3, HandlerTurn

LEMMA RetryKeeps ==
  ASSUME TInv, SInv, NEW w \in Worker, fib[w].pc \in {"verify", "reverify"}, RetryOrFail(w)
  PROVE  SInv'
  <1> DEFINE t == Cur(w).t
             r == [Reset(Obj(w)) EXCEPT !.attempt = @ + 1]
             x == [Obj(w) EXCEPT !.status = "failed"]
  <1>1. /\ fib[w].pc \in MergePC /\ t \in Step /\ Obj(w) \in StepObj
        /\ Good(Obj(w), git[t])
    BY JudgeFacts DEF MergePC
  <1>2. /\ r \in StepObj /\ r.status = "ready" /\ r.attempt = Obj(w).attempt + 1
        /\ x \in StepObj /\ x.status = "failed" /\ x.attempt = Obj(w).attempt
    BY <1>1, Assigned DEF Status
  <1>3. \A u \in Step : git'[u].landed = git[u].landed
    <2>1. git' = [git EXCEPT ![t].checked = FALSE]
      BY DEF RetryOrFail
    <2>2. \A u \in Step : [git EXCEPT ![t].checked = FALSE][u].landed = git[u].landed
      BY <1>1, BranchFacts
    <2> QED BY <2>1, <2>2
  <1>4. CASE MayRetry(Obj(w)) /\ BecomeAndDrop(w, r, "fin")
    <2>1. r.attempt <= 1 + MaxRetries
      BY <1>1, <1>2, <1>4, ConfigAssumption DEF MayRetry, StepObj
    <2> HIDE DEF r
    <2> QED BY <1>1, <1>2, <1>3, <1>4, <2>1, GivesUp DEF RetryOrFail
  <1>5. CASE BecomeAndDrop(w, x, "failed")
    <2>1. x.attempt <= 1 + MaxRetries
      BY <1>1, <1>2 DEF Good
    <2> HIDE DEF x
    <2> QED BY <1>1, <1>2, <1>3, <1>5, <2>1, GivesUp DEF RetryOrFail
  <1> QED BY <1>4, <1>5 DEF RetryOrFail

LEMMA VerifyKeeps ==
  ASSUME TInv, SInv, NEW w \in Worker, Verify(w)
  PROVE  SInv'
  <1>1. fib[w].pc = "verify" /\ fib[w].pc \in MergePC
    BY DEF Verify, At, MergePC
  <1>2. CASE Goto(w, "merge") /\ UNCHANGED <<planStatus, running, booted, step, sess,
                                             queue, git, closed>>
    <2>1. Turns(w, Obj(w), "merge") /\ "merge" \in MergePC
      BY <1>1, <1>2, JudgeFacts, HelperTurns DEF MergePC
    <2> QED BY <1>1, <1>2, <2>1, JudgeFacts, GoesOn
  <1> QED BY <1>1, <1>2, RetryKeeps DEF Verify

LEMMA ReverifyKeeps ==
  ASSUME TInv, SInv, NEW w \in Worker, Reverify(w)
  PROVE  SInv'
  <1>1. fib[w].pc = "reverify" /\ fib[w].pc \in MergePC
    BY DEF Reverify, At, MergePC
  <1>2. w \in Fiber /\ fib[w] \in FiberRec /\ Cur(w).t \in Step /\ Obj(w) = step[Cur(w).t]
    BY <1>1, JudgeFacts, ObjectFacts DEF TInv, TypeOK
  <1>3. CASE /\ fib' = [fib EXCEPT ![w].pc = "remerge", ![w].quick = 0]
             /\ UNCHANGED <<planStatus, running, booted, step, sess, queue, git, closed>>
    <2>1. /\ Moves(w, "remerge") /\ fib'[w].hold = fib[w].hold
      BY <1>2, <1>3 DEF Moves, TInv, TypeOK, FiberRec
    <2>2. step' = [step EXCEPT ![Cur(w).t] = Obj(w)]
      BY <1>2, <1>3 DEF TInv, TypeOK
    <2>3. Turns(w, Obj(w), "remerge") /\ "remerge" \in MergePC
      BY <2>1, <2>2 DEF Turns, MergePC
    <2> QED BY <1>1, <1>3, <2>3, JudgeFacts, GoesOn
  <1> QED BY <1>1, <1>3, RetryKeeps DEF Reverify

LEMMA MergeSucceedsKeeps ==
  ASSUME TInv, SInv, NEW w \in Worker, fib[w].pc \in MergePC, MergeSucceeds(w),
         UNCHANGED <<sess, queue, running, booted, closed>>
  PROVE  SInv'
  <1> DEFINE t == Cur(w).t  o == [Obj(w) EXCEPT !.status = "done"]
  <1>1. /\ fib[w].pc \in HoldPC /\ w \in Fiber /\ t \in Step /\ git[t].ahead
        /\ Obj(w) \in StepObj /\ Good(Obj(w), git[t]) /\ Obj(w).status = "verifying"
    BY JudgeFacts
  <1>2. o \in StepObj /\ o.status = "done" /\ o.attempt = Obj(w).attempt
    BY <1>1, Assigned DEF Status
  <1>3. Turns(w, o, "removing") /\ "removing" \in BusyPC \ StartPC
    BY <1>1, HelperTurns DEF MergeSucceeds, BusyPC, StartPC
  <1>4. /\ git'[t].landed /\ ~git'[t].ahead
        /\ \A u \in Step \ {t} : git'[u].landed = git[u].landed
    <2>1. /\ Landed(t)[t].landed = (git[t].landed \/ git[t].ahead)
          /\ ~Landed(t)[t].ahead
          /\ \A u \in Step \ {t} : Landed(t)[u].landed = git[u].landed
      BY <1>1, BranchFacts
    <2>2. git' = Landed(t)
      BY DEF MergeSucceeds
    <2> QED BY <1>1, <2>1, <2>2
  <1> HIDE DEF o
  <1>5. Good(o, git'[t]) /\ Fit("removing", o, git'[t])
    BY <1>1, <1>2, <1>4 DEF Good, Fit, HeldPC, JudgePC, StartPC
  <1> QED BY <1>1, <1>2, <1>3, <1>4, <1>5, HandlerTurn DEF MergeSucceeds

LEMMA NeedsRebaseKeeps ==
  ASSUME TInv, SInv, NEW w \in Worker, fib[w].pc \in MergePC, NeedsRebase(w),
         UNCHANGED <<sess, queue, running, booted, closed, git>>
  PROVE  SInv'
  <1> DEFINE o == [Obj(w) EXCEPT !.status = "needs-rebase"]
  <1>1. Obj(w) \in StepObj /\ Good(Obj(w), git[Cur(w).t])
    BY JudgeFacts
  <1>2. o \in StepObj /\ o.status = "needs-rebase" /\ o.attempt <= 1 + MaxRetries
    BY <1>1, Assigned DEF Status, Good
  <1> HIDE DEF o
  <1>3. BecomeAndDrop(w, o, "fin") /\ planStatus' \in {planStatus, "paused"}
    BY DEF NeedsRebase, o
  <1> QED BY <1>2, <1>3, GivesUp

LEMMA NextRebaseKeeps ==
  ASSUME TInv, SInv, NEW w \in Worker, fib[w].pc \in MergePC, NextRebase(w),
         UNCHANGED <<sess, queue, running, booted, closed, git>>
  PROVE  SInv'
  <1>1. CASE MoreRebases(Obj(w))
    <2> DEFINE o == [Obj(w) EXCEPT !.rebases = @ + 1]
    <2>1. /\ Obj(w) \in StepObj /\ Obj(w).status = "verifying" /\ w \in Fiber
          /\ fib[w].pc \in HoldPC
      BY JudgeFacts
    <2>2. o \in StepObj /\ o.status = "verifying" /\ o.attempt = Obj(w).attempt
      BY <1>1, <2>1, Assigned
    <2>3. Become(w, o, "rebase") /\ UNCHANGED planStatus
      BY <1>1 DEF NextRebase
    <2> HIDE DEF o
    <2>4. Turns(w, o, "rebase") /\ "rebase" \in MergePC
      BY <2>1, <2>3, HelperTurns DEF MergePC
    <2> QED BY <2>2, <2>3, <2>4, JudgeFacts, GoesOn
  <1>2. CASE ~MoreRebases(Obj(w))
    BY <1>2, NeedsRebaseKeeps DEF NextRebase
  <1> QED BY <1>1, <1>2

LEMMA MergeKeeps ==
  ASSUME TInv, SInv, NEW w \in Worker, Merge(w)
  PROVE  SInv'
  <1>1. fib[w].pc \in MergePC
    BY DEF Merge, At, MergePC
  <1> QED BY <1>1, MergeSucceedsKeeps, NextRebaseKeeps, NeedsRebaseKeeps DEF Merge

LEMMA RebaseKeeps ==
  ASSUME TInv, SInv, NEW w \in Worker, Rebase(w)
  PROVE  SInv'
  <1> DEFINE t == Cur(w).t
  <1>1. fib[w].pc \in MergePC
    BY DEF Rebase, At, MergePC
  <1>2. /\ Obj(w) \in StepObj /\ w \in Fiber /\ fib[w].pc \in HoldPC /\ t \in Step
        /\ Good(Obj(w), git[t]) /\ git[t].ahead /\ git \in [Step -> GitRec]
    BY <1>1, JudgeFacts DEF TInv, TypeOK
  <1>3. CASE CleanRebase(w)
    <2> DEFINE o == [Obj(w) EXCEPT !.status = "verifying"]
               g == [git EXCEPT ![t].behind = FALSE, ![t].checked = TRUE]
    <2>1. o \in StepObj /\ o.status = "verifying" /\ o.attempt = Obj(w).attempt
      BY <1>2, Assigned DEF Status
    <2>2. Become(w, o, "reverify") /\ git' = g /\ UNCHANGED planStatus
      BY <1>3 DEF CleanRebase
    <2>3. g = [git EXCEPT ![t].behind = FALSE, ![t].checked = TRUE]
      OBVIOUS
    <2> HIDE DEF o, g
    <2>4. /\ \A u \in Step : g[u].landed = git[u].landed
          /\ g[t].ahead /\ ~g[t].behind /\ g[t].checked
      BY <1>2, <2>3 DEF GitRec
    <2>5. Turns(w, o, "reverify") /\ "reverify" \in MergePC
      BY <1>2, <2>2, HelperTurns DEF MergePC
    <2> QED BY <1>1, <2>1, <2>2, <2>4, <2>5, GoesOn DEF Rebase
  <1>4. CASE /\ BecomeAndDrop(w, [Reset(Obj(w)) EXCEPT !.conflict = TRUE], "fin")
             /\ UNCHANGED <<planStatus, git>>
    <2> DEFINE o == [Reset(Obj(w)) EXCEPT !.conflict = TRUE]
    <2>1. o \in StepObj /\ o.status = "ready" /\ o.attempt <= 1 + MaxRetries
      BY <1>2, Assigned DEF Good
    <2> HIDE DEF o
    <2>2. BecomeAndDrop(w, o, "fin")
      BY <1>4 DEF o
    <2> QED BY <1>1, <1>4, <2>1, <2>2, GivesUp DEF Rebase
  <1>5. CASE NextRebase(w) /\ UNCHANGED git
    BY <1>1, <1>5, NextRebaseKeeps DEF Rebase
  <1> QED BY <1>3, <1>4, <1>5 DEF Rebase

LEMMA RemergeKeeps ==
  ASSUME TInv, SInv, NEW w \in Worker, Remerge(w)
  PROVE  SInv'
  <1>1. fib[w].pc = "remerge" /\ fib[w].pc \in MergePC
    BY DEF Remerge, At, MergePC
  <1>2. CASE MergeSucceeds(w)
    BY <1>1, <1>2, MergeSucceedsKeeps DEF Remerge
  <1>3. CASE NextRebase(w) /\ UNCHANGED git
    BY <1>1, <1>3, NextRebaseKeeps DEF Remerge
  <1>4. CASE /\ MayConflict(Cur(w).t) /\ Goto(w, "quick")
             /\ UNCHANGED <<step, git, planStatus>>
    <2>1. UserOps # {}
      BY <1>1, <1>4, JudgeFacts DEF MayConflict
    <2>2. Turns(w, Obj(w), "quick") /\ "quick" \in MergePC
      BY <1>1, <1>4, JudgeFacts, HelperTurns DEF MergePC
    <2> QED BY <1>1, <1>4, <2>1, <2>2, JudgeFacts, GoesOn DEF Remerge
  <1> QED BY <1>2, <1>3, <1>4 DEF Remerge

LEMMA QuickRebaseKeeps ==
  ASSUME TInv, SInv, NEW w \in Worker, QuickRebase(w)
  PROVE  SInv'
  <1> DEFINE t == Cur(w).t
  <1>1. fib[w].pc = "quick" /\ fib[w].pc \in MergePC
    BY DEF QuickRebase, At, MergePC
  <1>2. /\ w \in Fiber /\ fib[w] \in FiberRec /\ t \in Step /\ Obj(w) = step[t]
        /\ git[t].ahead /\ UserOps # {} /\ git \in [Step -> GitRec]
    BY <1>1, JudgeFacts, ObjectFacts DEF TInv, TypeOK
  <1>3. CASE /\ git' = [git EXCEPT ![t].behind = FALSE, ![t].checked = FALSE]
             /\ fib' = [fib EXCEPT ![w].pc = "remerge", ![w].quick = @ + 1]
             /\ UNCHANGED <<step, planStatus>>
    <2> DEFINE g == [git EXCEPT ![t].behind = FALSE, ![t].checked = FALSE]
    <2>1. g = [git EXCEPT ![t].behind = FALSE, ![t].checked = FALSE]
      OBVIOUS
    <2>2. git' = g
      BY <1>3
    <2> HIDE DEF g
    <2>3. (\A u \in Step : g[u].landed = git[u].landed) /\ g[t].ahead
      BY <1>2, <2>1 DEF GitRec
    <2>4. Moves(w, "remerge") /\ fib'[w].hold = fib[w].hold
      BY <1>2, <1>3 DEF Moves, TInv, TypeOK, FiberRec
    <2>5. step' = [step EXCEPT ![t] = Obj(w)]
      BY <1>2, <1>3 DEF TInv, TypeOK
    <2>6. Turns(w, Obj(w), "remerge") /\ "remerge" \in MergePC
      BY <2>4, <2>5 DEF Turns, MergePC
    <2> QED BY <1>1, <1>2, <1>3, <2>3, <2>2, <2>6, JudgeFacts, GoesOn DEF QuickRebase
  <1>4. CASE NextRebase(w) /\ UNCHANGED git
    BY <1>1, <1>4, NextRebaseKeeps DEF QuickRebase
  <1> QED BY <1>3, <1>4 DEF QuickRebase

LEMMA RemoveKeeps ==
  ASSUME TInv, SInv, NEW w \in Fiber, RemoveWorktree(w)
  PROVE  SInv'
  <1> DEFINE t == Cur(w).t  o == [Obj(w) EXCEPT !.tree = FALSE]
  <1>1. fib[w].pc = "removing" /\ fib[w].pc \in HoldPC
    BY DEF RemoveWorktree, At, HoldPC
  <1>2. w \in Worker /\ w # Loop
    BY <1>1, LoopIsFiber DEF SInv, Calm, Fiber, StartPC
  <1>3. /\ Obj(w) \in StepObj /\ t \in Step
        /\ Good(Obj(w), git[t]) /\ Fit("removing", Obj(w), git[t])
    BY <1>1, ObjectFacts
  <1>4. o \in StepObj /\ o.status = "done" /\ o.attempt = Obj(w).attempt
    BY <1>3, Assigned DEF Fit
  <1>5. Turns(w, o, "fin") /\ "fin" \in BusyPC \ StartPC
    BY <1>1, <1>2, HelperTurns DEF RemoveWorktree, HoldPC, BusyPC, StartPC
  <1>6. \A u \in Step : git'[u].landed = git[u].landed
    BY <1>3, BranchFacts DEF RemoveWorktree
  <1> HIDE DEF o
  <1>7. Good(o, git'[t]) /\ Fit("fin", o, git'[t])
    BY <1>3, <1>4, <1>6 DEF Good, Fit, HeldPC, JudgePC, StartPC
  <1> QED BY <1>1, <1>2, <1>3, <1>4, <1>5, <1>6, <1>7, HandlerTurn DEF RemoveWorktree

LEMMA WorkerStepKeeps ==
  ASSUME TInv, SInv, NEW w \in Worker, WorkerStep(w)
  PROVE  SInv'
  BY LoopIsFiber, CheckKeeps, ArbitrateKeeps, DiscardKeeps, FailureKeeps, VerifyKeeps,
     MergeKeeps, RebaseKeeps, ReverifyKeeps, RemergeKeeps, QuickRebaseKeeps,
     RemoveKeeps DEF WorkerStep

-----------------------------------------------------------------------------
(* The event loop.                                                         *)
LEMMA TailFacts ==
  ASSUME TInv, queue # <<>>
  PROVE  /\ 1 \in DOMAIN queue /\ queue[1] = Head(queue) /\ Head(queue) \in Event
         /\ \A i \in DOMAIN Tail(queue) : /\ i + 1 \in DOMAIN queue /\ i + 1 # 1
                                          /\ Tail(queue)[i] = queue[i + 1]
         /\ \A j \in DOMAIN queue \ {1} : /\ j - 1 \in DOMAIN Tail(queue)
                                          /\ Tail(queue)[j - 1] = queue[j]
         /\ \A i, j \in DOMAIN Tail(queue) : i + 1 = j + 1 => i = j
  <1>1. queue \in Seq(Event)
    BY DEF TInv, TypeOK
  <1>2. /\ DOMAIN queue = 1..Len(queue) /\ Len(queue) \in Nat /\ Len(queue) # 0
        /\ DOMAIN Tail(queue) = 1..(Len(queue) - 1)
        /\ \A i \in 1..(Len(queue) - 1) : Tail(queue)[i] = queue[i + 1]
    BY <1>1
  <1>3. Head(queue) = queue[1] /\ Head(queue) \in Event
    BY <1>1
  <1>4. \A j \in DOMAIN queue \ {1} : /\ j - 1 \in DOMAIN Tail(queue)
                                      /\ Tail(queue)[j - 1] = queue[j]
    <2> SUFFICES ASSUME NEW j \in DOMAIN queue \ {1}
                 PROVE  /\ j - 1 \in DOMAIN Tail(queue)
                        /\ Tail(queue)[j - 1] = queue[j]
      OBVIOUS
    <2>1. j - 1 \in 1..(Len(queue) - 1) /\ (j - 1) + 1 = j
      BY <1>2
    <2> QED BY <1>2, <2>1
  <1> QED BY <1>2, <1>3, <1>4

(* The loop takes an event that is no news, or none at all.                *)
LEMMA LoopRests ==
  ASSUME TInv, SInv, fib[Loop].pc \in {"check", "wait"},
         NEW p \in {"check", "wait", "exited"}, Moves(Loop, p),
         UNCHANGED <<planStatus, running, step, sess, mapped, git, closed>>,
         booted' \in {booted, TRUE},
         \/ queue' = queue
         \/ queue # <<>> /\ OtherEvent(Head(queue)) /\ queue' = Tail(queue),
         Ending' => AllOver'
  PROVE  SInv'
  <1>1. /\ \A i \in DOMAIN queue' : News(i)' =>
             \E j \in DOMAIN queue : News(j) /\ queue'[i] = queue[j]
        /\ \A j \in DOMAIN queue : News(j) =>
             \E i \in DOMAIN queue' : News(i)' /\ queue'[i] = queue[j]
        /\ \A i \in DOMAIN queue' : queue'[i].type \in {"agent_completed", "verification_done"}
        /\ \A i, k \in DOMAIN queue' : News(i)' /\ News(k)' => i = k
    <2>1. CASE queue' = queue
      BY <2>1 DEF News, SInv, Calm, OneToken
    <2>2. CASE queue # <<>> /\ OtherEvent(Head(queue)) /\ queue' = Tail(queue)
      <3>1. /\ 1 \in DOMAIN queue /\ ~News(1)
            /\ \A i \in DOMAIN queue' : /\ i + 1 \in DOMAIN queue /\ i + 1 # 1
                                        /\ queue'[i] = queue[i + 1]
            /\ \A j \in DOMAIN queue \ {1} : /\ j - 1 \in DOMAIN queue'
                                             /\ queue'[j - 1] = queue[j]
            /\ \A i, j \in DOMAIN queue' : i + 1 = j + 1 => i = j
        BY <2>2, TailFacts DEF News, OtherEvent
      <3>2. \A i \in DOMAIN queue' : News(i)' =>
             \E j \in DOMAIN queue : News(j) /\ queue'[i] = queue[j]
        BY <3>1 DEF News
      <3>3. \A j \in DOMAIN queue : News(j) =>
             \E i \in DOMAIN queue' : News(i)' /\ queue'[i] = queue[j]
        BY <3>1 DEF News
      <3>4. \A i \in DOMAIN queue' : queue'[i].type \in {"agent_completed", "verification_done"}
        BY <3>1 DEF SInv, Calm
      <3>5. ASSUME NEW i \in DOMAIN queue', NEW k \in DOMAIN queue', News(i)', News(k)'
            PROVE  i = k
        <4>1. News(i + 1) /\ News(k + 1) /\ i + 1 \in DOMAIN queue /\ k + 1 \in DOMAIN queue
          BY <3>1, <3>5 DEF News
        <4>2. i + 1 = k + 1
          BY <4>1 DEF SInv, OneToken
        <4> QED BY <3>1, <4>2
      <3> QED BY <3>2, <3>3, <3>4, <3>5
    <2> QED BY <2>1, <2>2
  <1>2. /\ ~Busy(Loop) /\ ~Busy(Loop)' /\ fib'[Loop].pc = p
        /\ p \notin HoldPC /\ fib[Loop].pc \notin HeldPC
        /\ \A g \in Fiber \ {Loop} : fib'[g] = fib[g]
    BY DEF Moves, Busy, BusyPC, HeldPC, JudgePC, StartPC, HoldPC
  <1>3. \A g \in Fiber : Busy(g)' => Busy(g)
    BY <1>2 DEF Busy
  <1>4. Calm'
    <2>1. \A w \in Worker : fib'[w] = fib[w]
      BY <1>2, LoopIsFiber
    <2>2. fib'[Loop].pc \in {"check", "wait", "exited"}
      BY <1>2
    <2>3. booted => booted'
      OBVIOUS
    <2> QED BY <1>1, <2>1, <2>2, <2>3 DEF SInv, Calm, Live, StartPC
  <1>5. OneToken'
    <2>1. Live' = Live
      BY DEF Live
    <2>2. \A g, h \in Fiber : Busy(g)' /\ Busy(h)' => g = h
      BY <1>3 DEF SInv, OneToken
    <2>3. \A g \in Fiber : Busy(g)' => Live' = {} /\ \A i \in DOMAIN queue' : ~News(i)'
      BY <1>1, <1>3, <2>1 DEF SInv, OneToken
    <2>4. Live' # {} => \A i \in DOMAIN queue' : ~News(i)'
      BY <1>1, <2>1 DEF SInv, OneToken
    <2>5. \A s, r \in Live' : s = r
      BY <2>1 DEF SInv, OneToken
    <2> QED BY <1>1, <2>2, <2>3, <2>4, <2>5 DEF OneToken
  <1>6. Tasks'
    <2>1. \A s \in Live' : step'[sess'[s].t].status = "in-progress"
      BY DEF Live, SInv, Tasks
    <2>2. \A i \in DOMAIN queue' : News(i)' => step'[queue'[i].t].status = "in-progress"
      BY <1>1 DEF SInv, Tasks
    <2>3. ASSUME NEW g \in Fiber, fib'[g].pc \in HoldPC PROVE Holds(g)'
      <3>1. fib'[g] = fib[g] /\ Holds(g)
        BY <1>2, <2>3 DEF SInv, Tasks
      <3> QED BY <2>3, <3>1 DEF Holds, Cur
    <2>4. ASSUME NEW u \in Occupied' PROVE On(u)'
      <3>1. On(u)
        BY <2>4 DEF Occupied, SInv, Tasks
      <3>2. ASSUME NEW s \in Live, sess[s].t = u PROVE On(u)'
        BY <3>2 DEF On, Live
      <3>3. ASSUME NEW j \in DOMAIN queue, News(j), queue[j].t = u PROVE On(u)'
        BY <1>1, <3>3 DEF On
      <3>4. ASSUME NEW g \in Fiber, fib[g].pc \in HeldPC, Cur(g).t = u PROVE On(u)'
        <4>1. fib'[g] = fib[g]
          BY <1>2, <3>4
        <4> QED BY <3>4, <4>1 DEF On, Cur
      <3> QED BY <3>1, <3>2, <3>3, <3>4 DEF On
    <2> QED BY <2>1, <2>2, <2>3, <2>4 DEF Tasks, Holds
  <1>7. \A t \in Step : Fact(t)'
    BY FactsStay
  <1> QED BY <1>4, <1>5, <1>6, <1>7 DEF SInv

LEMMA SimpleLoopKeeps ==
  ASSUME CInv, SInv, LoopWaits \/ LoopExits \/ HandleDone
  PROVE  SInv'
  <1> USE DEF CInv
  <1>1. fib[Loop].pc \in {"check", "wait"} /\ AtWork' = AtWork
    BY LoopStays DEF LoopWaits, LoopExits, HandleDone, Take, At, SameWork
  <1>2. Ending => AllOver
    BY DEF SInv
  <1>3. CASE LoopWaits
    <2>1. Moves(Loop, "wait")
      BY <1>3, GotoMoves, LoopIsFiber DEF LoopWaits
    <2>2. Ending' => Ending
      BY <1>3, <2>1, LoopIsFiber DEF LoopWaits, Ending, At, Moves
    <2>3. Ending' => AllOver'
      BY <1>1, <1>2, <1>3, <2>2, AllOverStays DEF LoopWaits
    <2> QED BY <1>1, <1>3, <2>1, <2>3, LoopRests DEF LoopWaits
  <1>4. CASE LoopExits
    <2>1. Moves(Loop, "exited")
      BY <1>4, GotoMoves, LoopIsFiber DEF LoopExits
    <2>2. AllOver
      BY <1>2, <1>4, TerminalIsOver DEF LoopExits, KeepGoing, ShouldExitLoop, Ending
    <2>3. AllOver'
      BY <1>1, <1>4, <2>2, AllOverStays DEF LoopExits
    <2> QED BY <1>1, <1>4, <2>1, <2>3, LoopRests DEF LoopExits
  <1>5. CASE HandleDone
    <2>1. Moves(Loop, "check")
      BY <1>5, GotoMoves, LoopIsFiber DEF HandleDone
    <2>2. Ending' => Ending
      BY <1>5, <2>1, LoopIsFiber DEF HandleDone, Ending, At, Moves
    <2>3. Ending' => AllOver'
      BY <1>1, <1>2, <1>5, <2>2, AllOverStays DEF HandleDone
    <2> QED BY <1>1, <1>5, <2>1, <2>3, LoopRests DEF HandleDone, Take, OtherEvent
  <1> QED BY <1>3, <1>4, <1>5

(* agent_completed: the token passes to a handler.                         *)
LEMMA CompletedKeeps ==
  ASSUME TInv, SInv, NEW w \in Worker, HandleCompleted(w)
  PROVE  SInv'
  <1>1. PICK e \in Event : e = Head(queue)
    BY TailFacts DEF HandleCompleted, Take
  <1>2. PICK t \in Step : t = e.t
    BY DEF Event
  <1>3. /\ queue # <<>> /\ queue' = Tail(queue) /\ booted' /\ e.type = "agent_completed"
        /\ fib[Loop].pc \in {"check", "wait"} /\ fib[w].pc = "idle"
    BY <1>1 DEF HandleCompleted, Take, At, FreeWorkers
  <1>4. /\ 1 \in DOMAIN queue /\ queue[1] = e /\ News(1)
        /\ \A i \in DOMAIN queue' : /\ i + 1 \in DOMAIN queue /\ i + 1 # 1
                                    /\ queue'[i] = queue[i + 1]
    BY <1>1, <1>3, TailFacts DEF News
  <1>5. /\ Live = {} /\ (\A g \in Fiber : ~Busy(g))
        /\ step[t].status = "in-progress"
    BY <1>2, <1>4 DEF SInv, OneToken, Tasks
  <1>6. /\ (\A i \in DOMAIN queue' : ~News(i)') /\ Live' = {}
        /\ \A i \in DOMAIN queue' : queue'[i].type \in {"agent_completed", "verification_done"}
    <2>1. ASSUME NEW i \in DOMAIN queue', News(i)' PROVE FALSE
      <3>1. News(i + 1) /\ i + 1 \in DOMAIN queue /\ i + 1 # 1
        BY <1>4, <2>1 DEF News
      <3> QED BY <1>4, <3>1 DEF SInv, OneToken
    <2>2. Live' = {}
      BY <1>5 DEF HandleCompleted, Live
    <2>3. \A i \in DOMAIN queue' : queue'[i].type \in {"agent_completed", "verification_done"}
      BY <1>4 DEF SInv, Calm
    <2> QED BY <2>1, <2>2, <2>3
  <1>7. /\ fib'[w] = NewWorker(t, e.sid) /\ fib'[Loop].pc = "check" /\ w # Loop /\ w \in Fiber
        /\ \A g \in Fiber \ {w, Loop} : fib'[g] = fib[g]
    BY <1>1, <1>2, LoopIsFiber DEF HandleCompleted, TInv, TypeOK, FiberRec
  <1>8. /\ step' = [step EXCEPT ![t] = Launched(@)]
        /\ Launched(step[t]).status = step[t].status
        /\ Launched(step[t]).attempt = step[t].attempt
    BY <1>1, <1>2 DEF HandleCompleted, Launched, TInv, TypeOK, StepObj
  <1>9. \A u \in Step : /\ step'[u].status = step[u].status
                        /\ step'[u].attempt = step[u].attempt
    BY <1>8 DEF TInv, TypeOK
  <1>10. \A u \in Step : git'[u].landed = git[u].landed
    BY DEF HandleCompleted, Unlocked, TInv, TypeOK, GitRec
  <1>11. \A g \in Fiber : fib'[g].pc \in BusyPC \cup HoldPC => g = w
    <2>1. \A g \in Fiber : fib[g].pc \notin HoldPC
      BY <1>5, ObjectFacts
    <2> QED BY <1>5, <1>7, <2>1 DEF Busy, BusyPC, HeldPC, JudgePC, StartPC, HoldPC
  <1>12. /\ fib'[w].pc = "work" /\ Cur(w)'.t = t /\ ~Cur(w)'.stale /\ Len(fib'[w].hold) = 1
    BY <1>7 DEF NewWorker, Cur, Ref
  <1>13. Calm'
    <2>1. \A v \in Worker : fib'[v].pc \in BusyPC \cup {"idle", "term", "smoke",
                                                     "finish", "end"}
      <3>1. "work" \in BusyPC
        BY DEF BusyPC, HeldPC
      <3> QED BY <1>7, <1>12, <3>1, LoopIsFiber DEF SInv, Calm
    <2>2. \A s \in Session : sess'[s].st # "stopping"
      BY DEF HandleCompleted, SInv, Calm
    <2> QED BY <1>3, <1>6, <1>7, <2>1, <2>2 DEF Calm, StartPC
  <1>14. OneToken'
    BY <1>6, <1>11 DEF OneToken, Busy
  <1>15. Tasks'
    <2>1. Holds(w)'
      <3>1. step'[t].status = "in-progress"
        BY <1>5, <1>9
      <3>2. Fit("work", step'[t], git'[t])
        BY <3>1 DEF Fit, HeldPC, JudgePC, StartPC
      <3> QED BY <1>12, <3>2 DEF Holds, StartPC
    <2>2. ASSUME NEW u \in Occupied' PROVE On(u)'
      <3>1. u \in Occupied
        BY <1>9, <2>2 DEF Occupied
      <3>2. On(u)
        BY <3>1 DEF SInv, Tasks
      <3>3. \A g \in Fiber : fib[g].pc \notin HeldPC
        BY <1>5 DEF Busy, BusyPC
      <3>4. u = t
        BY <1>2, <1>4, <1>5, <3>2, <3>3 DEF On, SInv, OneToken
      <3> QED BY <1>7, <1>12, <3>4 DEF On, HeldPC
    <2>3. \A g \in Fiber : Holds(g)'
      BY <1>11, <2>1 DEF Holds
    <2> QED BY <1>6, <2>2, <2>3 DEF Tasks
  <1>16. \A u \in Step : Fact(u)'
    <2>1. \A u \in Step : Unresolved(u)' = Unresolved(u)
      <3>1. closed' = closed
        BY DEF HandleCompleted
      <3> QED BY <1>9, <3>1, PlanAssumption DEF Unresolved
    <2>2. \A u \in Step : Fact(u) /\ closed' = closed
      BY DEF SInv, HandleCompleted
    <2> QED BY <1>9, <1>10, <2>1, <2>2 DEF Fact, Good
  <1>17. ~Ending'
    <2>1. ~Ending
      BY <1>5 DEF SInv, AllOver, TerminalStatus
    <2>2. \A v \in Worker : fib'[v].pc \in {"smoke", "finish"} => fib'[v].pc = fib[v].pc
      BY <1>7, <1>12, LoopIsFiber
    <2> QED BY <1>7, <2>1, <2>2 DEF Ending, At, HandleCompleted
  <1> QED BY <1>13, <1>14, <1>15, <1>16, <1>17 DEF SInv

LEMMA LoopStepKeeps ==
  ASSUME CInv, SInv, LoopStep
  PROVE  SInv'
  <1> USE DEF CInv
  <1>1. ASSUME NEW y, Take(y) PROVE y \in {"agent_completed", "verification_done"}
    <2>1. 1 \in DOMAIN queue /\ queue[1] = Head(queue) /\ Head(queue).type = y
      BY <1>1, TailFacts DEF Take
    <2> QED BY <2>1 DEF SInv, Calm
  <1>2. ~(HandlePause \/ HandleResume \/ HandleSkip \/ HandleRetry \/ HandleStall)
    BY <1>1 DEF HandlePause, HandleResume, HandleSkip, HandleRetry, HandleStall
  <1>3. ~(PauseStep \/ PauseReset)
    BY DEF PauseStep, PauseReset, At, SInv, Calm, StartPC
  <1> QED BY <1>2, <1>3, SimpleLoopKeeps, CompletedKeeps DEF LoopStep

-----------------------------------------------------------------------------
(* The agent.                                                              *)
LEMMA CommitKeeps ==
  ASSUME Alone, TInv, SInv,
         (\E s \in Session : AgentCommit(s)) \/ UserCommit
  PROVE  SInv'
  <1>1. UNCHANGED <<planStatus, running, booted, step, sess, mapped, queue,
                    active, fib, closed>>
    BY DEF AgentCommit, UserCommit
  <1>2. \A t \in Step : git'[t].landed = git[t].landed
    <2>1. ASSUME NEW s \in Session, AgentCommit(s)
          PROVE  \A t \in Step : git'[t].landed = git[t].landed
      <3>1. PICK t \in Step : t = sess[s].t
        BY DEF TInv, TypeOK, SessRec
      <3>2. PICK b : git' = [git EXCEPT ![t] =
                       [@ EXCEPT !.ahead = TRUE, !.checked = FALSE, !.behind = b]]
        BY <2>1, <3>1 DEF AgentCommit
      <3> DEFINE r == [git[t] EXCEPT !.ahead = TRUE, !.checked = FALSE, !.behind = b]
      <3>3. r.landed = git[t].landed
        BY DEF TInv, TypeOK, GitRec
      <3>4. git' = [git EXCEPT ![t] = r]
        BY <3>2
      <3> HIDE DEF r
      <3> QED BY <3>3, <3>4 DEF TInv, TypeOK
    <2>2. CASE UserCommit
      BY <2>2 DEF UserCommit, TInv, TypeOK, GitRec
    <2> QED BY <2>1, <2>2
  <1>3. Calm' /\ OneToken'
    <2>1. Calm'
      BY <1>1 DEF SInv, Calm, Live
    <2>2. OneToken'
      BY <1>1 DEF SInv, OneToken, Live, Busy, News
    <2> QED BY <2>1, <2>2
  <1>4. \A f \in Fiber : Holds(f)'
    <2> SUFFICES ASSUME NEW f \in Fiber, fib[f].pc \in HoldPC PROVE Holds(f)'
      BY <1>1 DEF Holds
    <2>1. PICK t \in Step : t = Cur(f).t
      BY ObjectFacts
    <2>2. Live = {}
      BY ObjectFacts, HolderFacts
    <2>3. UserCommit
      BY <2>2 DEF AgentCommit, Live
    <2>4. UserOps # {}
      BY <2>3 DEF UserCommit, Call
    <2>5. git'[t].ahead = git[t].ahead /\ git'[t].tracked = git[t].tracked
      BY <2>3 DEF UserCommit, TInv, TypeOK, GitRec
    <2>6. Holds(f) /\ Cur(f)' = Cur(f)
      BY <1>1 DEF SInv, Tasks, Cur
    <2>7. Fit(fib[f].pc, step[t], git'[t])
      BY <2>1, <2>4, <2>5, <2>6 DEF Holds, Fit
    <2> QED BY <1>1, <2>1, <2>6, <2>7 DEF Holds
  <1>5. Tasks'
    <2>1. \A t \in Occupied' : On(t)'
      BY <1>1 DEF SInv, Tasks, Occupied, On, Live, News, Cur
    <2> QED BY <1>1, <1>4, <2>1 DEF SInv, Tasks, Live, News
  <1>6. Ending' => AllOver'
    BY <1>1 DEF SInv, Ending, AllOver, At, Working
  <1> QED BY <1>1, <1>2, <1>3, <1>5, <1>6, FactsStay DEF SInv

(* The agent ends: the token is the news of it.                            *)
LEMMA ExitKeeps ==
  ASSUME TInv, SInv, NEW s \in Session, AgentExit(s)
  PROVE  SInv'
  <1> DEFINE e == [type |-> "agent_completed", t |-> sess[s].t, sid |-> s]
  <1>1. PICK t \in Step : t = sess[s].t
    BY DEF TInv, TypeOK, SessRec
  <1>2. s \in Live /\ s \in mapped
    BY DEF AgentExit, Live, SInv, Calm
  <1>3. /\ (\A i \in DOMAIN queue : ~News(i)) /\ (\A f \in Fiber : ~Busy(f))
        /\ Live = {s} /\ step[t].status = "in-progress"
    BY <1>1, <1>2 DEF SInv, OneToken, Tasks
  <1>4. sess' = [sess EXCEPT ![s].st = "exited"] /\ queue' = Append(queue, e)
    BY <1>2 DEF AgentExit, Notify
  <1>5. Live' = {} /\ \A r \in Session : sess'[r].st # "stopping"
    BY <1>3, <1>4 DEF Live, SInv, Calm, TInv, TypeOK, SessRec
  <1>6. PICK n \in DOMAIN queue' :
          /\ queue'[n] = e
          /\ \A i \in DOMAIN queue' \ {n} : i \in DOMAIN queue /\ queue'[i] = queue[i]
    <2>1. queue \in Seq(Event) /\ e \in Event
      BY <1>1 DEF TInv, TypeOK, Event
    <2> DEFINE n == Len(queue) + 1
    <2>2. n \in DOMAIN queue' /\ queue'[n] = e
      BY <1>4, <2>1
    <2>3. \A i \in DOMAIN queue' \ {n} : i \in DOMAIN queue /\ queue'[i] = queue[i]
      BY <1>4, <2>1
    <2> QED BY <2>2, <2>3
  <1>7. \A i \in DOMAIN queue' : News(i)' <=> i = n
    BY <1>3, <1>6 DEF News
  <1>8. UNCHANGED <<planStatus, running, booted, step, mapped, active, fib, git, closed>>
    BY DEF AgentExit
  <1>9. \A f \in Fiber : ~Busy(f)' /\ fib'[f].pc \notin HoldPC
    <2>1. \A f \in Fiber : fib[f].pc \notin HoldPC
      BY <1>3, ObjectFacts
    <2> QED BY <1>3, <1>8, <2>1 DEF Busy
  <1>10. Calm'
    <2>1. \A i \in DOMAIN queue' : queue'[i].type \in {"agent_completed", "verification_done"}
      BY <1>6 DEF SInv, Calm
    <2> QED BY <1>5, <1>8, <2>1 DEF SInv, Calm
  <1>11. OneToken'
    BY <1>5, <1>7, <1>9 DEF OneToken
  <1>12. Tasks'
    <2>1. queue'[n].t = t
      BY <1>1, <1>6
    <2>2. \A i \in DOMAIN queue' : News(i)' => step'[queue'[i].t].status = "in-progress"
      BY <1>3, <1>7, <1>8, <2>1
    <2>3. ASSUME NEW u \in Occupied' PROVE On(u)'
      <3>1. On(u)
        BY <1>8, <2>3 DEF Occupied, SInv, Tasks
      <3>2. \A f \in Fiber : fib[f].pc \notin HeldPC
        BY <1>3 DEF Busy, BusyPC
      <3>3. u = t
        BY <1>1, <1>3, <3>1, <3>2 DEF On
      <3> QED BY <1>7, <2>1, <3>3 DEF On
    <2> QED BY <1>5, <1>9, <2>2, <2>3 DEF Tasks, Holds
  <1>13. \A u \in Step : Fact(u)'
    BY <1>8, FactsStay
  <1>14. Ending' => AllOver'
    BY <1>8 DEF SInv, Ending, AllOver, At, Working
  <1> QED BY <1>10, <1>11, <1>12, <1>13, <1>14 DEF SInv

LEMMA AgentStepKeeps ==
  ASSUME Alone, TInv, SInv, NEW s \in Session, AgentStep(s)
  PROVE  SInv'
  <1>1. ~StopNoticed(s)
    BY DEF StopNoticed, SInv, Calm
  <1> QED BY <1>1, CommitKeeps, ExitKeeps DEF AgentStep

LEMMA UserStepKeeps ==
  ASSUME Alone, TInv, SInv, UserStep
  PROVE  SInv'
  <1>1. UserCommit
    BY DEF Alone, Call, UserStep, UserPause, UserResume, UserStop, StallTimer,
           UserSkip, UserRetry, UserClose, UserKill
  <1> QED BY <1>1, CommitKeeps

-----------------------------------------------------------------------------
LEMMA SeqInit == Init => SInv
  <1> SUFFICES ASSUME Init PROVE SInv
    OBVIOUS
  <1>1. /\ fib[Loop].pc = "saved" /\ \A w \in Worker : fib[w].pc = "idle"
        /\ Live = {} /\ queue = <<>> /\ closed = {} /\ running /\ ~booted
        /\ planStatus = "executing"
    BY LoopIsFiber DEF Init, IdleFiber, Live
  <1>2. \A t \in Step : /\ step[t].status = IF BlockedBy[t] = {} THEN "ready" ELSE "blocked"
                        /\ step[t].attempt = 1
    BY DEF Init, NewStep
  <1>3. \A f \in Fiber : (Busy(f) => f = Loop) /\ fib[f].pc \notin HoldPC
    BY <1>1 DEF Fiber, Busy, BusyPC, HeldPC, JudgePC, StartPC, HoldPC
  <1>4. Calm
    <2>1. \A s \in Session : sess[s].st # "stopping"
      BY DEF Init
    <2> QED BY <1>1, <2>1 DEF Calm
  <1>5. OneToken
    BY <1>1, <1>3 DEF OneToken
  <1>6. Tasks
    <2>1. Occupied = {}
      BY <1>2 DEF Occupied
    <2> QED BY <1>1, <1>3, <2>1 DEF Tasks, Holds
  <1>7. \A t \in Step : Fact(t)
    <2>1. \A t \in Step : BlockedBy[t] = {} => Unresolved(t) = {}
      BY DEF Unresolved
    <2>2. 1 <= 1 + MaxRetries
      BY ConfigAssumption
    <2> QED BY <1>1, <1>2, <2>1, <2>2 DEF Fact, Good
  <1>8. ~Ending
    BY <1>1 DEF Ending, At
  <1> QED BY <1>4, <1>5, <1>6, <1>7, <1>8 DEF SInv

LEMMA CountStep == CInv /\ [Next]_vars => TInv /\ TInv' /\ CInv'
  <1>1. CInv /\ [Next]_vars => TInv /\ TInv'
    BY StepType DEF CInv
  <1> QED BY <1>1, StepCounted DEF CInv

LEMMA SeqStutters ==
  ASSUME TInv, TInv', SInv, UNCHANGED vars
  PROVE  SInv'
  <1>1. Calm' /\ OneToken'
    BY DEF vars, SInv, Calm, OneToken, Live, Busy, News
  <1>2. Tasks'
    BY DEF vars, SInv, Tasks, Occupied, On, Live, News, Cur, Holds
  <1>3. \A t \in Step : Fact(t)'
    BY FactsStay DEF vars
  <1>4. Ending' => AllOver'
    BY DEF vars, SInv, Ending, AllOver, At, Working
  <1> QED BY <1>1, <1>2, <1>3, <1>4 DEF SInv

(* One lemma for each disjunct of the next-state relation.                 *)
LEMMA SeqStep ==
  ASSUME Alone
  PROVE  SeqInv /\ [Next]_vars => SeqInv'
  <1> SUFFICES ASSUME CInv, SInv, [Next]_vars PROVE CInv' /\ SInv'
    BY DEF SeqInv
  <1>1. TInv /\ TInv' /\ CInv'
    BY CountStep
  <1>2. CASE LoopStep
    BY <1>1, <1>2, LoopStepKeeps
  <1>3. ASSUME NEW f \in Fiber, OtherStep(f) PROVE SInv'
    BY <1>1, <1>3, RecomputeStepKeeps, WorkerStepKeeps, RemoveKeeps DEF OtherStep
  <1>4. ASSUME NEW s \in Session, AgentStep(s) PROVE SInv'
    BY <1>1, <1>4, AgentStepKeeps
  <1>5. CASE UserStep
    BY <1>1, <1>5, UserStepKeeps
  <1>6. CASE UNCHANGED vars
    BY <1>1, <1>6, SeqStutters
  <1> QED BY <1>1, <1>2, <1>3, <1>4, <1>5, <1>6 DEF Next

LEMMA SeqInvariant ==
  ASSUME Alone
  PROVE  Spec => []SeqInv
  <1>1. Init => SeqInv
    BY InitType, InitCounted, SeqInit DEF SeqInv, CInv
  <1>2. SeqInv /\ [Next]_vars => SeqInv'
    BY SeqStep
  <1> QED BY <1>1, <1>2, PTL DEF Spec

-----------------------------------------------------------------------------
(* What a step may do to the branch and worktree of step t: a worktree and *)
(* its commits go only when a fiber that holds the step discards them, and *)
(* commits reach main only when such a fiber merges them.                  *)
Keeps(t) == /\ git[t].dir => git'[t].dir
            /\ git[t].ahead => git'[t].ahead
            /\ git'[t].landed = git[t].landed
Discards(t) == \E f \in Fiber : /\ fib[f].pc \in {"discard", "removing"}
                                /\ Cur(f).t = t
                                /\ git' = Discarded(t)
Merges(t)   == \E f \in Fiber : /\ fib[f].pc \in {"merge", "remerge"}
                                /\ Cur(f).t = t
                                /\ git' = Landed(t)

LEMMA DiscardedTree ==
  ASSUME TInv, NEW f \in Fiber, fib[f].pc \in {"discard", "removing"},
         git' = Discarded(Cur(f).t), NEW t \in Step
  PROVE  Keeps(t) \/ Discards(t)
  <1>1. CASE Cur(f).t = t
    BY <1>1 DEF Discards
  <1>2. CASE Cur(f).t # t
    BY <1>2 DEF Keeps, Discarded, TInv, TypeOK
  <1> QED BY <1>1, <1>2

LEMMA LandedBranch ==
  ASSUME TInv, NEW f \in Fiber, fib[f].pc \in {"merge", "remerge"},
         git' = Landed(Cur(f).t), NEW t \in Step
  PROVE  Keeps(t) \/ Merges(t)
  <1>1. CASE Cur(f).t = t
    BY <1>1 DEF Merges
  <1>2. CASE Cur(f).t # t
    BY <1>2 DEF Keeps, Landed, TInv, TypeOK, GitRec
  <1> QED BY <1>1, <1>2

LEMMA MergedBranch ==
  ASSUME TInv, NEW t \in Step, Merges(t)
  PROVE  /\ git'[t].dir = git[t].dir
         /\ git[t].ahead => git'[t].landed
  <1>1. git' = Landed(t)
    BY DEF Merges
  <1>2. git[t] \in GitRec
    BY DEF TInv, TypeOK
  <1>3. git'[t] = [git[t] EXCEPT !.ahead = FALSE, !.behind = FALSE,
                                 !.landed = git[t].landed \/ git[t].ahead]
    BY <1>1 DEF Landed
  <1> DEFINE l == git[t].landed \/ git[t].ahead
  <1> HIDE DEF l
  <1>4. git'[t] = [git[t] EXCEPT !.ahead = FALSE, !.behind = FALSE, !.landed = l]
    BY <1>3 DEF l
  <1>5. git'[t].dir = git[t].dir /\ git'[t].landed = l
    BY <1>2, <1>4 DEF GitRec
  <1> QED BY <1>5 DEF l

LEMMA BranchStep ==
  ASSUME TInv, [Next]_vars, NEW t \in Step
  PROVE  Keeps(t) \/ Discards(t) \/ Merges(t)
  <1>1. git \in [Step -> GitRec]
    BY DEF TInv, TypeOK
  <1>2. UNCHANGED git => Keeps(t)
    BY DEF Keeps
  <1>3. ASSUME NEW f \in Fiber, RecomputeStep(f) PROVE Keeps(t)
    <2>1. CASE CreateWorktree(f)
      <3>1. PICK u : u = Cur(f).t
        OBVIOUS
      <3>2. \/ UNCHANGED git
            \/ git' = [git EXCEPT ![u] =
                         [@ EXCEPT !.dir = TRUE, !.lock = "none",
                                   !.behind = git[u].ahead /\ git[u].behind,
                                   !.checked = git[u].ahead /\ git[u].checked]]
        BY <2>1, <3>1 DEF CreateWorktree
      <3>3. CASE u = t /\ ~UNCHANGED git
        <4>1. git[t] \in GitRec /\ DOMAIN git = Step
          BY <1>1
        <4>2. git'[t] = [git[t] EXCEPT !.dir = TRUE, !.lock = "none",
                                       !.behind = git[t].ahead /\ git[t].behind,
                                       !.checked = git[t].ahead /\ git[t].checked]
          BY <3>2, <3>3, <4>1
        <4> DEFINE b == git[t].ahead /\ git[t].behind  c == git[t].ahead /\ git[t].checked
        <4> HIDE DEF b, c
        <4>3. git'[t] = [git[t] EXCEPT !.dir = TRUE, !.lock = "none",
                                       !.behind = b, !.checked = c]
          BY <4>2 DEF b, c
        <4> QED BY <4>1, <4>3 DEF Keeps, GitRec
      <3>4. CASE u # t
        BY <1>1, <3>2, <3>4 DEF Keeps
      <3> QED BY <1>2, <3>3, <3>4
    <2>2. CASE InstallDone(f)
      BY <1>1, <2>2 DEF InstallDone, Keeps, GitRec
    <2>3. ASSUME NEW s \in Session, SpawnAgent(f, s) PROVE Keeps(t)
      BY <1>1, <2>3 DEF SpawnAgent, Keeps, GitRec
    <2> QED BY <1>2, <1>3, <2>1, <2>2, <2>3
            DEF RecomputeStep, Recompute, StartReadySteps, SpawnFails,
                TestComplete, SmokeTestDone, FinishPlan, EndRecompute
  <1>4. ASSUME NEW f \in Fiber, RemoveWorktree(f) PROVE Keeps(t) \/ Discards(t)
    BY <1>4, DiscardedTree DEF RemoveWorktree, At
  <1>5. ASSUME NEW w \in Worker, WorkerStep(w)
        PROVE  Keeps(t) \/ Discards(t) \/ Merges(t)
    <2>0. w \in Fiber
      BY DEF Fiber
    <2>1. CASE DiscardEmpty(w)
      BY <1>2, <2>0, <2>1, DiscardedTree DEF DiscardEmpty, At
    <2>2. CASE RemoveWorktree(w)
      BY <1>4, <2>0, <2>2
    <2>3. (git' = [git EXCEPT ![Cur(w).t].checked = FALSE]) => Keeps(t)
      BY <1>1 DEF Keeps, GitRec
    <2>4. CASE CheckWork(w)
      BY <1>1, <1>2, <2>4 DEF CheckWork, Keeps, GitRec
    <2>5. CASE Verify(w) \/ Reverify(w)
      BY <1>2, <2>3, <2>5 DEF Verify, Reverify, RetryOrFail
    <2>6. CASE Merge(w) \/ Remerge(w)
      BY <1>2, <2>0, <2>6, LandedBranch DEF Merge, Remerge, MergeSucceeds, At
    <2>7. CASE Rebase(w)
      BY <1>1, <1>2, <2>7 DEF Rebase, CleanRebase, Keeps, GitRec
    <2>8. CASE QuickRebase(w)
      BY <1>1, <1>2, <2>8 DEF QuickRebase, Keeps, GitRec
    <2> QED BY <1>2, <1>5, <2>1, <2>2, <2>4, <2>5, <2>6, <2>7, <2>8
            DEF WorkerStep, Arbitrate, PauseAfterFailure, VerificationOver
  <1>6. CASE LoopStep
    <2>1. \A T : (git' = Unlocked(T)) => Keeps(t)
      BY <1>1 DEF Unlocked, Keeps, GitRec
    <2>2. CASE HandleResume
      BY <1>1, <2>2 DEF HandleResume, Unlocked, Keeps, GitRec
    <2> QED BY <1>2, <1>6, <2>1, <2>2
            DEF LoopStep, LoopWaits, LoopExits, HandleCompleted, HandleDone,
                HandlePause, PauseStep, PauseReset, HandleSkip, HandleRetry,
                HandleStall
  <1>7. ASSUME NEW s \in Session, AgentStep(s) PROVE Keeps(t)
    <2>1. CASE AgentCommit(s)
      BY <1>1, <2>1 DEF AgentCommit, Keeps, GitRec
    <2> QED BY <1>2, <1>7, <2>1 DEF AgentStep, AgentExit, StopNoticed
  <1>8. CASE UserStep
    <2>1. CASE UserCommit
      BY <1>1, <2>1 DEF UserCommit, Keeps, GitRec
    <2> QED BY <1>2, <1>8, <2>1
            DEF UserStep, UserPause, UserResume, UserStop, StallTimer, UserSkip,
                UserRetry, UserClose, UserKill
  <1>9. CASE UNCHANGED vars
    BY <1>2, <1>9 DEF vars
  <1> QED BY <1>3, <1>4, <1>5, <1>6, <1>7, <1>8, <1>9, LoopIsFiber DEF Next, OtherStep

(* An agent starts only where startSession() returns.                      *)
LEMMA WhoStarts ==
  ASSUME TInv, [Next]_vars, NEW t \in Step, Starts(t)
  PROVE  \E f \in Fiber, s \in Session : SpawnAgent(f, s) /\ Cur(f).t = t
  <1>1. PICK s \in Session : s \in LiveOn(t)' /\ s \notin LiveOn(t)
    BY DEF Starts, LiveOn
  <1>2. /\ sess'[s].st = "live" /\ sess'[s].t = t
        /\ ~(sess[s].st = "live" /\ sess[s].t = t)
    BY <1>1 DEF LiveOn
  <1>3. sess \in [Session -> SessRec]
    BY DEF TInv, TypeOK
  <1>4. ~UNCHANGED sess
    BY <1>2
  <1>5. \A r, x : x # "live" => ~(sess' = [sess EXCEPT ![r].st = x])
    BY <1>2, <1>3 DEF SessRec
  <1>6. ASSUME NEW f \in Fiber, RecomputeStep(f)
        PROVE  \E r \in Session : SpawnAgent(f, r) /\ Cur(f).t = t
    <2>1. PICK r \in Session : SpawnAgent(f, r)
      BY <1>4, <1>6
      DEF RecomputeStep, Recompute, StartReadySteps, CreateWorktree, InstallDone,
          SpawnFails, TestComplete, SmokeTestDone, FinishPlan, EndRecompute
    <2>2. sess' = [sess EXCEPT ![r] = [st |-> "live", t |-> Cur(f).t]]
      BY <2>1 DEF SpawnAgent
    <2>3. Cur(f).t = t
      BY <1>2, <1>3, <2>2
    <2> QED BY <2>1, <2>3
  <1>7. ~RemoveWorktree(Loop) /\ \A w \in Worker : ~WorkerStep(w)
    BY <1>4 DEF RemoveWorktree, WorkerStep, CheckWork, Arbitrate, DiscardEmpty,
                PauseAfterFailure, Verify, Merge, Rebase, Reverify, RetryOrFail,
                Remerge, QuickRebase, VerificationOver
  <1>8. ~LoopStep
    BY <1>4, <1>5
    DEF LoopStep, LoopWaits, LoopExits, HandleCompleted, HandleDone, HandlePause,
        PauseStep, PauseReset, HandleResume, HandleSkip, HandleRetry, HandleStall
  <1>9. \A r \in Session : ~AgentStep(r)
    BY <1>4, <1>5 DEF AgentStep, AgentCommit, AgentExit, StopNoticed
  <1>10. ~UserStep
    BY <1>4, <1>5
    DEF UserStep, UserPause, UserResume, UserStop, UserCommit, StallTimer,
        UserSkip, UserRetry, UserClose, UserKill
  <1>11. ~UNCHANGED vars
    BY <1>4 DEF vars
  <1> QED BY <1>6, <1>7, <1>8, <1>9, <1>10, <1>11 DEF Next, OtherStep

-----------------------------------------------------------------------------
(* One agent at a time and no calls: a step gets no more attempts than     *)
(* maxRetries allows, it is done only with its commits in main, and one    *)
(* agent runs at most (handleWorktreeCompletion, handleAutoRebase,         *)
(* startReadySteps).  An oracle may call a step done that has no commits.  *)
THEOREM StepsStaySound ==
  ASSUME Alone, ~ZeroCommitOracle
  PROVE  Spec => []StepsSound
  <1>1. SeqInv => StepsSound
    <2> SUFFICES ASSUME SeqInv PROVE StepsSound
      OBVIOUS
    <2>1. RetriesBounded /\ DoneMeansLanded
      BY DEF SeqInv, SInv, Fact, Good, RetriesBounded, DoneMeansLanded
    <2>2. \A s, r \in Live : s = r
      BY DEF SeqInv, SInv, OneToken
    <2>3. Cardinality(Live) <= 1
      <3>1. CASE Live = {}
        BY <3>1, FS_EmptySet
      <3>2. CASE Live # {}
        <4>1. PICK s \in Live : TRUE
          BY <3>2
        <4>2. Live = {s}
          BY <2>2, <4>1
        <4> QED BY <4>2, FS_Singleton
      <3> QED BY <3>1, <3>2
    <2> QED BY <2>1, <2>3 DEF StepsSound, AgentsBounded, Alone
  <1> QED BY <1>1, SeqInvariant, PTL

(* The plan is not marked done and run() does not return while a step is   *)
(* left or a handler at work (isPlanTerminal, shouldExitLoop): the smoke   *)
(* test and the marking come after an await, and nothing begins meanwhile. *)
THEOREM PlanEndsOver ==
  ASSUME Alone
  PROVE  Spec => []PlanOver
  <1>1. SeqInv => PlanOver
    BY DEF SeqInv, SInv, Ending, AllOver, PlanOver, PlanDoneIsComplete, ExitMeansOver
  <1> QED BY <1>1, SeqInvariant, PTL

(* A step in progress has an agent to which the executor listens, or the   *)
(* news of its end is in the queue or with a handler; a step under         *)
(* verification is in the hands of a handler that writes to the plan, and  *)
(* not to a copy that recomputePlan() has left behind.                     *)
THEOREM NoneForgotten ==
  ASSUME Alone
  PROVE  Spec => []Attended
  <1>1. SeqInv => Attended
    <2> SUFFICES ASSUME SeqInv, NEW t \in Occupied
                 PROVE  /\ step[t].status = "in-progress" =>
                             \/ LiveOn(t) \cap mapped # {}
                             \/ \E i \in DOMAIN queue : /\ queue[i].type = "agent_completed"
                                                        /\ queue[i].t = t
                             \/ \E f \in Fiber : fib[f].hold # <<>> /\ Cur(f).t = t
                        /\ step[t].status = "verifying" =>
                             \E w \in Worker : /\ fib[w].hold # <<>> /\ Cur(w).t = t
                                               /\ Working(w) /\ ~Cur(w).stale
      BY DEF Occupied, Attended, InProgressIsAttended, VerifyingIsAttended
    <2>1. TInv /\ SInv
      BY DEF SeqInv, CInv
    <2>2. On(t)
      BY <2>1 DEF SInv, Tasks
    <2>3. CASE \E s \in Live : sess[s].t = t
      <3>1. PICK s \in Live : sess[s].t = t
        BY <2>3
      <3>2. s \in LiveOn(t) \cap mapped /\ step[t].status = "in-progress"
        BY <2>1, <3>1 DEF SInv, Calm, Tasks, Live, LiveOn
      <3> QED BY <3>2
    <2>4. CASE \E i \in DOMAIN queue : News(i) /\ queue[i].t = t
      BY <2>1, <2>4 DEF SInv, Tasks, News
    <2>5. CASE \E f \in Fiber : fib[f].pc \in HeldPC /\ Cur(f).t = t
      <3>1. PICK f \in Fiber : fib[f].pc \in HeldPC /\ Cur(f).t = t
        BY <2>5
      <3>2. fib[f].pc \in HoldPC /\ f \in Worker /\ Working(f)
        BY <2>1, <3>1
        DEF SInv, Calm, Fiber, HoldPC, HeldPC, JudgePC, StartPC, Working
      <3>3. fib[f].hold # <<>> /\ ~Cur(f).stale
        BY <2>1, <3>2, ObjectFacts
      <3> QED BY <3>1, <3>2, <3>3
    <2> QED BY <2>2, <2>3, <2>4, <2>5 DEF On
  <1> QED BY <1>1, SeqInvariant, PTL

(* No agent starts for a step before everything that blocks it is resolved *)
(* in the plan or closed on disk, although worktrees are created and       *)
(* dependencies installed between the choice of a step and its start       *)
(* (startReadySteps, startStep).                                           *)
THEOREM StartsRespectDependencies ==
  ASSUME Alone
  PROVE  Spec => DependenciesRespected
  <1>1. SeqInv /\ [Next]_vars =>
          [\A t \in Step : Starts(t) =>
             \A d \in BlockedBy[t] :
               d \in closed \/ step[d].status \in {"done", "skipped"}]_vars
    <2> SUFFICES ASSUME SeqInv, [Next]_vars, NEW t \in Step, Starts(t),
                        NEW d \in BlockedBy[t]
                 PROVE  d \in closed \/ step[d].status \in {"done", "skipped"}
      OBVIOUS
    <2>1. TInv /\ SInv
      BY DEF SeqInv, CInv
    <2>2. PICK f \in Fiber, s \in Session : SpawnAgent(f, s) /\ Cur(f).t = t
      BY <2>1, WhoStarts
    <2>3. fib[f].pc \in HoldPC
      BY <2>2 DEF SpawnAgent, At, HoldPC
    <2> QED BY <2>1, <2>2, <2>3, ObjectFacts DEF Unresolved
  <1> QED BY <1>1, SeqInvariant, PTL DEF Spec, DependenciesRespected

(* A plan that a failure has paused starts no agent, not even for a step   *)
(* that was chosen before the failure (pauseOnFailure, startReadySteps).   *)
THEOREM PausedPlanStartsNothing ==
  ASSUME Alone
  PROVE  Spec => PausedStartsNothing
  <1>1. SeqInv /\ [Next]_vars =>
          [planStatus = "paused" => \A t \in Step : ~Starts(t)]_vars
    <2> SUFFICES ASSUME SeqInv, [Next]_vars, NEW t \in Step, Starts(t)
                 PROVE  planStatus # "paused"
      OBVIOUS
    <2>1. TInv /\ SInv
      BY DEF SeqInv, CInv
    <2>2. PICK f \in Fiber, s \in Session : SpawnAgent(f, s) /\ Cur(f).t = t
      BY <2>1, WhoStarts
    <2>3. fib[f].pc \in HoldPC /\ fib[f].pc \in StartPC
      BY <2>2 DEF SpawnAgent, At, HoldPC, StartPC
    <2> QED BY <2>1, <2>3, ObjectFacts
  <1> QED BY <1>1, SeqInvariant, PTL DEF Spec, PausedStartsNothing

(* A worktree has one agent at a time, and it is not removed while one is  *)
(* at work in it (handleWorktreeCompletion, WorktreeManager.remove).       *)
THEOREM WorktreesAreOwned ==
  ASSUME Alone
  PROVE  Spec => OwnTree
  <1>1. SeqInv => OneAgentPerStep
    <2> SUFFICES ASSUME SeqInv, NEW t \in Step PROVE Cardinality(LiveOn(t)) <= 1
      BY DEF OneAgentPerStep
    <2>1. \A s, r \in LiveOn(t) : s = r
      BY DEF SeqInv, SInv, OneToken, Live, LiveOn
    <2>2. CASE LiveOn(t) = {}
      BY <2>2, FS_EmptySet
    <2>3. CASE LiveOn(t) # {}
      <3>1. PICK s \in LiveOn(t) : TRUE
        BY <2>3
      <3>2. LiveOn(t) = {s}
        BY <2>1, <3>1
      <3> QED BY <3>2, FS_Singleton
    <2> QED BY <2>2, <2>3
  <1>2. SeqInv /\ [Next]_vars =>
          \A t \in Step : git[t].dir /\ ~git'[t].dir => LiveOn(t) = {}
    <2> SUFFICES ASSUME SeqInv, [Next]_vars, NEW t \in Step, git[t].dir, ~git'[t].dir
                 PROVE  LiveOn(t) = {}
      OBVIOUS
    <2>1. TInv /\ SInv
      BY DEF SeqInv, CInv
    <2>2. ~Keeps(t) /\ ~Merges(t)
      BY <2>1, MergedBranch DEF Keeps
    <2>3. PICK f \in Fiber : fib[f].pc \in {"discard", "removing"}
      BY <2>1, <2>2, BranchStep DEF Discards
    <2>4. Live = {}
      BY <2>1, <2>3, HolderFacts DEF Busy, BusyPC
    <2> QED BY <2>4 DEF Live, LiveOn
  <1>3. SeqInv /\ SeqInv' /\ [Next]_vars =>
          [OneAgentPerStep' /\ \A t \in Step : git[t].dir /\ ~git'[t].dir
                                  => LiveOn(t) = {}]_vars
    <2>1. SeqInv' => OneAgentPerStep'
      BY <1>1, PTL
    <2> QED BY <1>2, <2>1
  <1> QED BY <1>3, SeqInvariant, PTL DEF Spec, OwnTree

(* Commits that main lacks are never lost: a branch loses them to main, or *)
(* they stay, whatever fails (WorktreeManager.remove deletes the branch    *)
(* with the worktree of a step that landed or failed without commits).     *)
THEOREM CommitsAreKept ==
  ASSUME Alone
  PROVE  Spec => WorkIsKept
  <1>1. SeqInv /\ [Next]_vars =>
          [\A t \in Step : git[t].ahead /\ ~git'[t].ahead
             => git'[t].landed \/ step'[t].status = "skipped"]_vars
    <2> SUFFICES ASSUME SeqInv, [Next]_vars, NEW t \in Step,
                        git[t].ahead, ~git'[t].ahead
                 PROVE  git'[t].landed
      OBVIOUS
    <2>1. TInv /\ SInv
      BY DEF SeqInv, CInv
    <2>2. ~Keeps(t)
      BY DEF Keeps
    <2>3. CASE Discards(t)
      <3>1. PICK f \in Fiber : /\ fib[f].pc \in {"discard", "removing"}
                               /\ Cur(f).t = t
                               /\ git' = Discarded(t)
        BY <2>3 DEF Discards
      <3>2. ~git[t].tracked
        BY <2>1, <3>1, ObjectFacts DEF Fit, HoldPC
      <3> QED BY <3>1, <3>2 DEF Discarded
    <2>4. CASE Merges(t)
      BY <2>1, <2>4, MergedBranch
    <2> QED BY <2>1, <2>2, <2>3, <2>4, BranchStep
  <1> QED BY <1>1, SeqInvariant, PTL DEF Spec, WorkIsKept

(* While nobody else commits to main, what reaches main is what passed     *)
(* verification: a branch that a rebase has changed is verified again      *)
(* before it is merged (handleAutoRebase).                                 *)
THEOREM VerifiedLands ==
  ASSUME Alone, UserOps = {}
  PROVE  Spec => LandsVerified
  <1>1. SeqInv /\ [Next]_vars =>
          [\A t \in Step : ~git[t].landed /\ git'[t].landed => git[t].checked]_vars
    <2> SUFFICES ASSUME SeqInv, [Next]_vars, NEW t \in Step,
                        ~git[t].landed, git'[t].landed
                 PROVE  git[t].checked
      OBVIOUS
    <2>1. TInv /\ SInv
      BY DEF SeqInv, CInv
    <2>2. ~Keeps(t)
      BY DEF Keeps
    <2>3. ~Discards(t)
      BY <2>1 DEF Discards, Discarded, NoTree, TInv, TypeOK
    <2>4. PICK f \in Fiber : fib[f].pc \in {"merge", "remerge"} /\ Cur(f).t = t
      BY <2>1, <2>2, <2>3, BranchStep DEF Merges
    <2> QED BY <2>1, <2>4, ObjectFacts DEF Fit, HoldPC, JudgePC
  <1> QED BY <1>1, SeqInvariant, PTL DEF Spec, LandsVerified

-----------------------------------------------------------------------------
(* What the executor promises when it starts every step of the plan at     *)
(* once, with as many agents as there are steps: handlers overlap at every *)
(* await, but no step becomes ready again while they do.                   *)

(* No step waits for another or for a slot, and none gets a second try.    *)
AllAtOnce ==
  /\ \A t \in Step : BlockedBy[t] = {}
  /\ Cardinality(Step) <= MaxAgents
  /\ MaxRetries = 0
  /\ "conflict" \in Faults => ~AutoRebase
  /\ UserOps \subseteq {"commit", "close", "stall"}

(* Where run() starts the agents, where a handler has a step in its hands, *)
(* and where a worker has none.                                            *)
BootPC == {"saved"} \cup StartPC
HandPC == {"work", "arbitrate", "verify", "merge", "discard", "removing"}
FreePC == {"failed", "fin", "load", "saved", "term", "smoke", "finish", "end"}

EventTypes == {"agent_completed", "verification_done", "stall_check"}

(* A step is in the hands of its agent, of the news of the agent's end, or *)
(* of a handler.                                                           *)
NewsOn(t) == {i \in DOMAIN queue : News(i) /\ queue[i].t = t}
OneNews(t) == \A i, j \in NewsOn(t) : i = j
Has(w)    == fib[w].pc \in HandPC
Hands(t)  == {w \in Worker : Has(w) /\ Cur(w).t = t}

(* What a handler that waits at p knows of its step, whose object is o and *)
(* whose branch and worktree are g.                                        *)
Suits(p, o, g) ==
  /\ p = "work" => o.status = "in-progress"
  /\ p \in {"arbitrate", "verify", "merge"} => o.status = "verifying"
  /\ p = "discard" => o.status = "failed"
  /\ p = "removing" => o.status = "done"
  /\ p \in {"verify", "merge"} => g.ahead /\ g.checked
  /\ p \in {"arbitrate", "discard", "removing"} => ~(g.tracked /\ g.ahead)
  /\ p = "arbitrate" => ZeroCommitOracle

(* One of them at most ...                                                 *)
Owned(t) ==
  /\ \A s, r \in LiveOn(t) : s = r
  /\ OneNews(t)
  /\ \A v, w \in Hands(t) : v = w
  /\ LiveOn(t) # {} => NewsOn(t) = {} /\ Hands(t) = {}
  /\ NewsOn(t) # {} => Hands(t) = {}

(* ... and one of them while the step is under way.                        *)
Attends(t) ==
  /\ LiveOn(t) # {} \/ NewsOn(t) # {} => step[t].status = "in-progress"
  /\ \A w \in Hands(t) : Suits(fib[w].pc, step[t], git[t])
  /\ step[t].status \in {"in-progress", "verifying"} =>
       \/ step[t].status = "in-progress" /\ (LiveOn(t) # {} \/ NewsOn(t) # {})
       \/ Hands(t) # {}

(* What is true of the object of a step that is tried once.                *)
Once(o, g) == /\ o.status \notin {"blocked", "skipped"}
              /\ o.attempt = 1
              /\ o.status = "done" /\ ~ZeroCommitOracle => g.landed

OnStep(t) == Owned(t) /\ Attends(t) /\ Once(step[t], git[t])

(* Where everybody may be.                                                 *)
Places ==
  /\ \A i \in DOMAIN queue : queue[i].type \in EventTypes
  /\ \A s \in Session : sess[s].st # "stopping"
  /\ Live \subseteq mapped
  /\ fib[Loop].pc \in BootPC \cup {"check", "wait", "exited"}
  /\ \A w \in Worker : /\ fib[w].pc \in HandPC \cup FreePC \cup {"idle"}
                       /\ Has(w) => ~Cur(w).stale /\ Len(fib[w].hold) = 1

(* A session that runs is no longer, or not yet, what others refer to.     *)
Fresh == \A s \in Live : /\ \A i \in DOMAIN queue : queue[i].sid # s
                         /\ \A w \in Worker : fib[w].sid # s

(* run() starts the steps one after the other; nobody else does anything   *)
(* meanwhile, and no step is left when it enters its loop.                 *)
ToStart == {fib[Loop].hold[i].t : i \in DOMAIN fib[Loop].hold}
Boot ==
  /\ fib[Loop].pc \in BootPC =>
       /\ ~booted /\ planStatus = "executing"
       /\ \A w \in Worker : fib[w].pc = "idle"
  /\ fib[Loop].pc = "saved" => Ready = Step
  /\ fib[Loop].pc \in StartPC =>
       /\ Ready = ToStart
       /\ \A i \in DOMAIN fib[Loop].hold : ~fib[Loop].hold[i].stale
       /\ \A i, j \in DOMAIN fib[Loop].hold :
            fib[Loop].hold[i].t = fib[Loop].hold[j].t => i = j
  /\ fib[Loop].pc \notin BootPC => Ready = {}

PInv == /\ Places /\ Fresh /\ Boot
        /\ \A t \in Step : OnStep(t)
        /\ Ending => AllOver

ParInv == CInv /\ PInv

-----------------------------------------------------------------------------
(* How the queue changes the news of a step: not at all, ...               *)
SameNews(t) == /\ NewsOn(t)' = {} <=> NewsOn(t) = {}
               /\ OneNews(t) => OneNews(t)'

LEMMA QueueStays ==
  ASSUME UNCHANGED queue, NEW t
  PROVE  SameNews(t)
  BY DEF SameNews, OneNews, NewsOn, News

(* ... when something else is added to it or taken from it; ...            *)
LEMMA QueueGrows ==
  ASSUME TInv, NEW e \in Event, queue' = Append(queue, e), NEW t
  PROVE  /\ e.type # "agent_completed" \/ e.t # t => SameNews(t)
         /\ e.type = "agent_completed" /\ e.t = t /\ NewsOn(t) = {}
              => NewsOn(t)' # {} /\ OneNews(t)'
         /\ \A i \in DOMAIN queue' : queue'[i] # e =>
              i \in DOMAIN queue /\ queue'[i] = queue[i]
  <1>1. queue \in Seq(Event)
    BY DEF TInv, TypeOK
  <1>2. /\ DOMAIN queue' = 1..Len(queue)+1 /\ DOMAIN queue = 1..Len(queue)
        /\ Len(queue) \in Nat /\ queue'[Len(queue)+1] = e
        /\ \A i \in 1..Len(queue) : queue'[i] = queue[i]
    BY <1>1
  <1>3. \A i \in DOMAIN queue' : i = Len(queue)+1 \/ i \in DOMAIN queue
    BY <1>2
  <1>4. ASSUME e.type # "agent_completed" \/ e.t # t PROVE NewsOn(t)' = NewsOn(t)
    BY <1>2, <1>3, <1>4 DEF NewsOn, News
  <1>5. ASSUME e.type = "agent_completed", e.t = t, NewsOn(t) = {}
        PROVE  NewsOn(t)' = {Len(queue)+1}
    <2>1. Len(queue)+1 \in NewsOn(t)'
      BY <1>2, <1>5 DEF NewsOn, News
    <2>2. \A i \in NewsOn(t)' : i \in DOMAIN queue => i \in NewsOn(t)
      BY <1>2 DEF NewsOn, News
    <2>3. \A i \in NewsOn(t)' : i = Len(queue)+1
      <3>1. NewsOn(t)' \subseteq DOMAIN queue'
        BY DEF NewsOn
      <3> QED BY <1>3, <1>5, <2>2, <3>1
    <2> QED BY <2>1, <2>3
  <1>6. e.type # "agent_completed" \/ e.t # t => SameNews(t)
    BY <1>4 DEF SameNews, OneNews
  <1>7. e.type = "agent_completed" /\ e.t = t /\ NewsOn(t) = {}
          => NewsOn(t)' # {} /\ OneNews(t)'
    BY <1>5 DEF OneNews
  <1> QED BY <1>2, <1>3, <1>6, <1>7

(* ... or that it is taken.                                                *)
LEMMA QueueShrinks ==
  ASSUME TInv, queue # <<>>, queue' = Tail(queue), NEW t
  PROVE  /\ Head(queue) \in Event /\ Head(queue) = queue[1] /\ 1 \in DOMAIN queue
         /\ Head(queue).type # "agent_completed" \/ Head(queue).t # t => SameNews(t)
         /\ Head(queue).type = "agent_completed" /\ Head(queue).t = t /\ OneNews(t)
              => NewsOn(t)' = {} /\ NewsOn(t) # {}
         /\ \A i \in DOMAIN queue' : \E j \in DOMAIN queue : queue'[i] = queue[j]
  <1>1. queue \in Seq(Event)
    BY DEF TInv, TypeOK
  <1>2. /\ DOMAIN queue' = 1..Len(queue)-1 /\ DOMAIN queue = 1..Len(queue)
        /\ Len(queue) \in Nat /\ Len(queue) > 0
        /\ \A i \in 1..Len(queue)-1 : queue'[i] = queue[i+1]
        /\ Head(queue) = queue[1] /\ 1 \in DOMAIN queue /\ Head(queue) \in Event
    BY <1>1
  <1>3. \A i \in DOMAIN queue' : /\ i+1 \in DOMAIN queue /\ queue'[i] = queue[i+1]
                                 /\ i \in Nat /\ i+1 # 1
    BY <1>2
  <1>4. \A j \in DOMAIN queue : j # 1 => j-1 \in DOMAIN queue' /\ queue'[j-1] = queue[j]
    BY <1>2
  <1>5. \A i \in NewsOn(t)' : i+1 \in NewsOn(t) /\ i \in Nat /\ i+1 # 1
    BY <1>3 DEF NewsOn, News
  <1>6. \A j \in NewsOn(t) : j # 1 => j-1 \in NewsOn(t)'
    BY <1>4 DEF NewsOn, News
  <1>7. OneNews(t) => OneNews(t)'
    BY <1>5 DEF OneNews
  <1>8. ASSUME Head(queue).type # "agent_completed" \/ Head(queue).t # t
        PROVE  1 \notin NewsOn(t)
    BY <1>2, <1>8 DEF NewsOn, News
  <1>9. ASSUME Head(queue).type = "agent_completed", Head(queue).t = t
        PROVE  1 \in NewsOn(t)
    BY <1>2, <1>9 DEF NewsOn, News
  <1>10. NewsOn(t)' = {} /\ 1 \notin NewsOn(t) => NewsOn(t) = {}
    BY <1>6
  <1>11. NewsOn(t) = {} => NewsOn(t)' = {}
    BY <1>5
  <1>12. 1 \in NewsOn(t) /\ OneNews(t) => NewsOn(t)' = {}
    BY <1>5 DEF OneNews
  <1>13. \A i \in DOMAIN queue' : \E j \in DOMAIN queue : queue'[i] = queue[j]
    BY <1>3
  <1> QED BY <1>2, <1>7, <1>8, <1>9, <1>10, <1>11, <1>12, <1>13 DEF SameNews

-----------------------------------------------------------------------------
(* What a step must show of a step of the plan that it has nothing to do   *)
(* with.                                                                   *)
KeepsWork(t) == /\ git'[t].tracked = git[t].tracked /\ git'[t].ahead = git[t].ahead
                /\ git'[t].checked = git[t].checked /\ git'[t].landed = git[t].landed

LEMMA Untouched ==
  ASSUME NEW t \in Step, OnStep(t), step'[t] = step[t], LiveOn(t)' = LiveOn(t),
         SameNews(t), Hands(t)' = Hands(t), \A w \in Hands(t) : fib'[w] = fib[w],
         KeepsWork(t)
  PROVE  OnStep(t)'
  <1>1. Owned(t)'
    BY DEF OnStep, Owned, SameNews
  <1>2. Attends(t)'
    BY DEF OnStep, Attends, Suits, SameNews, KeepsWork
  <1>3. Once(step[t], git[t])'
    BY DEF OnStep, Once, KeepsWork
  <1> QED BY <1>1, <1>2, <1>3 DEF OnStep

LEMMA HandsStay ==
  ASSUME NEW t, \A w \in Worker : \/ fib'[w] = fib[w]
                                  \/ w \notin Hands(t) /\ w \notin Hands(t)'
  PROVE  Hands(t)' = Hands(t) /\ \A w \in Hands(t) : fib'[w] = fib[w]
  <1>1. ASSUME NEW w \in Worker, fib'[w] = fib[w]
        PROVE  w \in Hands(t)' <=> w \in Hands(t)
    BY <1>1 DEF Hands, Has, Cur
  <1>2. Hands(t) \subseteq Worker /\ Hands(t)' \subseteq Worker
    BY DEF Hands
  <1> QED BY <1>1, <1>2

(* While run() starts the agents, nobody has a step in his hands that it   *)
(* has not started.                                                        *)
LEMMA ReadyIsFree ==
  ASSUME NEW t \in Step, OnStep(t), step[t].status = "ready"
  PROVE  LiveOn(t) = {} /\ NewsOn(t) = {} /\ Hands(t) = {}
  BY DEF OnStep, Attends, Suits, Hands, Has, HandPC

(* Nothing begins in a plan that is over.                                  *)
LEMMA NotOver ==
  ASSUME PInv, \/ \E t \in Step : step[t].status \in {"ready", "in-progress", "verifying"}
               \/ \E w \in Worker : Working(w)
  PROVE  ~Ending
  BY DEF PInv, AllOver, TerminalStatus

LEMMA BootIsAlone ==
  ASSUME PInv, fib[Loop].pc \in BootPC
  PROVE  /\ \A w \in Worker : fib[w].pc = "idle"
         /\ \A t \in Step : Hands(t) = {}
  BY DEF PInv, Boot, Hands, Has, HandPC

(* A step of the system in which no step of the plan changes hands.        *)
Away(w) == \/ fib'[w] = fib[w]
           \/ /\ fib[w].pc \in FreePC /\ fib'[w].pc \in FreePC \cup {"idle"}
              /\ fib'[w].sid \in {fib[w].sid, NoSession}

LEMMA QuietKeeps ==
  ASSUME TInv, PInv, UNCHANGED <<step, sess, mapped>>,
         \A t \in Step : SameNews(t) /\ KeepsWork(t),
         \A w \in Worker : Away(w),
         \/ fib'[Loop] = fib[Loop]
         \/ fib[Loop].pc \notin BootPC /\ fib'[Loop].pc \in {"check", "wait", "exited"},
         \/ UNCHANGED <<planStatus, booted>>
         \/ fib[Loop].pc \notin BootPC,
         \A i \in DOMAIN queue' : /\ queue'[i].type \in EventTypes
                                  /\ \A s \in Live : queue'[i].sid # s,
         Ending' => AllOver'
  PROVE  PInv'
  <1>1. Live' = Live /\ \A t \in Step : LiveOn(t)' = LiveOn(t)
    <2>1. sess' = sess
      OBVIOUS
    <2> QED BY <2>1 DEF Live, LiveOn
  <1>2. \A w \in Worker : fib'[w] = fib[w] \/ (~Has(w) /\ ~Has(w)')
    BY DEF Away, Has, HandPC, FreePC
  <1>3. ASSUME NEW t \in Step PROVE OnStep(t)'
    <2>1. Hands(t)' = Hands(t) /\ \A w \in Hands(t) : fib'[w] = fib[w]
      BY <1>2, HandsStay DEF Hands
    <2>2. OnStep(t)
      BY DEF PInv
    <2> QED BY <1>1, <2>1, <2>2, Untouched
  <1>4. Places'
    <2>1. \A s \in Session : sess'[s].st # "stopping"
      BY DEF PInv, Places
    <2>2. Live' \subseteq mapped'
      BY <1>1 DEF PInv, Places
    <2>3. fib'[Loop].pc \in BootPC \cup {"check", "wait", "exited"}
      BY DEF PInv, Places
    <2>4. ASSUME NEW w \in Worker
          PROVE  /\ fib'[w].pc \in HandPC \cup FreePC \cup {"idle"}
                 /\ Has(w)' => ~Cur(w)'.stale /\ Len(fib'[w].hold) = 1
      BY <1>2 DEF Away, PInv, Places, Has, Cur
    <2> QED BY <2>1, <2>2, <2>3, <2>4 DEF Places
  <1>5. Fresh'
    <2>1. ASSUME NEW s \in Live, NEW w \in Worker PROVE fib'[w].sid # s
      <3>1. fib'[w].sid \in {fib[w].sid, NoSession}
        BY DEF Away
      <3>2. s # NoSession
        BY ModelAssumption DEF Live
      <3> QED BY <3>1, <3>2 DEF PInv, Fresh
    <2> QED BY <1>1, <2>1 DEF Fresh
  <1>6. Boot'
    <2>1. CASE fib'[Loop] = fib[Loop] /\ fib[Loop].pc \in BootPC
      <3>1. \A w \in Worker : fib'[w].pc = "idle"
        BY <2>1, BootIsAlone DEF Away, FreePC
      <3>2. Ready' = Ready /\ ToStart' = ToStart /\ UNCHANGED <<planStatus, booted>>
        BY <2>1 DEF Ready, ToStart
      <3> QED BY <2>1, <3>1, <3>2 DEF PInv, Boot
    <2>2. CASE fib[Loop].pc \notin BootPC /\ fib'[Loop].pc \notin BootPC
      <3>1. Ready' = {}
        BY <2>2 DEF PInv, Boot, Ready
      <3>2. fib'[Loop].pc \notin {"saved"} \cup StartPC
        BY <2>2 DEF BootPC
      <3> QED BY <2>2, <3>1, <3>2 DEF Boot
    <2>3. \A p \in {"check", "wait", "exited"} : p \notin BootPC
      BY DEF BootPC, StartPC
    <2> QED BY <2>1, <2>2, <2>3
  <1> QED BY <1>3, <1>4, <1>5, <1>6 DEF PInv

LEMMA StillOver ==
  ASSUME PInv, UNCHANGED step, AtWork' = AtWork, Ending' => Ending \/ AllOver
  PROVE  Ending' => AllOver'
  BY AllOverStays DEF PInv

-----------------------------------------------------------------------------
(* A worker without a step goes on.                                        *)
LEMMA FreeMoves ==
  ASSUME TInv, PInv, NEW w \in Worker, fib[w].pc \in FreePC,
         NEW p \in FreePC \cup {"idle"}, Moves(w, p),
         fib'[w].sid \in {fib[w].sid, NoSession},
         UNCHANGED <<step, sess, mapped, git>>,
         \/ queue' = queue
         \/ \E e \in Event : /\ e.type \in EventTypes \ {"agent_completed"}
                             /\ e.sid = NoSession
                             /\ queue' = Append(queue, e),
         Ending' => AllOver'
  PROVE  PInv'
  <1>1. w \in Fiber /\ w # Loop /\ \A v \in Worker : v \in Fiber /\ v # Loop
    BY LoopIsFiber
  <1>2. fib'[Loop] = fib[Loop] /\ \A v \in Worker : Away(v)
    BY <1>1, LoopIsFiber DEF Moves, Away
  <1>3. fib[Loop].pc \notin BootPC
    BY BootIsAlone DEF FreePC
  <1>4. \A t \in Step : SameNews(t) /\ KeepsWork(t)
    BY QueueStays, QueueGrows DEF KeepsWork
  <1>5. \A i \in DOMAIN queue' : /\ queue'[i].type \in EventTypes
                                 /\ \A s \in Live : queue'[i].sid # s
    <2>1. CASE queue' = queue
      BY <2>1 DEF PInv, Places, Fresh
    <2>2. ASSUME NEW e \in Event, e.type \in EventTypes \ {"agent_completed"},
                 e.sid = NoSession, queue' = Append(queue, e)
          PROVE  <1>5!:
      <3>1. NoSession \notin Live
        BY ModelAssumption DEF Live
      <3>2. \A i \in DOMAIN queue' : queue'[i] # e =>
               i \in DOMAIN queue /\ queue'[i] = queue[i]
        BY <2>2, QueueGrows, FirstStep
      <3> QED BY <2>2, <3>1, <3>2 DEF PInv, Places, Fresh
    <2> QED BY <2>1, <2>2
  <1> QED BY <1>2, <1>3, <1>4, <1>5, QuietKeeps

(* After run() has started every step nothing is recomputed.               *)
LEMMA AllSticky ==
  ASSUME TInv, PInv, fib[Loop].pc \notin BootPC, NEW t \in Step
  PROVE  Sticky(step[t].status)
  <1>1. step[t].status # "ready"
    BY DEF PInv, Boot, Ready
  <1>2. step[t].status # "blocked" /\ step[t].status # "skipped"
    BY DEF PInv, OnStep, Once
  <1>3. step[t].status \in Status
    BY DEF TInv, TypeOK, StepObj
  <1> QED BY <1>1, <1>2, <1>3 DEF Sticky, Status

LEMMA NothingCopied ==
  ASSUME TInv, PInv, fib[Loop].pc \notin BootPC, NEW f \in Fiber, Recompute(f)
  PROVE  /\ UNCHANGED step
         /\ fib' = [fib EXCEPT ![f].pc = "saved"]
  <1>1. \A t \in Step : Sticky(step[t].status)
    BY AllSticky
  <1>2. UNCHANGED step
    BY <1>1 DEF Recompute, TInv, TypeOK
  <1>3. Copied = {}
    BY <1>1 DEF Copied
  <1>4. \A e : Detach(e) = e
    BY <1>3 DEF Detach
  <1>5. ASSUME NEW g \in Fiber PROVE Detached(fib[g].hold) = fib[g].hold
    <2>1. fib[g].hold \in Seq(Entry)
      BY DEF TInv, TypeOK, FiberRec
    <2>2. Detached(fib[g].hold) = [i \in DOMAIN fib[g].hold |-> fib[g].hold[i]]
      BY <1>4 DEF Detached
    <2> QED BY <2>1, <2>2
  <1>6. \A g \in Fiber : fib'[g] = IF g = f THEN [fib[g] EXCEPT !.pc = "saved"] ELSE fib[g]
    BY <1>5 DEF Recompute, TInv, TypeOK, FiberRec
  <1>7. fib' = [g \in Fiber |-> fib'[g]]
    BY DEF Recompute
  <1> QED BY <1>2, <1>6, <1>7 DEF TInv, TypeOK

(* recomputeAndContinue() of a worker.                                     *)
LEMMA RecomputeIsQuiet ==
  ASSUME CInv, PInv, NEW w \in Worker, RecomputeStep(w)
  PROVE  PInv'
  <1> USE DEF CInv
  <1>1. w \in Fiber /\ w # Loop
    BY LoopIsFiber
  <1>2. fib[w].pc \in HandPC \cup FreePC \cup {"idle"}
    BY DEF PInv, Places
  <1>3. ~CreateWorktree(w) /\ ~InstallDone(w) /\ (\A s \in Session : ~SpawnAgent(w, s))
        /\ ~SpawnFails(w)
    BY <1>2 DEF CreateWorktree, InstallDone, SpawnAgent, SpawnFails, At, HandPC, FreePC
  <1>4. AtWork' = AtWork
    BY <1>1, RecomputeStays DEF SameWork
  <1>5. fib[w].pc \in FreePC /\ fib[Loop].pc \notin BootPC
    <2>1. fib[w].pc \in FreePC
      BY <1>3 DEF RecomputeStep, Recompute, StartReadySteps, TestComplete,
                  SmokeTestDone, FinishPlan, EndRecompute, At, FreePC
    <2> QED BY <2>1, BootIsAlone DEF FreePC
  <1>6. fib[w].pc \in {"smoke", "finish"} => Ending
    BY DEF Ending
  <1>7. fib[w] \in FiberRec
    BY <1>1 DEF TInv, TypeOK
  <1>8. ASSUME NEW p, Moves(w, p), p \notin {"smoke", "finish"}, UNCHANGED <<planStatus, running>>
        PROVE  Ending' => Ending
    BY <1>1, <1>8, LoopIsFiber DEF Ending, Moves, At
  <1>9. ASSUME NEW p, Goto(w, p) PROVE Moves(w, p) /\ fib'[w].sid = fib[w].sid
    BY <1>1, <1>7, <1>9, GotoMoves DEF Goto, TInv, TypeOK, FiberRec
  <1>10. CASE Recompute(w)
    <2>1. UNCHANGED step /\ Goto(w, "saved")
      BY <1>1, <1>5, <1>10, NothingCopied DEF Goto
    <2>2. Ending' => AllOver'
      BY <1>4, <1>8, <1>9, <1>10, <2>1, StillOver DEF Recompute
    <2> QED BY <1>5, <1>9, <1>10, <2>1, <2>2, FreeMoves DEF Recompute, FreePC
  <1>11. CASE StartReadySteps(w)
    <2>1. Ready = {}
      BY <1>5 DEF PInv, Boot
    <2>2. Goto(w, "term")
      BY <1>1, <1>11, <2>1 DEF StartReadySteps, AfterStart
    <2>3. Ending' => AllOver'
      BY <1>4, <1>8, <1>9, <1>11, <2>2, StillOver DEF StartReadySteps
    <2> QED BY <1>5, <1>9, <1>11, <2>2, <2>3, FreeMoves DEF StartReadySteps, FreePC
  <1>12. CASE TestComplete(w)
    <2> DEFINE p == IF ShouldExitLoop THEN "smoke" ELSE "end"
    <2>1. Goto(w, p) /\ p \in FreePC
      BY <1>12 DEF TestComplete, FreePC
    <2>2. Ending' => Ending \/ ShouldExitLoop
      BY <1>1, <1>9, <1>12, <2>1, LoopIsFiber DEF TestComplete, Ending, At, Moves
    <2>3. Ending' => AllOver'
      BY <1>4, <1>12, <2>2, TerminalIsOver, StillOver DEF TestComplete, ShouldExitLoop
    <2> HIDE DEF p
    <2> QED BY <1>5, <1>9, <1>12, <2>1, <2>3, FreeMoves DEF TestComplete
  <1>13. CASE SmokeTestDone(w)
    <2>1. Goto(w, "finish") /\ Ending
      BY <1>6, <1>13 DEF SmokeTestDone, At
    <2>2. Ending' => AllOver'
      BY <1>4, <1>13, <2>1, StillOver DEF SmokeTestDone
    <2> QED BY <1>5, <1>9, <1>13, <2>1, <2>2, FreeMoves DEF SmokeTestDone, FreePC
  <1>14. CASE FinishPlan(w)
    <2>1. Goto(w, "end") /\ Ending
      BY <1>6, <1>14 DEF FinishPlan, At
    <2>2. Ending' => AllOver'
      BY <1>4, <1>14, <2>1, StillOver DEF FinishPlan
    <2> QED BY <1>5, <1>9, <1>14, <2>1, <2>2, FreeMoves DEF FinishPlan, FreePC
  <1>15. CASE EndRecompute(w)
    <2> DEFINE e == [type |-> "verification_done", t |-> StepSeq[1], sid |-> NoSession]
    <2>1. Moves(w, "idle") /\ fib'[w].sid = NoSession
      BY <1>1, <1>15 DEF EndRecompute, Moves, IdleFiber, TInv, TypeOK
    <2>2. /\ e \in Event /\ queue' = Append(queue, e)
          /\ e.type \in EventTypes \ {"agent_completed"} /\ e.sid = NoSession
      BY <1>1, <1>15, FirstStep DEF EndRecompute, Event, EventTypes
    <2> HIDE DEF e
    <2>3. Ending' => AllOver'
      BY <1>4, <1>8, <1>15, <2>1, StillOver DEF EndRecompute
    <2> QED BY <1>5, <1>15, <2>1, <2>2, <2>3, FreeMoves DEF EndRecompute
  <1> QED BY <1>3, <1>10, <1>11, <1>12, <1>13, <1>14, <1>15 DEF RecomputeStep

-----------------------------------------------------------------------------
(* A handler takes its step one await further, or is through with it.      *)
LEMMA HandFacts ==
  ASSUME TInv, PInv, NEW w \in Worker, Has(w)
  PROVE  /\ w \in Fiber /\ w # Loop /\ fib[w] \in FiberRec
         /\ fib[w].pc \in HoldPC /\ fib[w].hold # <<>> /\ Len(fib[w].hold) = 1
         /\ Cur(w).t \in Step /\ ~Cur(w).stale
         /\ Obj(w) = step[Cur(w).t] /\ Obj(w) \in StepObj
         /\ Suits(fib[w].pc, Obj(w), git[Cur(w).t])
         /\ Once(Obj(w), git[Cur(w).t])
         /\ w \in Hands(Cur(w).t) /\ OnStep(Cur(w).t)
         /\ Hands(Cur(w).t) = {w}
         /\ LiveOn(Cur(w).t) = {} /\ NewsOn(Cur(w).t) = {}
         /\ Working(w) /\ ~Ending /\ fib[Loop].pc \notin BootPC
  <1>1. w \in Fiber /\ w # Loop
    BY LoopIsFiber
  <1>2. fib[w].pc \in HoldPC
    BY DEF Has, HandPC, HoldPC
  <1>3. fib[w].hold # <<>>
    BY <1>1, <1>2 DEF TInv, HoldOK
  <1>4. Cur(w).t \in Step /\ Obj(w) \in StepObj /\ fib[w] \in FiberRec
    BY <1>1, <1>3, CurType DEF Entry, TInv, TypeOK
  <1>5. ~Cur(w).stale /\ Len(fib[w].hold) = 1
    BY DEF PInv, Places
  <1>6. Obj(w) = step[Cur(w).t]
    BY <1>5 DEF Obj
  <1>7. w \in Hands(Cur(w).t) /\ OnStep(Cur(w).t)
    BY <1>4 DEF Hands, PInv
  <1>8. /\ Hands(Cur(w).t) = {w}
        /\ LiveOn(Cur(w).t) = {} /\ NewsOn(Cur(w).t) = {}
    BY <1>7 DEF OnStep, Owned
  <1>9. Suits(fib[w].pc, Obj(w), git[Cur(w).t]) /\ Once(Obj(w), git[Cur(w).t])
    BY <1>6, <1>7 DEF OnStep, Attends
  <1>10. Working(w)
    BY DEF Has, HandPC, Working
  <1>11. ~Ending
    BY <1>10, NotOver
  <1>12. fib[Loop].pc \notin BootPC
    BY <1>10, BootIsAlone DEF Working
  <1> QED BY <1>1, <1>2, <1>3, <1>4, <1>5, <1>6, <1>7, <1>8, <1>9, <1>10, <1>11, <1>12

Handles(w, o, p) ==
  /\ Moves(w, p)
  /\ fib'[w].sid = fib[w].sid
  /\ p \in HandPC => fib'[w].hold = fib[w].hold
  /\ step' = [step EXCEPT ![Cur(w).t] = o]

LEMMA HelperHandles ==
  ASSUME TInv, PInv, NEW w \in Worker, Has(w), NEW o, NEW p,
         \/ Become(w, o, p)
         \/ BecomeAndDrop(w, o, p) /\ p \notin HandPC
         \/ Goto(w, p) /\ UNCHANGED step /\ o = Obj(w)
  PROVE  Handles(w, o, p)
  <1>1. Moves(w, p)
    BY HandFacts, HelperMoves
  <1>2. ~Cur(w).stale /\ Obj(w) = step[Cur(w).t] /\ Cur(w).t \in Step /\ w \in Fiber
        /\ fib[w] \in FiberRec
    BY HandFacts
  <1>3. step' = [step EXCEPT ![Cur(w).t] = o]
    BY <1>2 DEF Become, BecomeAndDrop, TInv, TypeOK
  <1>4. p \in HandPC => fib'[w].hold = fib[w].hold
    BY <1>2 DEF Become, Goto, TInv, TypeOK, FiberRec
  <1>5. fib'[w].sid = fib[w].sid
    BY <1>2 DEF Become, BecomeAndDrop, Goto, TInv, TypeOK, FiberRec
  <1> QED BY <1>1, <1>3, <1>4, <1>5 DEF Handles

(* A step that is out of a handler's hands is at its end.                  *)
LEMMA HandlerKeeps ==
  ASSUME TInv, PInv, NEW w \in Worker, Has(w), NEW o \in StepObj,
         NEW p \in HandPC \cup {"failed", "fin"}, Handles(w, o, p),
         UNCHANGED <<sess, queue, running, booted>>,
         mapped' \in {mapped, mapped \ {fib[w].sid}},
         planStatus' \in {planStatus, "paused"},
         Once(o, git'[Cur(w).t]), o.status # "ready",
         p \in HandPC => Suits(p, o, git'[Cur(w).t]),
         p \notin HandPC => o.status \in TerminalStatus,
         \A u \in Step \ {Cur(w).t} : KeepsWork(u)
  PROVE  PInv'
  <1>0. PICK t \in Step : t = Cur(w).t
    BY HandFacts
  <1>1. step'[t] = o /\ \A u \in Step \ {t} : step'[u] = step[u]
    BY <1>0 DEF Handles, TInv, TypeOK
  <1>2. Live' = Live /\ \A u \in Step : LiveOn(u)' = LiveOn(u) /\ SameNews(u)
    <2>1. sess' = sess /\ queue' = queue
      OBVIOUS
    <2> QED BY <2>1, QueueStays DEF Live, LiveOn
  <1>3. fib'[Loop] = fib[Loop] /\ \A v \in Worker \ {w} : fib'[v] = fib[v]
    BY HandFacts, LoopIsFiber DEF Handles, Moves
  <1>4. fib'[w].pc = p /\ fib'[w].sid = fib[w].sid
        /\ (p \in HandPC => fib'[w].hold = fib[w].hold /\ Cur(w)' = Cur(w))
    BY DEF Handles, Moves, Cur
  <1>5. ASSUME NEW u \in Step, u # t PROVE OnStep(u)'
    <2>1. w \notin Hands(u) /\ w \notin Hands(u)'
      BY <1>0, <1>4, <1>5 DEF Hands, Has
    <2>2. Hands(u)' = Hands(u) /\ \A v \in Hands(u) : fib'[v] = fib[v]
      BY <1>3, <2>1, HandsStay
    <2>3. KeepsWork(u) /\ OnStep(u)
      BY <1>0, <1>5 DEF PInv
    <2> QED BY <1>1, <1>2, <1>5, <2>2, <2>3, Untouched
  <1>6. OnStep(t)'
    <2>1. LiveOn(t)' = {} /\ NewsOn(t)' = {} /\ Hands(t) = {w} /\ OneNews(t)'
      BY <1>0, <1>2, HandFacts DEF SameNews, OnStep, Owned
    <2>2. ASSUME NEW v \in Worker, v # w PROVE v \notin Hands(t)'
      <3>1. v \notin Hands(t) /\ fib'[v] = fib[v]
        BY <1>3, <2>1, <2>2
      <3> QED BY <3>1 DEF Hands, Has, Cur
    <2>3. Hands(t)' \subseteq {w} /\ (p \in HandPC <=> w \in Hands(t)')
      BY <1>0, <1>4, <2>2 DEF Hands, Has
    <2>4. Owned(t)'
      BY <2>1, <2>3 DEF Owned
    <2>5. Attends(t)'
      <3>1. \A v \in Hands(t)' : Suits(fib'[v].pc, step'[t], git'[t])
        BY <1>0, <1>1, <1>4, <2>3
      <3>2. o.status \in TerminalStatus => o.status \notin {"in-progress", "verifying"}
        BY DEF TerminalStatus
      <3>3. step'[t].status \in {"in-progress", "verifying"} => Hands(t)' # {}
        BY <1>1, <2>3, <3>2
      <3> QED BY <2>1, <3>1, <3>3 DEF Attends
    <2> QED BY <1>0, <1>1, <2>4, <2>5 DEF OnStep
  <1>7. Places'
    <2>1. \A i \in DOMAIN queue' : queue'[i].type \in EventTypes
      BY DEF PInv, Places
    <2>2. \A s \in Session : sess'[s].st # "stopping"
      BY DEF PInv, Places
    <2>3. Live' \subseteq mapped'
      <3>1. fib[w].sid \notin Live /\ Live \subseteq mapped
        BY DEF PInv, Places, Fresh
      <3> QED BY <1>2, <3>1
    <2>4. fib'[Loop].pc \in BootPC \cup {"check", "wait", "exited"}
      BY <1>3 DEF PInv, Places
    <2>5. ASSUME NEW v \in Worker
          PROVE  /\ fib'[v].pc \in HandPC \cup FreePC \cup {"idle"}
                 /\ Has(v)' => ~Cur(v)'.stale /\ Len(fib'[v].hold) = 1
      <3>1. CASE v = w
        BY <1>4, <3>1, HandFacts DEF Has, FreePC
      <3>2. CASE v # w
        BY <1>3, <3>2 DEF PInv, Places, Has, Cur
      <3> QED BY <3>1, <3>2
    <2> QED BY <2>1, <2>2, <2>3, <2>4, <2>5 DEF Places
  <1>8. Fresh'
    BY <1>2, <1>3, <1>4 DEF PInv, Fresh
  <1>9. Boot'
    <2>1. fib'[Loop].pc \notin BootPC
      BY <1>3, HandFacts
    <2>2. Ready' = {}
      <3>1. Ready = {}
        BY HandFacts DEF PInv, Boot
      <3> QED BY <1>1, <3>1 DEF Ready
    <2>3. fib'[Loop].pc \notin {"saved"} \cup StartPC
      BY <2>1 DEF BootPC
    <2> QED BY <2>1, <2>2, <2>3 DEF Boot
  <1>10. ~Ending'
    <2>1. ~Ending /\ p \notin {"smoke", "finish"}
      BY HandFacts DEF HandPC
    <2> QED BY <1>3, <1>4, <2>1 DEF Ending, At
  <1> QED BY <1>5, <1>6, <1>7, <1>8, <1>9, <1>10 DEF PInv

-----------------------------------------------------------------------------
(* One lemma for each await of a handler.                                  *)
LEMMA WorkIsChecked ==
  ASSUME TInv, PInv, NEW w \in Worker, CheckWork(w)
  PROVE  PInv'
  <1>0. PICK t \in Step : t = Cur(w).t
    <2>1. Has(w)
      BY DEF CheckWork, At, Has, HandPC
    <2> QED BY <2>1, HandFacts
  <1>1. /\ Has(w) /\ fib[w].pc = "work" /\ Obj(w) \in StepObj
        /\ Once(Obj(w), git[t]) /\ Obj(w).status = "in-progress"
    <2>1. Has(w) /\ fib[w].pc = "work"
      BY DEF CheckWork, At, Has, HandPC
    <2> QED BY <1>0, <2>1, HandFacts DEF Suits
  <1>2. git \in [Step -> GitRec] /\ w \in Fiber
    BY LoopIsFiber DEF TInv, TypeOK
  <1> DEFINE O(st) == [Obj(w) EXCEPT !.status = st]
  <1>3. ASSUME HasWork(t), Become(w, O("verifying"), "verify"),
               git' = [git EXCEPT ![t].checked = TRUE]
        PROVE  PInv'
    <2>1. O("verifying") \in StepObj /\ O("verifying").status = "verifying"
          /\ O("verifying").attempt = 1
      BY <1>1 DEF StepObj, Status, Once
    <2>2. git'[t].ahead /\ git'[t].checked /\ git'[t].landed = git[t].landed
      BY <1>2, <1>3 DEF HasWork, GitRec
    <2>3. \A u \in Step \ {t} : KeepsWork(u)
      BY <1>2, <1>3 DEF KeepsWork
    <2>4. Handles(w, O("verifying"), "verify")
      BY <1>1, <1>3, HelperHandles
    <2>5. Once(O("verifying"), git'[t]) /\ Suits("verify", O("verifying"), git'[t])
      BY <2>1, <2>2 DEF Once, Suits
    <2> HIDE DEF O
    <2> QED BY <1>0, <1>1, <2>1, <2>3, <2>4, <2>5, HandlerKeeps DEF CheckWork, HandPC
  <1>4. ASSUME ~HasWork(t), ZeroCommitOracle, Become(w, O("verifying"), "arbitrate"),
               UNCHANGED git
        PROVE  PInv'
    <2>1. O("verifying") \in StepObj /\ O("verifying").status = "verifying"
          /\ O("verifying").attempt = 1
      BY <1>1 DEF StepObj, Status, Once
    <2>2. \A u \in Step : KeepsWork(u)
      BY <1>4 DEF KeepsWork
    <2>3. Handles(w, O("verifying"), "arbitrate")
      BY <1>1, <1>4, HelperHandles
    <2>4. Once(O("verifying"), git'[t]) /\ Suits("arbitrate", O("verifying"), git'[t])
      BY <1>4, <2>1 DEF Once, Suits, HasWork
    <2> HIDE DEF O
    <2> QED BY <1>0, <1>1, <2>1, <2>2, <2>3, <2>4, HandlerKeeps DEF CheckWork, HandPC
  <1>5. ASSUME ~HasWork(t), Become(w, O("failed"), "discard"), UNCHANGED git
        PROVE  PInv'
    <2>1. O("failed") \in StepObj /\ O("failed").status = "failed"
          /\ O("failed").attempt = 1
      BY <1>1 DEF StepObj, Status, Once
    <2>2. \A u \in Step : KeepsWork(u)
      BY <1>5 DEF KeepsWork
    <2>3. Handles(w, O("failed"), "discard")
      BY <1>1, <1>5, HelperHandles
    <2>4. Once(O("failed"), git'[t]) /\ Suits("discard", O("failed"), git'[t])
      BY <1>5, <2>1 DEF Once, Suits, HasWork
    <2> HIDE DEF O
    <2> QED BY <1>0, <1>1, <2>1, <2>2, <2>3, <2>4, HandlerKeeps DEF CheckWork, HandPC
  <1> HIDE DEF O
  <1> QED BY <1>0, <1>3, <1>4, <1>5 DEF CheckWork, O

LEMMA OracleJudges ==
  ASSUME TInv, PInv, NEW w \in Worker, Arbitrate(w)
  PROVE  PInv'
  <1>0. Has(w) /\ fib[w].pc = "arbitrate"
    BY DEF Arbitrate, At, Has, HandPC
  <1>1. PICK t \in Step : t = Cur(w).t
    BY <1>0, HandFacts
  <1>2. /\ Obj(w) \in StepObj /\ Once(Obj(w), git[t]) /\ ZeroCommitOracle
        /\ ~(git[t].tracked /\ git[t].ahead)
    BY <1>0, <1>1, HandFacts DEF Suits
  <1>3. ASSUME NEW st \in {"done", "failed"}, NEW p \in {"removing", "discard"},
               st = "done" <=> p = "removing",
               Become(w, [Obj(w) EXCEPT !.status = st], p)
        PROVE  PInv'
    <2> DEFINE o == [Obj(w) EXCEPT !.status = st]
    <2>1. o \in StepObj /\ o.status = st /\ o.attempt = 1
      BY <1>2 DEF StepObj, Status, Once
    <2>2. \A u \in Step : KeepsWork(u)
      BY DEF Arbitrate, KeepsWork
    <2>3. Handles(w, o, p)
      BY <1>0, <1>3, HelperHandles
    <2> HIDE DEF o
    <2>4. git' = git
      BY DEF Arbitrate
    <2>5. Once(o, git'[t]) /\ Suits(p, o, git'[t])
      BY <1>2, <1>3, <2>1, <2>4 DEF Once, Suits
    <2> QED BY <1>0, <1>1, <2>1, <2>2, <2>3, <2>5, HandlerKeeps DEF Arbitrate, HandPC
  <1>4. CASE Become(w, [Obj(w) EXCEPT !.status = "done"], "removing")
    BY <1>3, <1>4
  <1>5. CASE Become(w, [Obj(w) EXCEPT !.status = "failed"], "discard")
    BY <1>3, <1>5
  <1> QED BY <1>4, <1>5 DEF Arbitrate

(* A worktree that is removed held no commits.                             *)
LEMMA DiscardedKeeps ==
  ASSUME TInv, NEW t \in Step, git' = Discarded(t)
  PROVE  /\ git'[t].landed = git[t].landed
         /\ \A u \in Step \ {t} : KeepsWork(u)
  BY DEF Discarded, NoTree, KeepsWork, TInv, TypeOK

LEMMA EmptyIsDiscarded ==
  ASSUME TInv, PInv, NEW w \in Worker, DiscardEmpty(w) \/ RemoveWorktree(w)
  PROVE  PInv'
  <1>0. Has(w) /\ fib[w].pc \in {"discard", "removing"}
    BY DEF DiscardEmpty, RemoveWorktree, At, Has, HandPC
  <1>1. PICK t \in Step : t = Cur(w).t
    BY <1>0, HandFacts
  <1>2. /\ Obj(w) \in StepObj /\ Once(Obj(w), git[t]) /\ w # Loop
        /\ Obj(w).status \in {"done", "failed"}
    BY <1>0, <1>1, HandFacts DEF Suits
  <1>3. PICK o, p : /\ BecomeAndDrop(w, o, p)
                    /\ o \in {Obj(w), [Obj(w) EXCEPT !.tree = FALSE]}
                    /\ p \in {"failed", "fin"}
    BY <1>2 DEF DiscardEmpty, RemoveWorktree
  <1>4. o \in StepObj /\ o.status = Obj(w).status /\ o.attempt = 1
    BY <1>2, <1>3 DEF StepObj, Once
  <1>5. Handles(w, o, p)
    BY <1>0, <1>3, HelperHandles DEF HandPC
  <1>6. /\ git'[t].landed = git[t].landed
        /\ \A u \in Step \ {t} : KeepsWork(u)
    <2>1. CASE git' = Discarded(t)
      BY <2>1, DiscardedKeeps
    <2>2. CASE git' = git
      BY <2>2 DEF KeepsWork
    <2> QED BY <1>1, <2>1, <2>2 DEF DiscardEmpty, RemoveWorktree
  <1>7. Once(o, git'[t])
    BY <1>2, <1>4, <1>6 DEF Once
  <1>8. o.status # "ready" /\ o.status \in TerminalStatus /\ p \notin HandPC
    BY <1>2, <1>3, <1>4 DEF TerminalStatus, HandPC
  <1>9. UNCHANGED <<sess, queue, running, booted, mapped, planStatus>>
    BY DEF DiscardEmpty, RemoveWorktree
  <1> QED BY <1>0, <1>1, <1>3, <1>4, <1>5, <1>6, <1>7, <1>8, <1>9, HandlerKeeps

(* There is no second attempt.                                             *)
LEMMA VerdictKeeps ==
  ASSUME AllAtOnce, TInv, PInv, NEW w \in Worker, Verify(w)
  PROVE  PInv'
  <1>0. Has(w) /\ fib[w].pc = "verify"
    BY DEF Verify, At, Has, HandPC
  <1>1. PICK t \in Step : t = Cur(w).t
    BY <1>0, HandFacts
  <1>2. /\ Obj(w) \in StepObj /\ Once(Obj(w), git[t]) /\ Obj(w).status = "verifying"
        /\ git[t].ahead /\ git[t].checked
    BY <1>0, <1>1, HandFacts DEF Suits
  <1>3. git \in [Step -> GitRec]
    BY DEF TInv, TypeOK
  <1>4. ASSUME Goto(w, "merge"),
               UNCHANGED <<planStatus, running, booted, step, sess, mapped, queue,
                           active, git, closed, ops>>
        PROVE  PInv'
    <2>1. Handles(w, Obj(w), "merge")
      BY <1>0, <1>4, HelperHandles
    <2>2. Suits("merge", Obj(w), git'[t]) /\ Once(Obj(w), git'[t])
      BY <1>2, <1>4 DEF Suits
    <2>3. \A u \in Step : KeepsWork(u)
      BY <1>4 DEF KeepsWork
    <2> QED BY <1>0, <1>1, <1>2, <1>4, <2>1, <2>2, <2>3, HandlerKeeps DEF HandPC
  <1>5. ASSUME RetryOrFail(w) PROVE PInv'
    <2> DEFINE o == [Obj(w) EXCEPT !.status = "failed"]
    <2>1. ~MayRetry(Obj(w))
      BY <1>2 DEF MayRetry, AllAtOnce, Once
    <2>2. BecomeAndDrop(w, o, "failed") /\ git' = [git EXCEPT ![t].checked = FALSE]
      BY <1>1, <1>5, <2>1 DEF RetryOrFail
    <2>3. o \in StepObj /\ o.status = "failed" /\ o.attempt = 1
      BY <1>2 DEF StepObj, Status, Once
    <2>4. Handles(w, o, "failed")
      BY <1>0, <2>2, HelperHandles DEF HandPC
    <2> HIDE DEF o
    <2>5. \A u \in Step \ {t} : KeepsWork(u)
      BY <1>3, <2>2 DEF KeepsWork
    <2>6. Once(o, git'[t]) /\ o.status \in TerminalStatus /\ "failed" \notin HandPC
      BY <2>3 DEF Once, TerminalStatus, HandPC
    <2> QED BY <1>0, <1>1, <1>5, <2>3, <2>4, <2>5, <2>6, HandlerKeeps DEF RetryOrFail
  <1> QED BY <1>4, <1>5 DEF Verify

(* A merge moves the other branches behind main and changes nothing else.  *)
LEMMA LandingKeeps ==
  ASSUME AllAtOnce, TInv, PInv, NEW w \in Worker, Merge(w)
  PROVE  PInv'
  <1>0. Has(w) /\ fib[w].pc = "merge"
    BY DEF Merge, At, Has, HandPC
  <1>1. PICK t \in Step : t = Cur(w).t
    BY <1>0, HandFacts
  <1>2. /\ Obj(w) \in StepObj /\ Once(Obj(w), git[t]) /\ git[t].ahead
    BY <1>0, <1>1, HandFacts DEF Suits
  <1>3. git \in [Step -> GitRec]
    BY DEF TInv, TypeOK
  <1>4. ASSUME MergeSucceeds(w) PROVE PInv'
    <2> DEFINE o == [Obj(w) EXCEPT !.status = "done"]
    <2>1. Become(w, o, "removing") /\ git' = Landed(t)
      BY <1>1, <1>4 DEF MergeSucceeds
    <2>2. o \in StepObj /\ o.status = "done" /\ o.attempt = 1
      BY <1>2 DEF StepObj, Status, Once
    <2>3. Handles(w, o, "removing")
      BY <1>0, <2>1, HelperHandles
    <2> HIDE DEF o
    <2>4. git[t] \in GitRec
      BY <1>3
    <2>5. git'[t] = [git[t] EXCEPT !.ahead = FALSE, !.behind = FALSE,
                                   !.landed = @ \/ git[t].ahead]
      BY <2>1 DEF Landed
    <2>6. ~git'[t].ahead /\ git'[t].landed
      BY <1>2, <2>4, <2>5 DEF GitRec
    <2>7. \A u \in Step \ {t} : KeepsWork(u)
      BY <1>3, <2>1 DEF Landed, KeepsWork, GitRec
    <2>8. Once(o, git'[t]) /\ Suits("removing", o, git'[t])
      BY <2>2, <2>6 DEF Once, Suits
    <2> QED BY <1>0, <1>1, <1>4, <2>2, <2>3, <2>7, <2>8, HandlerKeeps
            DEF Merge, MergeSucceeds, HandPC
  <1>5. ASSUME NeedsRebase(w), UNCHANGED git PROVE PInv'
    <2> DEFINE o == [Obj(w) EXCEPT !.status = "needs-rebase"]
    <2>1. BecomeAndDrop(w, o, "fin") /\ planStatus' \in {planStatus, "paused"}
      BY <1>5 DEF NeedsRebase
    <2>2. o \in StepObj /\ o.status = "needs-rebase" /\ o.attempt = 1
      BY <1>2 DEF StepObj, Status, Once
    <2>3. Handles(w, o, "fin")
      BY <1>0, <2>1, HelperHandles DEF HandPC
    <2> HIDE DEF o
    <2>4. \A u \in Step : KeepsWork(u)
      BY <1>5 DEF KeepsWork
    <2>5. Once(o, git'[t]) /\ o.status \in TerminalStatus /\ "fin" \notin HandPC
      BY <2>2 DEF Once, TerminalStatus, HandPC
    <2> QED BY <1>0, <1>1, <2>1, <2>2, <2>3, <2>4, <2>5, HandlerKeeps DEF Merge
  <1>6. ASSUME MayConflict(t), NextRebase(w), UNCHANGED git PROVE PInv'
    BY <1>5, <1>6 DEF MayConflict, AllAtOnce, NextRebase, MoreRebases
  <1> QED BY <1>1, <1>4, <1>5, <1>6 DEF Merge

LEMMA HandlerStepKeeps ==
  ASSUME AllAtOnce, CInv, PInv, NEW w \in Worker, WorkerStep(w)
  PROVE  PInv'
  <1> USE DEF CInv
  <1>1. fib[w].pc \in HandPC \cup FreePC \cup {"idle"} /\ w \in Fiber /\ w # Loop
    BY LoopIsFiber DEF PInv, Places
  <1>2. ~Rebase(w) /\ ~Reverify(w) /\ ~Remerge(w) /\ ~QuickRebase(w)
    BY <1>1 DEF Rebase, Reverify, Remerge, QuickRebase, At, HandPC, FreePC
  <1>3. ASSUME NEW p \in {"fin", "load"}, fib[w].pc \in {"failed", "fin"}, Moves(w, p),
               fib'[w].sid \in {fib[w].sid, NoSession},
               UNCHANGED <<running, step, sess, mapped, git, queue>>,
               planStatus' \in {planStatus, "paused"}
        PROVE  PInv'
    <2>1. ~Ending
      BY <1>3, NotOver DEF Working
    <2>2. ~Ending'
      BY <1>1, <1>3, <2>1, LoopIsFiber DEF Ending, Moves, At
    <2> QED BY <1>3, <2>2, FreeMoves DEF FreePC
  <1>4. fib[w] \in FiberRec
    BY <1>1 DEF TInv, TypeOK
  <1>5. CASE PauseAfterFailure(w)
    <2>1. Moves(w, "fin") /\ fib'[w].sid = fib[w].sid
      BY <1>1, <1>4, <1>5, GotoMoves DEF PauseAfterFailure, Goto, TInv, TypeOK, FiberRec
    <2> QED BY <1>3, <1>5, <2>1 DEF PauseAfterFailure, At
  <1>6. CASE VerificationOver(w)
    <2>1. Moves(w, "load") /\ fib'[w].sid = NoSession
      BY <1>1, <1>6 DEF VerificationOver, Moves, IdleFiber, TInv, TypeOK
    <2> QED BY <1>3, <1>6, <2>1 DEF VerificationOver, At
  <1> QED BY <1>2, <1>5, <1>6, WorkIsChecked, OracleJudges, EmptyIsDiscarded,
             VerdictKeeps, LandingKeeps DEF WorkerStep

-----------------------------------------------------------------------------
(* run() starts the agents.                                                *)
LEMMA BootFacts ==
  ASSUME TInv, PInv, fib[Loop].pc \in StartPC
  PROVE  /\ fib[Loop] \in FiberRec /\ fib[Loop].hold \in Seq(Entry)
         /\ fib[Loop].hold # <<>> /\ Len(fib[Loop].hold) > 0
         /\ Cur(Loop) = fib[Loop].hold[1] /\ Cur(Loop).t \in Step /\ ~Cur(Loop).stale
         /\ Obj(Loop) = step[Cur(Loop).t] /\ Obj(Loop) \in StepObj
         /\ Obj(Loop).status = "ready" /\ Obj(Loop).attempt = 1
         /\ Cur(Loop).t \in Ready
         /\ LiveOn(Cur(Loop).t) = {} /\ NewsOn(Cur(Loop).t) = {} /\ Hands(Cur(Loop).t) = {}
         /\ ~booted /\ planStatus = "executing" /\ ~Ending
         /\ \A w \in Worker : fib[w].pc = "idle"
  <1>1. fib[Loop] \in FiberRec /\ fib[Loop].hold \in Seq(Entry)
    BY LoopIsFiber DEF TInv, TypeOK, FiberRec
  <1>2. fib[Loop].hold # <<>>
    BY LoopIsFiber DEF TInv, HoldOK, StartPC, HoldPC
  <1>3. /\ Len(fib[Loop].hold) > 0 /\ Cur(Loop) = fib[Loop].hold[1]
        /\ 1 \in DOMAIN fib[Loop].hold
    BY <1>1, <1>2 DEF Cur
  <1>4. Cur(Loop).t \in Step /\ Obj(Loop) \in StepObj
    BY <1>2, CurType, LoopIsFiber DEF Entry
  <1>5. ~Cur(Loop).stale /\ Cur(Loop).t \in Ready
    BY <1>3 DEF PInv, Boot, ToStart
  <1>6. Obj(Loop) = step[Cur(Loop).t] /\ Obj(Loop).status = "ready"
    BY <1>5 DEF Obj, Ready
  <1>7. /\ OnStep(Cur(Loop).t)
        /\ LiveOn(Cur(Loop).t) = {} /\ NewsOn(Cur(Loop).t) = {} /\ Hands(Cur(Loop).t) = {}
    BY <1>4, <1>6, ReadyIsFree DEF PInv
  <1>8. Obj(Loop).attempt = 1
    BY <1>6, <1>7 DEF OnStep, Once
  <1>9. /\ ~booted /\ planStatus = "executing"
        /\ \A w \in Worker : fib[w].pc = "idle"
    BY DEF PInv, Boot, BootPC
  <1>10. ~Ending
    BY <1>4, <1>6, NotOver
  <1> QED BY <1>1, <1>2, <1>3, <1>4, <1>5, <1>6, <1>7, <1>8, <1>9, <1>10

(* It goes on with the same step, or is through with it.                   *)
Boots(o, p) ==
  /\ Moves(Loop, p)
  /\ step' = [step EXCEPT ![Cur(Loop).t] = o]
  /\ \/ p \in {"install", "spawn"} /\ fib'[Loop].hold = fib[Loop].hold /\ o.status = "ready"
     \/ p = StartNext(Loop) /\ fib'[Loop].hold = Tail(fib[Loop].hold) /\ o.status # "ready"

LEMMA BootKeeps ==
  ASSUME TInv, PInv, fib[Loop].pc \in StartPC, NEW o \in StepObj, NEW p, Boots(o, p),
         UNCHANGED <<queue, running, booted, planStatus>>,
         NEW t \in Step, t = Cur(Loop).t, OnStep(t)',
         \A u \in Step \ {t} : KeepsWork(u) /\ LiveOn(u)' = LiveOn(u),
         Live' \subseteq mapped', \A s \in Session : sess'[s].st # "stopping", Fresh'
  PROVE  PInv'
  <1> DEFINE h == fib[Loop].hold
  <1>1. step'[t] = o /\ \A u \in Step \ {t} : step'[u] = step[u]
    BY DEF Boots, TInv, TypeOK
  <1>2. \A w \in Worker : fib'[w] = fib[w] /\ fib[w].pc = "idle"
    BY BootFacts, LoopIsFiber DEF Boots, Moves
  <1>3. fib'[Loop].pc = p
    BY DEF Boots, Moves
  <1>4. ASSUME NEW u \in Step PROVE OnStep(u)'
    <2>1. CASE u = t
      BY <2>1
    <2>2. CASE u # t
      <3>1. Hands(u)' = Hands(u) /\ \A w \in Hands(u) : fib'[w] = fib[w]
        BY <1>2, HandsStay
      <3>2. KeepsWork(u) /\ LiveOn(u)' = LiveOn(u) /\ OnStep(u) /\ SameNews(u)
        BY <2>2, QueueStays DEF PInv
      <3> QED BY <1>1, <2>2, <3>1, <3>2, Untouched
    <2> QED BY <2>1, <2>2
  <1>5. /\ h \in Seq(Entry) /\ Len(h) > 0 /\ t = h[1].t
        /\ \A i, j \in 1..Len(h) : h[i].t = h[j].t => i = j
        /\ \A i \in 1..Len(h) : ~h[i].stale
        /\ Ready = {h[i].t : i \in 1..Len(h)}
    <2>1. h \in Seq(Entry) /\ Len(h) > 0 /\ t = h[1].t
      BY BootFacts
    <2>2. DOMAIN h = 1..Len(h)
      BY <2>1
    <2> QED BY <2>1, <2>2 DEF PInv, Boot, ToStart
  <1>6. Ready' = IF o.status = "ready" THEN Ready ELSE Ready \ {t}
    <2>1. t \in Ready
      BY BootFacts
    <2> QED BY <1>1, <2>1 DEF Ready
  <1>7. p \in {"install", "spawn", "check", "create"}
    BY BootFacts DEF Boots, StartNext, AfterStart
  <1>8. Boot'
    <2>1. ~booted' /\ planStatus' = "executing" /\ \A w \in Worker : fib'[w].pc = "idle"
      BY <1>2, BootFacts
    <2>2. CASE p \in {"install", "spawn"} /\ fib'[Loop].hold = h /\ o.status = "ready"
      <3>1. ToStart' = Ready'
        BY <1>6, <2>2 DEF ToStart, PInv, Boot
      <3>2. p # "saved" /\ p \in BootPC
        BY <2>2 DEF BootPC, StartPC
      <3> QED BY <1>3, <2>1, <2>2, <3>1, <3>2 DEF PInv, Boot
    <2>3. ASSUME p = StartNext(Loop), fib'[Loop].hold = Tail(h), o.status # "ready"
          PROVE  Boot'
      <3>1. /\ Len(Tail(h)) = Len(h) - 1 /\ DOMAIN Tail(h) = 1..Len(h)-1
            /\ Len(h) \in Nat
            /\ \A i \in 1..Len(h)-1 : Tail(h)[i] = h[i+1] /\ i \in Nat /\ i+1 \in 1..Len(h)
        BY <1>5
      <3>2. CASE Len(h) = 1
        <4>1. p = "check"
          BY <2>3, <3>2, BootFacts DEF StartNext, AfterStart
        <4>2. Ready' = {}
          <5> HIDE DEF h
          <5>1. \A i \in 1..Len(h) : i = 1
            BY <3>2
          <5> QED BY <1>5, <1>6, <2>3, <5>1
        <4>3. p # "saved" /\ p \notin BootPC /\ p \notin StartPC
          BY <4>1 DEF BootPC, StartPC
        <4> QED BY <1>3, <4>2, <4>3 DEF Boot
      <3>3. CASE Len(h) # 1
        <4>1. p = "create"
          BY <2>3, <3>3 DEF StartNext
        <4> DEFINE k == Tail(h)
        <4>2. /\ DOMAIN k = 1..Len(h)-1
              /\ \A i \in 1..Len(h)-1 : k[i] = h[i+1] /\ i \in Nat /\ i+1 \in 1..Len(h)
          BY <3>1
        <4>3. fib'[Loop].hold = k
          BY <2>3
        <4> HIDE DEF k, h
        <4>4. \A i \in DOMAIN k : ~k[i].stale
          BY <1>5, <4>2
        <4>5. \A i, j \in DOMAIN k : k[i].t = k[j].t => i = j
          BY <1>5, <4>2
        <4>6. ToStart' = {k[i].t : i \in DOMAIN k}
          BY <4>3 DEF ToStart
        <4>7. {k[i].t : i \in DOMAIN k} = Ready \ {t}
          <5>1. ASSUME NEW i \in DOMAIN k PROVE k[i].t \in Ready /\ k[i].t # t
            <6>1. k[i] = h[i+1] /\ i+1 \in 1..Len(h) /\ i+1 # 1 /\ 1 \in 1..Len(h)
              BY <1>5, <3>1, <4>2
            <6> QED BY <1>5, <6>1
          <5>2. ASSUME NEW u \in Ready, u # t PROVE \E i \in DOMAIN k : k[i].t = u
            <6>1. PICK j \in 1..Len(h) : h[j].t = u
              BY <1>5
            <6>2. j # 1 /\ j-1 \in 1..Len(h)-1 /\ (j-1)+1 = j
              BY <1>5, <3>1, <5>2, <6>1
            <6>3. k[j-1] = h[j]
              BY <4>2, <6>2
            <6> QED BY <4>2, <6>1, <6>2, <6>3
          <5> QED BY <5>1, <5>2
        <4>8. Ready' = ToStart'
          BY <1>6, <2>3, <4>6, <4>7
        <4>9. p # "saved" /\ p \in BootPC /\ p \in StartPC
          BY <4>1 DEF BootPC, StartPC
        <4> QED BY <1>3, <2>1, <4>3, <4>4, <4>5, <4>8, <4>9 DEF Boot
      <3> QED BY <3>2, <3>3
    <2> QED BY <2>2, <2>3 DEF Boots
  <1>9. Places'
    <2>1. fib'[Loop].pc \in BootPC \cup {"check", "wait", "exited"}
      BY <1>3, <1>7 DEF BootPC, StartPC
    <2>2. \A i \in DOMAIN queue' : queue'[i].type \in EventTypes
      BY DEF PInv, Places
    <2>3. \A w \in Worker : fib'[w].pc = "idle" /\ ~Has(w)'
      BY <1>2 DEF Has, HandPC
    <2> QED BY <2>1, <2>2, <2>3 DEF Places
  <1>10. ~Ending'
    <2>1. ~Ending /\ p # "exited"
      BY <1>7, BootFacts
    <2> QED BY <1>2, <1>3, <2>1 DEF Ending, At
  <1> HIDE DEF h
  <1> QED BY <1>4, <1>8, <1>9, <1>10 DEF PInv

(* No agent has been started yet, or none will be.                         *)
LEMMA BootGoesOn ==
  ASSUME TInv, PInv, fib[Loop].pc \in StartPC, NEW o \in StepObj, NEW p, Boots(o, p),
         UNCHANGED <<sess, mapped, queue, running, booted, planStatus>>,
         o.status \in {"ready", "failed"}, o.attempt = 1,
         NEW t \in Step, t = Cur(Loop).t, \A u \in Step \ {t} : KeepsWork(u)
  PROVE  PInv'
  <1>1. step'[t] = o
    BY DEF Boots, TInv, TypeOK
  <1>2. Live' = Live /\ \A u \in Step : LiveOn(u)' = LiveOn(u) /\ SameNews(u)
    <2>1. sess' = sess /\ queue' = queue
      OBVIOUS
    <2> QED BY <2>1, QueueStays DEF Live, LiveOn
  <1>3. \A w \in Worker : fib'[w] = fib[w]
    BY LoopIsFiber DEF Boots, Moves
  <1>4. OnStep(t)'
    <2>1. Hands(t)' = {} /\ LiveOn(t)' = {} /\ NewsOn(t)' = {} /\ OneNews(t)'
      <3>1. OnStep(t) /\ Hands(t)' = Hands(t)
        BY <1>3, HandsStay DEF PInv
      <3> QED BY <1>2, <3>1, BootFacts DEF SameNews, OnStep, Owned
    <2>2. Owned(t)'
      BY <2>1 DEF Owned
    <2>3. Attends(t)'
      BY <1>1, <2>1 DEF Attends
    <2>4. Once(step[t], git[t])'
      BY <1>1 DEF Once
    <2> QED BY <2>2, <2>3, <2>4 DEF OnStep
  <1>5. Live' \subseteq mapped' /\ \A s \in Session : sess'[s].st # "stopping"
    BY <1>2 DEF PInv, Places
  <1>6. Fresh'
    BY <1>2, <1>3 DEF PInv, Fresh
  <1> QED BY <1>2, <1>4, <1>5, <1>6, BootKeeps

LEMMA LoopBoots ==
  ASSUME TInv, PInv, fib[Loop].pc \in StartPC, NEW o,
         \/ \E p \in {"install", "spawn"} :
              /\ \/ Become(Loop, o, p)
                 \/ Goto(Loop, p) /\ UNCHANGED step /\ o = Obj(Loop)
              /\ o.status = "ready"
         \/ BecomeAndDrop(Loop, o, StartNext(Loop)) /\ o.status # "ready"
  PROVE  \E p : Boots(o, p)
  <1>1. Loop \in Fiber /\ fib[Loop] \in FiberRec
    BY LoopIsFiber, BootFacts
  <1>2. ~Cur(Loop).stale /\ Obj(Loop) = step[Cur(Loop).t] /\ Cur(Loop).t \in Step
    BY BootFacts
  <1>3. ASSUME NEW p \in {"install", "spawn"}, o.status = "ready",
               Become(Loop, o, p) \/ (Goto(Loop, p) /\ UNCHANGED step /\ o = Obj(Loop))
        PROVE  Boots(o, p)
    <2>1. Moves(Loop, p)
      BY <1>1, <1>3, HelperMoves
    <2>2. step' = [step EXCEPT ![Cur(Loop).t] = o]
      BY <1>2, <1>3 DEF Become, TInv, TypeOK
    <2>3. fib'[Loop].hold = fib[Loop].hold
      BY <1>1, <1>2, <1>3 DEF Become, Goto, TInv, TypeOK, FiberRec
    <2> QED BY <1>3, <2>1, <2>2, <2>3 DEF Boots
  <1>4. ASSUME BecomeAndDrop(Loop, o, StartNext(Loop)), o.status # "ready"
        PROVE  Boots(o, StartNext(Loop))
    <2>1. Moves(Loop, StartNext(Loop))
      BY <1>1, <1>4, HelperMoves
    <2>2. step' = [step EXCEPT ![Cur(Loop).t] = o]
      BY <1>2, <1>4 DEF BecomeAndDrop
    <2>3. fib'[Loop].hold = Tail(fib[Loop].hold)
      BY <1>1, <1>4 DEF BecomeAndDrop, TInv, TypeOK, FiberRec
    <2> QED BY <1>4, <2>1, <2>2, <2>3 DEF Boots
  <1> QED BY <1>3, <1>4

LEMMA TreeIsMade ==
  ASSUME TInv, PInv, CreateWorktree(Loop)
  PROVE  PInv'
  <1>1. fib[Loop].pc \in StartPC
    BY DEF CreateWorktree, At, StartPC
  <1>2. PICK t \in Step : t = Cur(Loop).t
    BY <1>1, BootFacts
  <1>3. Obj(Loop) \in StepObj /\ Obj(Loop).status = "ready" /\ Obj(Loop).attempt = 1
    BY <1>1, BootFacts
  <1>4. git \in [Step -> GitRec]
    BY DEF TInv, TypeOK
  <1>5. \A u \in Step \ {t} : KeepsWork(u)
    BY <1>2, <1>4 DEF CreateWorktree, KeepsWork
  <1>6. UNCHANGED <<sess, mapped, queue, running, booted, planStatus>>
    BY DEF CreateWorktree
  <1>7. CASE \E p \in {"install", "spawn"} : Goto(Loop, p) /\ UNCHANGED step
    BY <1>1, <1>2, <1>3, <1>5, <1>6, <1>7, LoopBoots, BootGoesOn
  <1>8. CASE BecomeAndDrop(Loop, [Obj(Loop) EXCEPT !.status = "failed"], StartNext(Loop))
    <2> DEFINE o == [Obj(Loop) EXCEPT !.status = "failed"]
    <2>1. o \in StepObj /\ o.status = "failed" /\ o.attempt = 1
      BY <1>3 DEF StepObj, Status
    <2> HIDE DEF o
    <2>2. BecomeAndDrop(Loop, o, StartNext(Loop))
      BY <1>8 DEF o
    <2> QED BY <1>1, <1>2, <1>5, <1>6, <2>1, <2>2, LoopBoots, BootGoesOn
  <1> QED BY <1>7, <1>8 DEF CreateWorktree

LEMMA TreeIsReady ==
  ASSUME TInv, PInv, InstallDone(Loop)
  PROVE  PInv'
  <1>1. fib[Loop].pc \in StartPC
    BY DEF InstallDone, At, StartPC
  <1>2. PICK t \in Step : t = Cur(Loop).t
    BY <1>1, BootFacts
  <1> DEFINE o == [Obj(Loop) EXCEPT !.tree = TRUE]
  <1>3. o \in StepObj /\ o.status = "ready" /\ o.attempt = 1
    BY <1>1, BootFacts DEF StepObj
  <1>4. git \in [Step -> GitRec]
    BY DEF TInv, TypeOK
  <1>5. \A u \in Step \ {t} : KeepsWork(u)
    BY <1>2, <1>4 DEF InstallDone, KeepsWork, GitRec
  <1>6. UNCHANGED <<sess, mapped, queue, running, booted, planStatus>>
        /\ Become(Loop, o, "spawn")
    BY DEF InstallDone
  <1> HIDE DEF o
  <1> QED BY <1>1, <1>2, <1>3, <1>5, <1>6, LoopBoots, BootGoesOn

LEMMA AgentIsMissing ==
  ASSUME TInv, PInv, SpawnFails(Loop)
  PROVE  PInv'
  <1>1. fib[Loop].pc \in StartPC
    BY DEF SpawnFails, At, StartPC
  <1>2. PICK t \in Step : t = Cur(Loop).t
    BY <1>1, BootFacts
  <1> DEFINE o == [Obj(Loop) EXCEPT !.status = "failed"]
  <1>3. o \in StepObj /\ o.status = "failed" /\ o.attempt = 1
    BY <1>1, BootFacts DEF StepObj, Status
  <1>4. \A u \in Step : KeepsWork(u)
    BY DEF SpawnFails, KeepsWork
  <1>5. UNCHANGED <<sess, mapped, queue, running, booted, planStatus>>
        /\ BecomeAndDrop(Loop, o, StartNext(Loop))
    BY DEF SpawnFails
  <1> HIDE DEF o
  <1> QED BY <1>1, <1>2, <1>3, <1>4, <1>5, LoopBoots, BootGoesOn

(* A new session, to which nothing refers, works on a step that nobody has *)
(* in his hands.                                                           *)
LEMMA AgentIsStarted ==
  ASSUME TInv, PInv, NEW s \in Session, SpawnAgent(Loop, s)
  PROVE  PInv'
  <1>1. fib[Loop].pc \in StartPC
    BY DEF SpawnAgent, At, StartPC
  <1>2. PICK t \in Step : t = Cur(Loop).t
    BY <1>1, BootFacts
  <1> DEFINE o == [Obj(Loop) EXCEPT !.status = "in-progress", !.session = s]
  <1>3. o \in StepObj /\ o.status = "in-progress" /\ o.attempt = 1
    BY <1>1, BootFacts DEF StepObj, Status
  <1>4. git \in [Step -> GitRec] /\ sess \in [Session -> SessRec]
    BY DEF TInv, TypeOK
  <1>5. \A u \in Step \ {t} : KeepsWork(u)
    BY <1>2, <1>4 DEF SpawnAgent, KeepsWork
  <1>6. /\ UNCHANGED <<queue, running, booted, planStatus>>
        /\ BecomeAndDrop(Loop, o, StartNext(Loop))
        /\ mapped' = mapped \cup {s}
        /\ sess' = [sess EXCEPT ![s] = [st |-> "live", t |-> t]]
        /\ Unused(s)
    BY <1>2 DEF SpawnAgent
  <1> HIDE DEF o
  <1>7. PICK p : Boots(o, p)
    BY <1>1, <1>3, <1>6, LoopBoots
  <1>8. /\ sess'[s].st = "live" /\ sess'[s].t = t /\ sess[s].st # "live"
        /\ \A r \in Session \ {s} : sess'[r] = sess[r]
    BY <1>4, <1>6 DEF Unused
  <1>9. Live' = Live \cup {s}
    BY <1>8 DEF Live
  <1>10. \A u \in Step \ {t} : LiveOn(u)' = LiveOn(u)
    BY <1>8 DEF LiveOn
  <1>11. LiveOn(t)' = {s}
    <2>1. LiveOn(t) = {}
      BY <1>1, <1>2, BootFacts
    <2> QED BY <1>8, <2>1 DEF LiveOn
  <1>12. \A w \in Worker : fib'[w] = fib[w]
    BY <1>7, LoopIsFiber DEF Boots, Moves
  <1>13. OnStep(t)'
    <2>1. Hands(t)' = {} /\ NewsOn(t)' = {} /\ OneNews(t)'
      <3>1. OnStep(t) /\ Hands(t)' = Hands(t) /\ SameNews(t)
        BY <1>6, <1>12, HandsStay, QueueStays DEF PInv
      <3> QED BY <1>1, <1>2, <3>1, BootFacts DEF SameNews, OnStep, Owned
    <2>2. Owned(t)'
      BY <1>11, <2>1 DEF Owned
    <2>3. step'[t] = o
      BY <1>2, <1>7 DEF Boots, TInv, TypeOK
    <2>4. Attends(t)'
      BY <1>3, <1>11, <2>1, <2>3 DEF Attends
    <2>5. Once(step[t], git[t])'
      BY <1>3, <2>3 DEF Once
    <2> QED BY <2>2, <2>4, <2>5 DEF OnStep
  <1>14. Live' \subseteq mapped' /\ \A r \in Session : sess'[r].st # "stopping"
    BY <1>6, <1>8, <1>9 DEF PInv, Places
  <1>15. Fresh'
    <2>1. (\A i \in DOMAIN queue : queue[i].sid # s) /\ \A w \in Worker : fib[w].sid # s
      BY <1>6, LoopIsFiber DEF Unused, Referenced
    <2> QED BY <1>6, <1>9, <1>12, <2>1 DEF PInv, Fresh
  <1> QED BY <1>1, <1>2, <1>3, <1>5, <1>6, <1>7, <1>10, <1>13, <1>14, <1>15, BootKeeps

-----------------------------------------------------------------------------
(* There are slots for all the steps: run() picks every one of them, once. *)
LEMMA AllPicked ==
  ASSUME AllAtOnce, Ready = Step, NEW q \in StartLists
  PROVE  /\ DOMAIN q = 1..Cardinality(Step) /\ Cardinality(Step) \in Nat
         /\ \A i \in DOMAIN q : q[i] \in Step
         /\ \A i, j \in DOMAIN q : q[i] = q[j] => i = j
         /\ Step = {q[i] : i \in DOMAIN q}
  <1> DEFINE k == Cardinality(Step)
             n == IF MaxAgents - Cardinality(Occupied) < k
                    THEN MaxAgents - Cardinality(Occupied) ELSE k
  <1>1. IsFiniteSet(Step) /\ k \in Nat /\ MaxAgents \in Nat /\ k <= MaxAgents
    BY PlanAssumption, ConfigAssumption, FS_CardinalityType DEF AllAtOnce
  <1>2. Occupied = {}
    BY DEF Ready, Occupied
  <1>3. n = k
    BY <1>1, <1>2, FS_EmptySet
  <1>4. q \in [1..n -> Step] /\ \A i, j \in 1..n : q[i] = q[j] => i = j
    BY DEF StartLists
  <1> HIDE DEF n, k
  <1>5. q \in Injection(1..k, Step)
    BY <1>3, <1>4 DEF Injection, IsInjective
  <1>6. Cardinality(1..k) = Cardinality(Step)
    <2>1. Cardinality(1..k) = IF 1 > k THEN 0 ELSE k - 1 + 1
      BY <1>1, FS_Interval
    <2> QED BY <1>1, <2>1 DEF k
  <1>7. q \in Surjection(1..k, Step)
    BY <1>1, <1>5, <1>6, FS_Injection
  <1>8. Step = {q[i] : i \in 1..k}
    BY <1>3, <1>4, <1>7 DEF Surjection
  <1> QED BY <1>1, <1>3, <1>4, <1>8 DEF k

LEMMA AllChosen ==
  ASSUME AllAtOnce, TInv, TInv', PInv, StartReadySteps(Loop)
  PROVE  PInv'
  <1>1. fib[Loop].pc = "saved" /\ fib[Loop].pc \in BootPC /\ fib[Loop] \in FiberRec
    BY LoopIsFiber DEF StartReadySteps, At, BootPC, TInv, TypeOK
  <1>2. Ready = Step /\ ~booted /\ planStatus = "executing"
        /\ \A w \in Worker : fib[w].pc = "idle"
    BY <1>1 DEF PInv, Boot
  <1>3. Cardinality(Occupied) < MaxAgents /\ Ready # {}
    <2>1. Occupied = {}
      BY <1>2 DEF Ready, Occupied
    <2>2. MaxAgents > 0
      BY ConfigAssumption
    <2> QED BY <1>2, <2>1, <2>2, FS_EmptySet, FirstStep, ConfigAssumption
  <1>4. PICK q \in StartLists :
          fib' = [fib EXCEPT ![Loop].pc = "create",
                    ![Loop].hold = [i \in DOMAIN q |-> Ref(q[i])]]
    <2>1. MayStart(Loop)
      BY <1>2 DEF MayStart
    <2>2. ~(Cardinality(Occupied) >= MaxAgents)
      <3>1. Cardinality(Occupied) \in Nat /\ MaxAgents \in Nat
        <4>1. Occupied \subseteq Step
          BY DEF Occupied
        <4> QED BY <4>1, PlanAssumption, ConfigAssumption, FS_Subset, FS_CardinalityType
      <3> QED BY <1>3, <3>1
    <2> QED BY <1>3, <2>1, <2>2 DEF StartReadySteps
  <1>5. /\ \A i \in DOMAIN q : q[i] \in Step
        /\ \A i, j \in DOMAIN q : q[i] = q[j] => i = j
        /\ Step = {q[i] : i \in DOMAIN q}
    BY <1>2, <1>4, AllPicked
  <1> DEFINE h == [i \in DOMAIN q |-> Ref(q[i])]
  <1>6. fib'[Loop].pc = "create" /\ fib'[Loop].hold = h
        /\ \A g \in Fiber \ {Loop} : fib'[g] = fib[g]
    BY <1>1, <1>4, LoopIsFiber DEF TInv, TypeOK, FiberRec
  <1>7. DOMAIN h = DOMAIN q /\ \A i \in DOMAIN q : h[i].t = q[i] /\ ~h[i].stale
    BY DEF Ref
  <1>8. UNCHANGED <<planStatus, running, booted, step, sess, mapped, queue, git>>
    BY DEF StartReadySteps
  <1> HIDE DEF h
  <1>9. \A w \in Worker : fib'[w] = fib[w]
    BY <1>6, LoopIsFiber
  <1>10. Boot'
    <2>1. ToStart' = {q[i] : i \in DOMAIN q}
      BY <1>6, <1>7 DEF ToStart
    <2>2. Ready' = Ready
      BY <1>8 DEF Ready
    <2>3. /\ \A i \in DOMAIN fib'[Loop].hold : ~fib'[Loop].hold[i].stale
          /\ \A i, j \in DOMAIN fib'[Loop].hold :
               fib'[Loop].hold[i].t = fib'[Loop].hold[j].t => i = j
      BY <1>5, <1>6, <1>7
    <2>4. fib'[Loop].pc \in BootPC /\ fib'[Loop].pc # "saved"
      BY <1>6 DEF BootPC, StartPC
    <2>5. ~booted' /\ planStatus' = "executing" /\ \A w \in Worker : fib'[w].pc = "idle"
      BY <1>2, <1>8, <1>9
    <2> QED BY <1>2, <1>5, <2>1, <2>2, <2>3, <2>4, <2>5 DEF Boot
  <1>11. ASSUME NEW t \in Step PROVE OnStep(t)'
    <2>1. Hands(t)' = Hands(t) /\ \A w \in Hands(t) : fib'[w] = fib[w]
      BY <1>9, HandsStay
    <2>2. LiveOn(t)' = LiveOn(t) /\ SameNews(t) /\ KeepsWork(t) /\ OnStep(t)
      BY <1>8, QueueStays DEF LiveOn, KeepsWork, PInv
    <2> QED BY <1>8, <2>1, <2>2, Untouched
  <1>12. Places'
    <2>1. \A w \in Worker : fib'[w].pc = "idle" /\ ~Has(w)'
      BY <1>2, <1>9 DEF Has, HandPC
    <2>2. Live' \subseteq mapped' /\ \A s \in Session : sess'[s].st # "stopping"
      BY <1>8 DEF PInv, Places, Live
    <2>3. \A i \in DOMAIN queue' : queue'[i].type \in EventTypes
      BY <1>8 DEF PInv, Places
    <2>4. fib'[Loop].pc \in BootPC
      BY <1>6 DEF BootPC, StartPC
    <2> QED BY <2>1, <2>2, <2>3, <2>4 DEF Places
  <1>13. Fresh'
    BY <1>8, <1>9 DEF PInv, Fresh, Live
  <1>14. ~Ending'
    <2>1. ~Ending
      <3>1. step[StepSeq[1]].status = "ready" /\ StepSeq[1] \in Step
        BY <1>2, FirstStep DEF Ready
      <3> QED BY <3>1, NotOver
    <2> QED BY <1>6, <1>8, <1>9, <2>1 DEF Ending, At
  <1> QED BY <1>10, <1>11, <1>12, <1>13, <1>14 DEF PInv

LEMMA LoopRecomputes ==
  ASSUME AllAtOnce, TInv, TInv', PInv, RecomputeStep(Loop) \/ RemoveWorktree(Loop)
  PROVE  PInv'
  <1>1. fib[Loop].pc \in {"saved", "check", "wait", "exited"} \cup StartPC
    BY DEF PInv, Places, BootPC
  <1>2. /\ ~Recompute(Loop) /\ ~TestComplete(Loop) /\ ~SmokeTestDone(Loop)
        /\ ~FinishPlan(Loop) /\ ~EndRecompute(Loop) /\ ~RemoveWorktree(Loop)
    BY <1>1 DEF Recompute, TestComplete, SmokeTestDone, FinishPlan, EndRecompute,
                RemoveWorktree, At, StartPC
  <1> QED BY <1>2, AllChosen, TreeIsMade, TreeIsReady, AgentIsStarted, AgentIsMissing
          DEF RecomputeStep

-----------------------------------------------------------------------------
(* The event loop.                                                         *)
LEMMA LoopMoves ==
  ASSUME TInv, PInv, fib[Loop].pc \in {"check", "wait"},
         NEW p \in {"check", "wait", "exited"}, Moves(Loop, p),
         UNCHANGED <<step, sess, mapped, git>>,
         \/ queue' = queue
         \/ /\ queue # <<>> /\ Head(queue).type # "agent_completed"
            /\ queue' = Tail(queue),
         Ending' => AllOver'
  PROVE  PInv'
  <1>1. \A w \in Worker : Away(w)
    BY LoopIsFiber DEF Moves, Away
  <1>2. fib[Loop].pc \notin BootPC /\ fib'[Loop].pc \in {"check", "wait", "exited"}
    BY DEF BootPC, StartPC, Moves
  <1>3. \A t \in Step : SameNews(t) /\ KeepsWork(t)
    BY QueueStays, QueueShrinks DEF KeepsWork
  <1>4. \A i \in DOMAIN queue' : \E j \in DOMAIN queue : queue'[i] = queue[j]
    BY QueueShrinks, FirstStep
  <1>5. \A i \in DOMAIN queue' : /\ queue'[i].type \in EventTypes
                                 /\ \A s \in Live : queue'[i].sid # s
    BY <1>4 DEF PInv, Places, Fresh
  <1> QED BY <1>1, <1>2, <1>3, <1>5, QuietKeeps

LEMMA LoopIsQuiet ==
  ASSUME CInv, PInv, LoopWaits \/ LoopExits \/ HandleDone \/ HandleStall
  PROVE  PInv'
  <1> USE DEF CInv
  <1>1. AtWork' = AtWork /\ UNCHANGED <<step, sess, mapped, git, running>>
    BY LoopStays DEF SameWork, LoopWaits, LoopExits, HandleDone, HandleStall, Take
  <1>2. fib[Loop].pc \in {"check", "wait"}
    BY DEF LoopWaits, LoopExits, HandleDone, HandleStall, Take, At
  <1>3. PICK p \in {"check", "wait", "exited"} :
          Moves(Loop, p) /\ (p = "exited" => LoopExits)
    BY LoopIsFiber, GotoMoves DEF LoopWaits, LoopExits, HandleDone, HandleStall
  <1>4. \/ queue' = queue
        \/ /\ queue # <<>> /\ Head(queue).type # "agent_completed"
           /\ queue' = Tail(queue)
    BY DEF LoopWaits, LoopExits, HandleDone, HandleStall, Take
  <1>5. planStatus' \in {planStatus, "paused"}
    BY DEF LoopWaits, LoopExits, HandleDone, HandleStall
  <1>6. Ending' => AllOver'
    <2>1. LoopExits => AllOver
      <3>1. LoopExits => ~running \/ IsPlanTerminal
        BY DEF LoopExits, KeepGoing, ShouldExitLoop
      <3>2. ~running => AllOver
        BY DEF PInv, Ending
      <3> QED BY <3>1, <3>2, TerminalIsOver
    <2>2. Ending' => Ending \/ p = "exited"
      BY <1>1, <1>3, <1>5, LoopIsFiber DEF Ending, Moves, At
    <2> QED BY <1>1, <1>3, <2>1, <2>2, StillOver
  <1> QED BY <1>1, <1>2, <1>3, <1>4, <1>6, LoopMoves

(* The news of an agent's end goes to a handler.                           *)
LEMMA NewsIsHandled ==
  ASSUME TInv, PInv, NEW w \in Worker, HandleCompleted(w)
  PROVE  PInv'
  <1> DEFINE e == Head(queue)
  <1>1. /\ queue # <<>> /\ e.type = "agent_completed" /\ queue' = Tail(queue)
        /\ fib[Loop].pc \in {"check", "wait"} /\ fib[w].pc = "idle"
    BY DEF HandleCompleted, Take, At, FreeWorkers
  <1>2. PICK t \in Step : t = e.t
    BY <1>1, QueueShrinks, FirstStep DEF Event
  <1>3. /\ e = queue[1] /\ 1 \in DOMAIN queue
        /\ \A u : u # t => SameNews(u)
        /\ OneNews(t) => NewsOn(t)' = {} /\ NewsOn(t) # {}
        /\ \A i \in DOMAIN queue' : \E j \in DOMAIN queue : queue'[i] = queue[j]
    BY <1>1, <1>2, QueueShrinks
  <1> HIDE DEF e
  <1>4. /\ OnStep(t) /\ NewsOn(t)' = {} /\ Hands(t) = {} /\ LiveOn(t) = {}
        /\ step[t].status = "in-progress"
    BY <1>3 DEF PInv, OnStep, Owned, Attends
  <1>5. /\ fib' = [fib EXCEPT ![w] = NewWorker(t, e.sid), ![Loop].pc = "check"]
        /\ step' = [step EXCEPT ![t] = Launched(@)]
        /\ git' = Unlocked({t})
        /\ UNCHANGED <<planStatus, running, sess, mapped>>
    BY <1>2 DEF HandleCompleted, e
  <1>6. /\ fib'[w] = NewWorker(t, e.sid) /\ fib'[Loop].pc = "check"
        /\ \A v \in Worker \ {w} : fib'[v] = fib[v]
    BY <1>5, LoopIsFiber DEF TInv, TypeOK
  <1>7. /\ fib'[w].pc = "work" /\ Cur(w)'.t = t /\ ~Cur(w)'.stale
        /\ Len(fib'[w].hold) = 1 /\ fib'[w].sid = e.sid
    BY <1>6 DEF NewWorker, Cur, Ref
  <1>8. /\ \A u \in Step : KeepsWork(u)
        /\ \A u \in Step \ {t} : step'[u] = step[u]
        /\ step'[t].status = "in-progress" /\ step'[t].attempt = step[t].attempt
    <2>1. git \in [Step -> GitRec] /\ step \in [Step -> StepObj]
      BY DEF TInv, TypeOK
    <2>2. \A u \in Step : KeepsWork(u)
      BY <1>5, <2>1 DEF Unlocked, KeepsWork, GitRec
    <2>3. step'[t] = Launched(step[t]) /\ \A u \in Step \ {t} : step'[u] = step[u]
      BY <1>5, <2>1
    <2>4. step[t] \in StepObj
      BY <2>1
    <2> QED BY <1>4, <2>2, <2>3, <2>4 DEF Launched, StepObj
  <1>9. Live' = Live /\ \A u \in Step : LiveOn(u)' = LiveOn(u)
    <2>1. sess' = sess
      BY <1>5
    <2> QED BY <2>1 DEF Live, LiveOn
  <1>10. ASSUME NEW u \in Step, u # t PROVE OnStep(u)'
    <2>1. w \notin Hands(u) /\ w \notin Hands(u)'
      BY <1>1, <1>7, <1>10 DEF Hands, Has, HandPC
    <2>2. Hands(u)' = Hands(u) /\ \A v \in Hands(u) : fib'[v] = fib[v]
      BY <1>6, <2>1, HandsStay
    <2>3. OnStep(u)
      BY DEF PInv
    <2> QED BY <1>3, <1>8, <1>9, <1>10, <2>2, <2>3, Untouched
  <1>11. OnStep(t)'
    <2>1. Hands(t)' = {w}
      <3>1. w \in Hands(t)'
        BY <1>7 DEF Hands, Has, HandPC
      <3>2. ASSUME NEW v \in Worker, v # w PROVE v \notin Hands(t)'
        <4>1. v \notin Hands(t) /\ fib'[v] = fib[v]
          BY <1>4, <1>6, <3>2
        <4> QED BY <4>1 DEF Hands, Has, Cur
      <3>3. Hands(t)' \subseteq Worker
        BY DEF Hands
      <3> QED BY <3>1, <3>2, <3>3
    <2>2. Owned(t)'
      BY <1>4, <1>9, <2>1 DEF Owned, OneNews
    <2>3. Suits("work", step'[t], git'[t])
      BY <1>8 DEF Suits
    <2>4. Attends(t)'
      BY <1>4, <1>7, <1>8, <1>9, <2>1, <2>3 DEF Attends
    <2>5. Once(step[t], git[t])'
      BY <1>4, <1>8 DEF OnStep, Once
    <2> QED BY <2>2, <2>4, <2>5 DEF OnStep
  <1>12. Places'
    <2>1. \A i \in DOMAIN queue' : queue'[i].type \in EventTypes
      BY <1>3 DEF PInv, Places
    <2>2. Live' \subseteq mapped' /\ \A s \in Session : sess'[s].st # "stopping"
      BY <1>5, <1>9 DEF PInv, Places
    <2>3. ASSUME NEW v \in Worker
          PROVE  /\ fib'[v].pc \in HandPC \cup FreePC \cup {"idle"}
                 /\ Has(v)' => ~Cur(v)'.stale /\ Len(fib'[v].hold) = 1
      <3>1. CASE v = w
        BY <1>7, <3>1 DEF HandPC
      <3>2. CASE v # w
        BY <1>6, <3>2 DEF PInv, Places, Has, Cur
      <3> QED BY <3>1, <3>2
    <2> QED BY <1>6, <2>1, <2>2, <2>3 DEF Places
  <1>13. Fresh'
    <2>1. \A s \in Live : e.sid # s
      BY <1>3 DEF PInv, Fresh
    <2> QED BY <1>3, <1>6, <1>7, <1>9, <2>1 DEF PInv, Fresh
  <1>14. Boot'
    <2>1. "check" \notin BootPC /\ "check" # "saved" /\ "check" \notin StartPC
          /\ fib[Loop].pc \notin BootPC
      BY <1>1 DEF BootPC, StartPC
    <2>2. Ready' = {}
      <3>1. Ready = {}
        BY <2>1 DEF PInv, Boot
      <3> QED BY <1>8, <3>1 DEF Ready
    <2> QED BY <1>6, <2>1, <2>2 DEF Boot
  <1>15. ~Ending'
    <2>1. ~Ending
      BY <1>4, NotOver
    <2> QED BY <1>1, <1>5, <1>6, <1>7, <2>1 DEF Ending, At
  <1> QED BY <1>10, <1>11, <1>12, <1>13, <1>14, <1>15 DEF PInv

LEMMA EventLoopKeeps ==
  ASSUME CInv, PInv, LoopStep
  PROVE  PInv'
  <1> USE DEF CInv
  <1>1. \A y \in {"pause", "resume", "skip", "retry"} : ~Take(y)
    <2>1. queue # <<>> => Head(queue).type \in EventTypes
      <3>1. queue \in Seq(Event)
        BY DEF TInv, TypeOK
      <3>2. queue # <<>> => Head(queue) = queue[1] /\ 1 \in DOMAIN queue
        BY <3>1
      <3> QED BY <3>2 DEF PInv, Places
    <2> QED BY <2>1 DEF Take, EventTypes
  <1>2. ~PauseStep /\ ~PauseReset
    BY DEF PInv, Places, PauseStep, PauseReset, At, BootPC, StartPC
  <1> QED BY <1>1, <1>2, LoopIsQuiet, NewsIsHandled
          DEF LoopStep, HandlePause, HandleResume, HandleSkip, HandleRetry

-----------------------------------------------------------------------------
(* The agents and the user.                                                *)
LEMMA CommitIsOwn ==
  ASSUME TInv, PInv, NEW s \in Session, AgentCommit(s)
  PROVE  PInv'
  <1>1. PICK t \in Step : t = sess[s].t
    BY DEF TInv, TypeOK, SessRec
  <1>2. s \in LiveOn(t)
    BY <1>1 DEF AgentCommit, LiveOn
  <1>3. OnStep(t) /\ Hands(t) = {} /\ NewsOn(t) = {} /\ step[t].status = "in-progress"
    BY <1>2 DEF PInv, OnStep, Owned, Attends
  <1>4. UNCHANGED <<planStatus, running, booted, step, sess, mapped, queue, fib>>
    BY DEF AgentCommit
  <1>5. \A u \in Step \ {t} : KeepsWork(u)
    BY <1>1 DEF AgentCommit, KeepsWork, TInv, TypeOK
  <1>6. Live' = Live /\ \A u \in Step : LiveOn(u)' = LiveOn(u) /\ SameNews(u)
    BY <1>4, QueueStays DEF Live, LiveOn
  <1>7. ASSUME NEW u \in Step
        PROVE  Hands(u)' = Hands(u) /\ \A w \in Hands(u) : fib'[w] = fib[w]
    BY <1>4, HandsStay
  <1>8. ASSUME NEW u \in Step, u # t PROVE OnStep(u)'
    <2>1. OnStep(u)
      BY DEF PInv
    <2> QED BY <1>4, <1>5, <1>6, <1>7, <1>8, <2>1, Untouched
  <1>9. OnStep(t)'
    <2>1. Owned(t)'
      BY <1>3, <1>6, <1>7 DEF OnStep, Owned, SameNews
    <2>2. Attends(t)'
      BY <1>2, <1>3, <1>4, <1>6, <1>7 DEF Attends
    <2>3. Once(step[t], git[t])'
      BY <1>3, <1>4 DEF OnStep, Once
    <2> QED BY <2>1, <2>2, <2>3 DEF OnStep
  <1>10. Places' /\ Fresh'
    BY <1>4, <1>6 DEF PInv, Places, Fresh, Has, Cur
  <1>11. Boot'
    BY <1>4 DEF PInv, Boot, Ready, ToStart
  <1>12. Ending' => AllOver'
    BY <1>4 DEF PInv, Ending, AllOver, At, Working
  <1> QED BY <1>8, <1>9, <1>10, <1>11, <1>12 DEF PInv

LEMMA EndIsNews ==
  ASSUME TInv, PInv, NEW s \in Session, AgentExit(s)
  PROVE  PInv'
  <1>1. PICK t \in Step : t = sess[s].t
    BY DEF TInv, TypeOK, SessRec
  <1>2. s \in LiveOn(t) /\ s \in Live
    BY <1>1 DEF AgentExit, LiveOn, Live
  <1>3. /\ OnStep(t) /\ Hands(t) = {} /\ NewsOn(t) = {} /\ LiveOn(t) = {s}
        /\ step[t].status = "in-progress"
    BY <1>2 DEF PInv, OnStep, Owned, Attends
  <1> DEFINE e == [type |-> "agent_completed", t |-> t, sid |-> s]
  <1>4. /\ UNCHANGED <<planStatus, running, booted, step, mapped, fib, git>>
        /\ queue' = Append(queue, e)
        /\ sess' = [sess EXCEPT ![s].st = "exited"]
    BY <1>1, <1>2 DEF AgentExit, Notify, PInv, Places
  <1>5. /\ e \in Event /\ e.type = "agent_completed" /\ e.t = t /\ e.sid = s
    BY DEF Event
  <1> HIDE DEF e
  <1>6. /\ \A u : u # t => SameNews(u)
        /\ NewsOn(t)' # {} /\ OneNews(t)'
        /\ \A i \in DOMAIN queue' : queue'[i] # e => i \in DOMAIN queue /\ queue'[i] = queue[i]
    BY <1>3, <1>4, <1>5, QueueGrows
  <1>7. /\ sess'[s].st = "exited" /\ sess'[s].t = t
        /\ \A r \in Session \ {s} : sess'[r] = sess[r]
    BY <1>1, <1>4 DEF TInv, TypeOK, SessRec
  <1>8. Live' = Live \ {s}
    BY <1>7 DEF Live
  <1>9. LiveOn(t)' = {}
    BY <1>3, <1>7 DEF LiveOn
  <1>10. \A u \in Step \ {t} : LiveOn(u)' = LiveOn(u)
    BY <1>1, <1>7 DEF LiveOn
  <1>11. ASSUME NEW u \in Step
         PROVE  Hands(u)' = Hands(u) /\ \A w \in Hands(u) : fib'[w] = fib[w]
    BY <1>4, HandsStay
  <1>12. ASSUME NEW u \in Step, u # t PROVE OnStep(u)'
    <2>1. OnStep(u) /\ KeepsWork(u)
      BY <1>4 DEF PInv, KeepsWork
    <2> QED BY <1>4, <1>6, <1>10, <1>11, <1>12, <2>1, Untouched
  <1>13. OnStep(t)'
    <2>1. Owned(t)'
      BY <1>3, <1>6, <1>9, <1>11 DEF Owned
    <2>2. Attends(t)'
      BY <1>3, <1>4, <1>6, <1>11 DEF Attends
    <2>3. Once(step[t], git[t])'
      BY <1>3, <1>4 DEF OnStep, Once
    <2> QED BY <2>1, <2>2, <2>3 DEF OnStep
  <1>14. Places'
    <2>1. \A i \in DOMAIN queue' : queue'[i].type \in EventTypes
      BY <1>5, <1>6 DEF PInv, Places, EventTypes
    <2>2. Live' \subseteq mapped' /\ \A r \in Session : sess'[r].st # "stopping"
      BY <1>4, <1>7, <1>8 DEF PInv, Places
    <2> QED BY <1>4, <2>1, <2>2 DEF PInv, Places, Has, Cur
  <1>15. Fresh'
    BY <1>4, <1>5, <1>6, <1>8 DEF PInv, Fresh
  <1>16. Boot'
    BY <1>4 DEF PInv, Boot, Ready, ToStart
  <1>17. Ending' => AllOver'
    BY <1>4 DEF PInv, Ending, AllOver, At, Working
  <1> QED BY <1>12, <1>13, <1>14, <1>15, <1>16, <1>17 DEF PInv

LEMMA OthersAreQuiet ==
  ASSUME AllAtOnce, TInv, PInv, UserStep \/ UNCHANGED vars
  PROVE  PInv'
  <1>1. CASE UserCommit \/ (\E t \in Step : UserClose(t)) \/ UNCHANGED vars
    <2>1. UNCHANGED <<planStatus, running, booted, step, sess, mapped, queue, fib>>
      BY <1>1 DEF UserCommit, UserClose, vars
    <2>2. \A t \in Step : SameNews(t) /\ KeepsWork(t)
      <3>1. git \in [Step -> GitRec]
        BY DEF TInv, TypeOK
      <3>2. \A t \in Step : KeepsWork(t)
        BY <1>1, <3>1 DEF UserCommit, UserClose, vars, KeepsWork, GitRec
      <3> QED BY <2>1, <3>2, QueueStays
    <2>3. Ending' => AllOver'
      BY <2>1 DEF PInv, Ending, AllOver, At, Working
    <2>4. \A i \in DOMAIN queue' : /\ queue'[i].type \in EventTypes
                                   /\ \A s \in Live : queue'[i].sid # s
      BY <2>1 DEF PInv, Places, Fresh
    <2> QED BY <2>1, <2>2, <2>3, <2>4, QuietKeeps DEF Away
  <1>2. CASE StallTimer
    <2> DEFINE e == [type |-> "stall_check", t |-> StepSeq[1], sid |-> NoSession]
    <2>1. /\ UNCHANGED <<planStatus, running, booted, step, sess, mapped, fib, git>>
          /\ queue' = Append(queue, e)
      BY <1>2 DEF StallTimer, Push
    <2>2. e \in Event /\ e.type = "stall_check" /\ e.sid = NoSession
      BY FirstStep DEF Event
    <2> HIDE DEF e
    <2>3. \A t \in Step : SameNews(t) /\ KeepsWork(t)
      BY <2>1, <2>2, QueueGrows DEF KeepsWork
    <2>4. \A i \in DOMAIN queue' : /\ queue'[i].type \in EventTypes
                                   /\ \A s \in Live : queue'[i].sid # s
      <3>1. \A i \in DOMAIN queue' : queue'[i] # e => i \in DOMAIN queue /\ queue'[i] = queue[i]
        BY <2>1, <2>2, QueueGrows, FirstStep
      <3>2. NoSession \notin Live
        BY ModelAssumption DEF Live
      <3> QED BY <2>2, <3>1, <3>2 DEF PInv, Places, Fresh, EventTypes
    <2>5. Ending' => AllOver'
      BY <2>1 DEF PInv, Ending, AllOver, At, Working
    <2> QED BY <2>1, <2>3, <2>4, <2>5, QuietKeeps DEF Away
  <1>3. ASSUME UserStep PROVE UserCommit \/ (\E t \in Step : UserClose(t)) \/ StallTimer
    BY <1>3 DEF UserStep, UserPause, UserResume, UserStop, UserSkip, UserRetry, UserKill,
                Call, AllAtOnce
  <1> QED BY <1>1, <1>2, <1>3

LEMMA ParInit ==
  ASSUME AllAtOnce, Init
  PROVE  PInv
  <1>1. /\ \A f \in Fiber : fib[f].pc = IF f = Loop THEN "saved" ELSE "idle"
        /\ queue = <<>> /\ mapped = {} /\ ~booted /\ planStatus = "executing" /\ running
    BY DEF Init, IdleFiber
  <1>2. \A w \in Worker : fib[w].pc = "idle" /\ ~Has(w)
    BY <1>1, LoopIsFiber DEF Has, HandPC
  <1>3. Live = {} /\ \A s \in Session : sess[s].st = "none"
    BY DEF Init, Live
  <1>4. \A t \in Step : LiveOn(t) = {} /\ NewsOn(t) = {} /\ Hands(t) = {}
    BY <1>1, <1>2, <1>3 DEF LiveOn, NewsOn, Hands
  <1>5. \A t \in Step : step[t].status = "ready" /\ step[t].attempt = 1
    BY DEF Init, NewStep, AllAtOnce
  <1>6. \A t \in Step : OnStep(t)
    BY <1>4, <1>5 DEF OnStep, Owned, OneNews, Attends, Once
  <1>7. Places /\ Fresh
    BY <1>1, <1>2, <1>3, LoopIsFiber DEF Places, Fresh, BootPC
  <1>8. Boot
    <2>1. Ready = Step
      BY <1>5 DEF Ready
    <2> QED BY <1>1, <1>2, <2>1, LoopIsFiber DEF Boot, BootPC, StartPC
  <1>9. ~Ending
    BY <1>1, <1>2, LoopIsFiber DEF Ending, At
  <1> QED BY <1>6, <1>7, <1>8, <1>9 DEF PInv

LEMMA ParStep ==
  ASSUME AllAtOnce
  PROVE  ParInv /\ [Next]_vars => ParInv'
  <1> SUFFICES ASSUME CInv, PInv, [Next]_vars PROVE CInv' /\ PInv'
    BY DEF ParInv
  <1>1. TInv /\ TInv' /\ CInv'
    BY CountStep
  <1>2. CASE LoopStep
    BY <1>1, <1>2, EventLoopKeeps
  <1>3. ASSUME NEW f \in Fiber, OtherStep(f) PROVE PInv'
    <2>1. CASE f = Loop
      <3>1. ~(Loop \in Worker)
        BY LoopIsFiber
      <3> QED BY <1>1, <1>3, <2>1, <3>1, LoopRecomputes DEF OtherStep
    <2>2. CASE f \in Worker
      <3>1. f # Loop
        BY <2>2, LoopIsFiber
      <3> QED BY <1>3, <2>2, <3>1, RecomputeIsQuiet, HandlerStepKeeps DEF OtherStep
    <2> QED BY <2>1, <2>2 DEF Fiber
  <1>4. ASSUME NEW s \in Session, AgentStep(s) PROVE PInv'
    <2>1. ~StopNoticed(s)
      BY DEF StopNoticed, PInv, Places
    <2> QED BY <1>1, <1>4, <2>1, CommitIsOwn, EndIsNews DEF AgentStep
  <1>5. CASE UserStep \/ UNCHANGED vars
    BY <1>1, <1>5, OthersAreQuiet
  <1> QED BY <1>1, <1>2, <1>3, <1>4, <1>5 DEF Next

LEMMA ParInvariant ==
  ASSUME AllAtOnce
  PROVE  Spec => []ParInv
  <1>1. Init => ParInv
    BY InitType, InitCounted, ParInit DEF ParInv, CInv
  <1>2. ParInv /\ [Next]_vars => ParInv'
    BY ParStep
  <1> QED BY <1>1, <1>2, PTL DEF Spec

-----------------------------------------------------------------------------
(* However the handlers of the steps overlap: no step is tried again, none *)
(* is done without its commits in main, and no more agents run than the    *)
(* configuration allows (handleWorktreeCompletion, startReadySteps).       *)
THEOREM OverlapStaysSound ==
  ASSUME AllAtOnce, ~ZeroCommitOracle
  PROVE  Spec => []StepsSound
  <1>1. ParInv => StepsSound
    <2> SUFFICES ASSUME ParInv PROVE StepsSound
      OBVIOUS
    <2>1. RetriesBounded /\ DoneMeansLanded
      BY DEF ParInv, PInv, OnStep, Once, RetriesBounded, DoneMeansLanded, AllAtOnce
    <2>2. \A s \in Live : sess[s].t \in Step /\ s \in LiveOn(sess[s].t)
      BY DEF ParInv, CInv, TInv, TypeOK, SessRec, Live, LiveOn
    <2> DEFINE at == [s \in Live |-> sess[s].t]
    <2>3. at \in [Live -> Step]
      BY <2>2
    <2>4. ASSUME NEW s \in Live, NEW r \in Live, at[s] = at[r] PROVE s = r
      <3>1. s \in LiveOn(at[s]) /\ r \in LiveOn(at[s]) /\ at[s] \in Step
        BY <2>2, <2>4
      <3> QED BY <3>1 DEF ParInv, PInv, OnStep, Owned
    <2>5. at \in Injection(Live, Step)
      BY <2>3, <2>4 DEF Injection, IsInjective
    <2> HIDE DEF at
    <2>6. Cardinality(Live) <= Cardinality(Step) /\ IsFiniteSet(Live)
      BY <2>5, PlanAssumption, FS_Injection
    <2>7. Cardinality(Live) \in Nat /\ Cardinality(Step) \in Nat
      BY <2>6, PlanAssumption, FS_CardinalityType
    <2>8. Cardinality(Live) <= MaxAgents
      BY <2>6, <2>7, ConfigAssumption DEF AllAtOnce
    <2> QED BY <2>1, <2>8 DEF StepsSound, AgentsBounded
  <1> QED BY <1>1, ParInvariant, PTL

(* Of the handlers that end at the same time none marks the plan done, and *)
(* run() does not return, while a step is left or a handler at work        *)
(* (isPlanTerminal, shouldExitLoop).                                       *)
THEOREM OverlapEndsOver ==
  ASSUME AllAtOnce
  PROVE  Spec => []PlanOver
  <1>1. ParInv => PlanOver
    BY DEF ParInv, PInv, Ending, AllOver, PlanOver, PlanDoneIsComplete, ExitMeansOver
  <1> QED BY <1>1, ParInvariant, PTL

(* However many agents end, and in whatever order their ends are handled,  *)
(* each step in progress has an agent to which the executor listens, or    *)
(* the news of its end is in the queue or with a handler, and each step    *)
(* under verification has a handler that writes to the plan.               *)
THEOREM OverlapForgetsNone ==
  ASSUME AllAtOnce
  PROVE  Spec => []Attended
  <1>1. ParInv => Attended
    <2> SUFFICES ASSUME ParInv, NEW t \in Step,
                        step[t].status \in {"in-progress", "verifying"}
                 PROVE  \/ step[t].status = "in-progress" /\ LiveOn(t) \cap mapped # {}
                        \/ step[t].status = "in-progress" /\
                             \E i \in DOMAIN queue : /\ queue[i].type = "agent_completed"
                                                     /\ queue[i].t = t
                        \/ \E w \in Worker : /\ w \in Fiber /\ fib[w].hold # <<>>
                                             /\ Cur(w).t = t /\ Working(w) /\ ~Cur(w).stale
      BY DEF Attended, InProgressIsAttended, VerifyingIsAttended
    <2>1. TInv /\ PInv /\ OnStep(t)
      BY DEF ParInv, CInv, PInv
    <2>2. CASE LiveOn(t) # {}
      <3>1. LiveOn(t) \subseteq mapped /\ step[t].status = "in-progress"
        BY <2>1, <2>2 DEF PInv, Places, Live, LiveOn, OnStep, Attends
      <3> QED BY <2>2, <3>1
    <2>3. CASE NewsOn(t) # {}
      <3>1. step[t].status = "in-progress"
        BY <2>1, <2>3 DEF OnStep, Attends
      <3> QED BY <2>3, <3>1 DEF NewsOn, News
    <2>4. CASE Hands(t) # {}
      <3>1. PICK w \in Worker : Has(w) /\ Cur(w).t = t
        BY <2>4 DEF Hands
      <3> QED BY <2>1, <3>1, HandFacts
    <2> QED BY <2>1, <2>2, <2>3, <2>4 DEF OnStep, Attends
  <1> QED BY <1>1, ParInvariant, PTL

(* Failures pause the plan while its other handlers go on: none of them    *)
(* starts an agent, for every agent was started before the first failure   *)
(* (pauseOnFailure, startReadySteps).                                      *)
THEOREM OverlapPausedStartsNothing ==
  ASSUME AllAtOnce
  PROVE  Spec => PausedStartsNothing
  <1>1. ParInv /\ [Next]_vars =>
          [planStatus = "paused" => \A t \in Step : ~Starts(t)]_vars
    <2> SUFFICES ASSUME ParInv, [Next]_vars, NEW t \in Step, Starts(t)
                 PROVE  planStatus # "paused"
      OBVIOUS
    <2>1. TInv /\ PInv
      BY DEF ParInv, CInv
    <2>2. PICK f \in Fiber, s \in Session : SpawnAgent(f, s) /\ Cur(f).t = t
      BY <2>1, WhoStarts
    <2>3. fib[f].pc = "spawn"
      BY <2>2 DEF SpawnAgent, At
    <2>4. f = Loop
      BY <2>1, <2>3 DEF PInv, Places, Fiber, HandPC, FreePC
    <2> QED BY <2>1, <2>3, <2>4, BootFacts DEF StartPC
  <1> QED BY <1>1, ParInvariant, PTL DEF Spec, PausedStartsNothing

(* The handler that has a step in its hands, for every fiber that removes  *)
(* a worktree or merges its branch.                                        *)
LEMMA WhoHandles ==
  ASSUME TInv, PInv, NEW f \in Fiber,
         fib[f].pc \in {"merge", "remerge", "discard", "removing"}
  PROVE  f \in Worker /\ Has(f) /\ fib[f].pc # "remerge"
  BY DEF PInv, Places, Fiber, Has, HandPC, FreePC, BootPC, StartPC

(* A worktree has one agent at a time, and no handler removes it while one *)
(* is at work in it, although handlers of other steps recompute the plan   *)
(* at the same time (handleWorktreeCompletion, WorktreeManager.remove).    *)
THEOREM OverlapOwnsWorktrees ==
  ASSUME AllAtOnce
  PROVE  Spec => OwnTree
  <1>1. ParInv => OneAgentPerStep
    <2> SUFFICES ASSUME ParInv, NEW t \in Step PROVE Cardinality(LiveOn(t)) <= 1
      BY DEF OneAgentPerStep
    <2>1. \A s, r \in LiveOn(t) : s = r
      BY DEF ParInv, PInv, OnStep, Owned
    <2>2. CASE LiveOn(t) = {}
      BY <2>2, FS_EmptySet
    <2>3. CASE LiveOn(t) # {}
      <3>1. PICK s \in LiveOn(t) : TRUE
        BY <2>3
      <3>2. LiveOn(t) = {s}
        BY <2>1, <3>1
      <3> QED BY <3>2, FS_Singleton
    <2> QED BY <2>2, <2>3
  <1>2. ParInv /\ [Next]_vars =>
          \A t \in Step : git[t].dir /\ ~git'[t].dir => LiveOn(t) = {}
    <2> SUFFICES ASSUME ParInv, [Next]_vars, NEW t \in Step, git[t].dir, ~git'[t].dir
                 PROVE  LiveOn(t) = {}
      OBVIOUS
    <2>1. TInv /\ PInv
      BY DEF ParInv, CInv
    <2>2. ~Keeps(t) /\ ~Merges(t)
      BY <2>1, MergedBranch DEF Keeps
    <2>3. PICK f \in Fiber : fib[f].pc \in {"discard", "removing"} /\ Cur(f).t = t
      BY <2>1, <2>2, BranchStep DEF Discards
    <2> QED BY <2>1, <2>3, WhoHandles, HandFacts
  <1>3. ParInv /\ ParInv' /\ [Next]_vars =>
          [OneAgentPerStep' /\ \A t \in Step : git[t].dir /\ ~git'[t].dir
                                  => LiveOn(t) = {}]_vars
    <2>1. ParInv' => OneAgentPerStep'
      BY <1>1, PTL
    <2> QED BY <1>2, <2>1
  <1> QED BY <1>3, ParInvariant, PTL DEF Spec, OwnTree

(* Commits that main lacks are never lost while merges of other steps move *)
(* main, whether a merge succeeds or fails (WorktreeManager.merge, remove).*)
THEOREM OverlapKeepsCommits ==
  ASSUME AllAtOnce
  PROVE  Spec => WorkIsKept
  <1>1. ParInv /\ [Next]_vars =>
          [\A t \in Step : git[t].ahead /\ ~git'[t].ahead
             => git'[t].landed \/ step'[t].status = "skipped"]_vars
    <2> SUFFICES ASSUME ParInv, [Next]_vars, NEW t \in Step,
                        git[t].ahead, ~git'[t].ahead
                 PROVE  git'[t].landed
      OBVIOUS
    <2>1. TInv /\ PInv
      BY DEF ParInv, CInv
    <2>2. ~Keeps(t)
      BY DEF Keeps
    <2>3. CASE Discards(t)
      <3>1. PICK f \in Fiber : /\ fib[f].pc \in {"discard", "removing"}
                               /\ Cur(f).t = t
                               /\ git' = Discarded(t)
        BY <2>3 DEF Discards
      <3>2. ~git[t].tracked
        BY <2>1, <3>1, WhoHandles, HandFacts DEF Suits
      <3> QED BY <3>1, <3>2 DEF Discarded
    <2>4. CASE Merges(t)
      BY <2>1, <2>4, MergedBranch
    <2> QED BY <2>1, <2>2, <2>3, <2>4, BranchStep
  <1> QED BY <1>1, ParInvariant, PTL DEF Spec, WorkIsKept

(* What reaches main is what passed verification, even when others commit  *)
(* to main and merges of other steps move it meanwhile: nothing rebases a  *)
(* branch that is tried once (handleWorktreeCompletion).                   *)
THEOREM OverlapLandsVerified ==
  ASSUME AllAtOnce
  PROVE  Spec => LandsVerified
  <1>1. ParInv /\ [Next]_vars =>
          [\A t \in Step : ~git[t].landed /\ git'[t].landed => git[t].checked]_vars
    <2> SUFFICES ASSUME ParInv, [Next]_vars, NEW t \in Step,
                        ~git[t].landed, git'[t].landed
                 PROVE  git[t].checked
      OBVIOUS
    <2>1. TInv /\ PInv
      BY DEF ParInv, CInv
    <2>2. ~Keeps(t)
      BY DEF Keeps
    <2>3. ~Discards(t)
      BY <2>1 DEF Discards, Discarded, NoTree, TInv, TypeOK
    <2>4. PICK f \in Fiber : fib[f].pc \in {"merge", "remerge"} /\ Cur(f).t = t
      BY <2>1, <2>2, <2>3, BranchStep DEF Merges
    <2> QED BY <2>1, <2>4, WhoHandles, HandFacts DEF Suits
  <1> QED BY <1>1, ParInvariant, PTL DEF Spec, LandsVerified
=============================================================================
