--------------------------- MODULE SessionProofs ----------------------------
(***************************************************************************)
(* What TLAPS proves of AgentSession, CicdPoller and InfraWatcher, as      *)
(* MCSessions puts them together: their variables have their types, and    *)
(* what listeners may rely on at the end of a session, for any number of   *)
(* sessions and of callers of stopSession(), whatever the event store      *)
(* refuses.                                                                *)
(***************************************************************************)
EXTENDS MCSessions, TLAPS

-----------------------------------------------------------------------------
(* Types.                                                                  *)

(* ConsumerState() and AdapterState() are states of a session.             *)
LEMMA StateTypes ==
  ASSUME NEW b, NEW e \in Event, NEW s \in AgentState
  PROVE  ConsumerState(e, s) \in AgentState /\ AdapterState(b, e, s) \in AgentState
BY DEF ConsumerState, AdapterState, AgentState, Event, Printed

(* emitEvent() keeps the types.                                            *)
LEMMA EmitType ==
  ASSUME SessionTypeOK, NEW a \in Session, NEW e \in Event, NEW s \in AgentState,
         Emit(a, e, s)
  PROVE  /\ buffer' \in [Session -> Seq(Event)]
         /\ state' \in [Session -> AgentState]
         /\ consumer' \in [Session -> ConsumerAt]
<1>1. AdapterState(backend[a], e, s) \in AgentState
  BY StateTypes DEF SessionTypeOK
<1>2. Append(buffer[a], e) \in Seq(Event)
  BY DEF SessionTypeOK
<1>3. Woken(consumer[a]) \in ConsumerAt
  BY DEF SessionTypeOK, Woken, ConsumerAt
<1> QED BY <1>1, <1>2, <1>3, ZenonT(40) DEF SessionTypeOK, Emit

(* What is told of one session leaves seen of its type.                    *)
LEMMA SeenType ==
  ASSUME NEW r \in Seen, NEW s \in AgentState
  PROVE  /\ [r EXCEPT !.created = TRUE] \in Seen
         /\ [r EXCEPT !.status = s] \in Seen
         /\ [r EXCEPT !.status = r.status] \in Seen
         /\ [r EXCEPT !.stopped = @ + 1] \in Seen
<1> USE DEF Seen
<1>1. [r EXCEPT !.created = TRUE] \in Seen  OBVIOUS
<1>2. [r EXCEPT !.status = s] \in Seen  OBVIOUS
<1>3. [r EXCEPT !.status = r.status] \in Seen  OBVIOUS
<1>4. [r EXCEPT !.stopped = @ + 1] \in Seen  OBVIOUS
<1> QED BY <1>1, <1>2, <1>3, <1>4

LEMMA SeenTypes ==
  ASSUME seen \in [Session -> Seen], NEW a \in Session, NEW s \in AgentState
  PROVE  /\ [seen EXCEPT ![a].created = TRUE, ![a].status = s] \in [Session -> Seen]
         /\ [seen EXCEPT ![a].status = s] \in [Session -> Seen]
         /\ [seen EXCEPT ![a].status = seen[a].status] \in [Session -> Seen]
         /\ [seen EXCEPT ![a].stopped = @ + 1] \in [Session -> Seen]
<1>1. seen[a] \in Seen  OBVIOUS
<1>2. [[seen[a] EXCEPT !.created = TRUE] EXCEPT !.status = s] \in Seen
  <2>1. [seen[a] EXCEPT !.created = TRUE] \in Seen  BY <1>1, SeenType
  <2> QED BY <2>1, SeenType
<1>3. /\ [seen[a] EXCEPT !.status = s] \in Seen
      /\ [seen[a] EXCEPT !.status = seen[a].status] \in Seen
      /\ [seen[a] EXCEPT !.stopped = @ + 1] \in Seen
  BY <1>1, SeenType
<1>4. [seen EXCEPT ![a].created = TRUE, ![a].status = s] =
         [seen EXCEPT ![a] = [[seen[a] EXCEPT !.created = TRUE] EXCEPT !.status = s]]
  OBVIOUS
<1> QED BY <1>2, <1>3, <1>4

LEMMA SessionInitType == ASSUME SessionInit PROVE SessionTypeOK
BY SessionAssumption
DEF SessionInit, SessionTypeOK, ProcessState, AgentState, ConsumerAt, Stopper, Idle,
    Seen, Unseen

LEMMA SessionStepType ==
  ASSUME SessionTypeOK, [SessionNext]_sessionVars
  PROVE  SessionTypeOK'
<1> USE DEF SessionTypeOK
<1>1. ASSUME NEW a \in Session, StartSession(a) PROVE SessionTypeOK'
  <2>1. <<"agent_start">> \in Seq(Event)  BY DEF Event, Printed
  <2> QED BY <1>1, <2>1 DEF StartSession, ProcessState, ConsumerAt
<1>2. ASSUME NEW a \in Session, Exit(a) PROVE SessionTypeOK'
  <2>1. /\ buffer' \in [Session -> Seq(Event)]
        /\ state' \in [Session -> AgentState]
        /\ consumer' \in [Session -> ConsumerAt]
    <3>1. CASE EmitEnd(a)
      BY <3>1, EmitType DEF EmitEnd, Event, AgentState
    <3>2. CASE UNCHANGED <<buffer, state, consumer>>
      BY <3>2
    <3> QED BY <1>2, <3>1, <3>2 DEF Exit
  <2>2. process' \in [Session -> ProcessState]
    BY <1>2 DEF Exit, ProcessState
  <2>3. stopper' \in [Caller -> Stopper]
    BY <1>2 DEF Exit, Released, Stopper
  <2> QED BY <1>2, <2>1, <2>2, <2>3 DEF Exit
<1>3. ASSUME NEW a \in Session, Drained(a) PROVE SessionTypeOK'
  BY <1>3, EmitType DEF Drained, EmitEnd, Event, AgentState, ProcessState
<1>4. ASSUME NEW a \in Session, SafetyTimeout(a) PROVE SessionTypeOK'
  BY <1>4, EmitType DEF SafetyTimeout, EmitEnd, Event, AgentState, ProcessState
<1>5. ASSUME NEW a \in Session, PromptSession(a) PROVE SessionTypeOK'
  BY <1>5 DEF PromptSession, AgentState
<1>6. ASSUME NEW a \in Session, Created(a) PROVE SessionTypeOK'
  BY <1>6, SeenTypes DEF Created, StreamOver, ConsumerAt
<1>7. ASSUME NEW a \in Session, Consume(a) PROVE SessionTypeOK'
  <2> DEFINE new == ConsumerState(Head(buffer[a]), state[a])
  <2>1. Head(buffer[a]) \in Event /\ Tail(buffer[a]) \in Seq(Event)
    BY <1>7 DEF Consume
  <2>2. new \in AgentState  BY <2>1, StateTypes
  <2>3. state' = [state EXCEPT ![a] = new] /\ Announce(a, new)
    BY <1>7 DEF Consume
  <2> HIDE DEF new
  <2>4. seen' \in [Session -> Seen]
    BY <2>2, <2>3, SeenTypes DEF Announce
  <2> QED BY <1>7, <2>1, <2>2, <2>3, <2>4 DEF Consume
<1>8. ASSUME NEW a \in Session, ConsumeForgotten(a) PROVE SessionTypeOK'
  BY <1>8 DEF ConsumeForgotten, ConsumerAt
<1>9. ASSUME NEW a \in Session, StoreFails(a) PROVE SessionTypeOK'
  <2> DEFINE new == ConsumerState(Head(buffer[a]), state[a])
  <2>1. Head(buffer[a]) \in Event /\ Tail(buffer[a]) \in Seq(Event)
    BY <1>9 DEF StoreFails
  <2>2. new \in AgentState  BY <2>1, StateTypes
  <2>3. Announce(a, new) /\ consumer' \in [Session -> ConsumerAt]
    BY <1>9 DEF StoreFails, ConsumerAt
  <2> HIDE DEF new
  <2>4. seen' \in [Session -> Seen]
    BY <2>2, <2>3, SeenTypes DEF Announce
  <2> QED BY <1>9, <2>1, <2>3, <2>4 DEF StoreFails, AgentState
<1>10. ASSUME NEW a \in Session, ConsumerRests(a) PROVE SessionTypeOK'
  BY <1>10 DEF ConsumerRests, StreamOver, ConsumerAt
<1>11. ASSUME NEW a \in Session, ConsumerCloses(a) PROVE SessionTypeOK'
  <2>1. seen' \in [Session -> Seen]  BY <1>11, SeenTypes DEF ConsumerCloses
  <2> QED BY <1>11, <2>1 DEF ConsumerCloses, ConsumerAt
<1>12. ASSUME NEW a \in Session, NEW e \in Event, NEW more \in BOOLEAN,
              ReadOutput(a, e, more)
       PROVE  SessionTypeOK'
  <2>1. /\ buffer' \in [Session -> Seq(Event)]
        /\ state' \in [Session -> AgentState]
        /\ consumer' \in [Session -> ConsumerAt]
    BY <1>12, EmitType DEF ReadOutput
  <2>2. printed' \in [Session -> 0..MaxEvents]
    BY <1>12, SessionAssumption DEF ReadOutput
  <2> QED BY <1>12, <2>1, <2>2 DEF ReadOutput
<1>13. ASSUME NEW c \in Caller, NEW a \in Session, StopSession(c, a)
       PROVE  SessionTypeOK'
  <2>1. [at |-> "persisting", of |-> a] \in Stopper /\ Idle \in Stopper
        /\ [at |-> "killing", of |-> a] \in Stopper
    BY DEF Stopper, Idle
  <2> QED BY <1>13, <2>1 DEF StopSession, MarkStopped, AgentState, ProcessState
<1>14. ASSUME NEW c \in Caller, StopTimeout(c) PROVE SessionTypeOK'
  BY <1>14 DEF StopTimeout, Stopper
<1>15. ASSUME NEW c \in Caller, Killed(c) PROVE SessionTypeOK'
  <2> DEFINE a == stopper[c].of
  <2>1. /\ state' = [state EXCEPT ![a] = "stopped"]
        /\ tracked' = [tracked EXCEPT ![a] = FALSE]
        /\ MarkStopped(c, a)
    BY <1>15 DEF Killed
  <2>2. stopper[c] \in Stopper  OBVIOUS
  <2>3. [at |-> "persisting", of |-> a] \in Stopper /\ Idle \in Stopper
    BY <2>2 DEF Stopper, Idle
  <2> HIDE DEF a
  <2>4. stopper' \in [Caller -> Stopper]
    BY <2>1, <2>3 DEF MarkStopped
  <2>5. known' \in [Session -> BOOLEAN] /\ attached' \in [Session -> BOOLEAN]
    BY <2>1 DEF MarkStopped
  <2> QED BY <1>15, <2>1, <2>4, <2>5 DEF Killed, AgentState
<1>16. ASSUME NEW c \in Caller, StopPersisted(c) PROVE SessionTypeOK'
  <2> DEFINE a == stopper[c].of
  <2>1. /\ seen' = [seen EXCEPT ![a].stopped = @ + 1]
        /\ known' = [known EXCEPT ![a] = FALSE]
        /\ attached' = [attached EXCEPT ![a] = FALSE]
        /\ stopper' = [stopper EXCEPT ![c] = Idle]
    BY <1>16 DEF StopPersisted
  <2>2. seen' \in [Session -> Seen]
    <3>1. CASE a \in Session
      BY <2>1, <3>1, SeenTypes
    <3>2. CASE a \notin Session
      BY <2>1, <3>2
    <3> QED BY <3>1, <3>2
  <2>3. stopper' \in [Caller -> Stopper]
    BY <2>1 DEF Stopper, Idle
  <2> QED BY <1>16, <2>1, <2>2, <2>3 DEF StopPersisted
<1>17. CASE UNCHANGED sessionVars
  BY <1>17 DEF sessionVars
<1> QED BY <1>1, <1>2, <1>3, <1>4, <1>5, <1>6, <1>7, <1>8, <1>9, <1>10, <1>11,
           <1>12, <1>13, <1>14, <1>15, <1>16, <1>17 DEF SessionNext

LEMMA PollerStepType ==
  ASSUME PollerTypeOK, [PollerNext]_pollerVars
  PROVE  PollerTypeOK'
<1> USE PollerAssumption DEF PollerTypeOK
<1>1. ASSUME Change \/ Displaced PROVE PollerTypeOK'
  <2>1. CASE Change
    <3>1. remote' \in Status /\ changes' \in 0..MaxChanges
      BY <2>1 DEF Change
    <3> QED BY <2>1, <3>1 DEF Change
  <2>2. CASE Displaced  BY <2>2 DEF Displaced
  <2> QED BY <1>1, <2>1, <2>2
<1>2. ASSUME Track \/ Timer PROVE PollerTypeOK'  BY <1>2 DEF Track, Timer
<1>3. ASSUME Snapshot PROVE PollerTypeOK'  BY <1>3 DEF Snapshot, Listed
<1>4. ASSUME SeedRead \/ SeedFails PROVE PollerTypeOK'
  BY <1>4 DEF SeedRead, SeedFails, Sees, Listed, Waits
<1>5. ASSUME PollRead \/ PollFails PROVE PollerTypeOK'
  BY <1>5 DEF PollRead, PollFails, Sees, Listed, Waits
<1>6. ASSUME Dispose PROVE PollerTypeOK'  BY <1>6 DEF Dispose
<1>7. CASE UNCHANGED pollerVars  BY <1>7 DEF pollerVars
<1> QED BY <1>1, <1>2, <1>3, <1>4, <1>5, <1>6, <1>7 DEF PollerNext

LEMMA InfraStepType ==
  ASSUME InfraTypeOK, [InfraNext]_infraVars
  PROVE  InfraTypeOK'
<1> USE InfraAssumption DEF InfraTypeOK, Form
<1>1. ASSUME PodChanges PROVE InfraTypeOK'
  <2>1. pod' \in Form /\ forms' \in Form  BY <1>1 DEF PodChanges
  <2>2. (IF pod' = 0 THEN pod ELSE pod') \in Form \ {0}
    BY <1>1, <2>1 DEF PodChanges
  <2>3. stream' \in Seq(Form \ {0})
    BY <1>1, <2>2 DEF PodChanges
  <2> QED BY <1>1, <2>1, <2>3 DEF PodChanges
<1>2. ASSUME Watch \/ PollTimer PROVE InfraTypeOK'  BY <1>2 DEF Watch, PollTimer
<1>3. ASSUME SeedDone PROVE InfraTypeOK'
  <2>1. stream' \in Seq(Form \ {0})
    <3>1. pod # 0 => <<pod>> \in Seq(Form \ {0})  OBVIOUS
    <3>2. <<>> \in Seq(Form \ {0})  OBVIOUS
    <3> QED BY <1>3, <3>1, <3>2 DEF SeedDone
  <2> QED BY <1>3, <2>1 DEF SeedDone
<1>4. ASSUME PollDone PROVE InfraTypeOK'  BY <1>4 DEF PollDone
<1>5. ASSUME NEW found \in {0, pod}, ListReads(found) PROVE InfraTypeOK'
  BY <1>5 DEF ListReads
<1>6. ASSUME StreamLine PROVE InfraTypeOK'
  <2>1. Head(stream) \in Form \ {0} /\ Tail(stream) \in Seq(Form \ {0})
    BY <1>6 DEF StreamLine
  <2> QED BY <1>6, <2>1 DEF StreamLine
<1>7. ASSUME StreamCloses \/ DisposeWatch PROVE InfraTypeOK'
  BY <1>7 DEF StreamCloses, DisposeWatch
<1>8. CASE UNCHANGED infraVars  BY <1>8 DEF infraVars
<1> QED BY <1>1, <1>2, <1>3, <1>4, <1>5, <1>6, <1>7, <1>8 DEF InfraNext, WatchGoesOn

(* Every variable of the three has its type (claude-code.ts, opencode.ts,  *)
(* session-manager.ts, cicd-poller.ts, github-actions.ts, kubernetes.ts).  *)
THEOREM HeardTypeCorrect == Spec => []HeardTypeOK
<1>1. Init => HeardTypeOK
  <2>1. PollerInit => PollerTypeOK
    <3> SUFFICES ASSUME PollerInit PROVE PollerTypeOK
      OBVIOUS
    <3>1. remote \in Status \cup {"none"} /\ changes \in 0..MaxChanges
      BY PollerAssumption DEF PollerInit
    <3>2. cached = "none" /\ lastStatus = "none" /\ first = "none"
          /\ watcher = "none"
      BY Zenon DEF PollerInit
    <3>3. latest \in BOOLEAN /\ disposed \in BOOLEAN
      BY Zenon DEF PollerInit
    <3> QED BY <3>1, <3>2, <3>3 DEF PollerTypeOK
  <2>2. InfraInit => InfraTypeOK
    <3> SUFFICES ASSUME InfraInit PROVE InfraTypeOK
      OBVIOUS
    <3>1. pod \in Form /\ forms \in Form /\ 0 \in Form
      BY InfraAssumption DEF InfraInit, Form
    <3>2. infraDisposed \in BOOLEAN  BY Zenon DEF InfraInit
    <3>3. /\ watchChild = "none" /\ infra = "none" /\ stream \in Seq(Form \ {0})
          /\ lastState \in Form /\ reported \in Form /\ listed \in Form
      BY <3>1 DEF InfraInit
    <3> QED BY <3>1, <3>2, <3>3 DEF InfraTypeOK
  <2> QED BY <2>1, <2>2, SessionInitType DEF Init, HeardTypeOK
<1>2. HeardTypeOK /\ [Next]_vars => HeardTypeOK'
  <2> SUFFICES ASSUME HeardTypeOK, [Next]_vars PROVE HeardTypeOK'
    OBVIOUS
  <2>1. [SessionNext]_sessionVars /\ [PollerNext]_pollerVars /\ [InfraNext]_infraVars
    BY DEF Next, vars
  <2> QED BY <2>1, SessionStepType, PollerStepType, InfraStepType DEF HeardTypeOK
<1> QED BY <1>1, <1>2, PTL DEF Spec
-----------------------------------------------------------------------------
(* The end of a session.  What follows is about one session a, whatever    *)
(* the others do.                                                          *)

Claude(a)   == backend[a] = "claude-code"
Stopping(a) == \E c \in Caller : stopper[c].of = a

(* The consumer has not ended; the adapter is through with the output.     *)
Fed  == {"starting", "awake", "asleep"}
Past == {"lingering", "gone"}

(* Nothing is known or told of a session before it starts, nor does the    *)
(* station say that it exists before the consumer has begun.               *)
FreshInv(a) ==
  /\ (process[a] = "none") <=> (consumer[a] = "none")
  /\ process[a] = "none" =>
       seen[a] = Unseen /\ state[a] # "stopped" /\ ~known[a] /\ ~Stopping(a)
  /\ consumer[a] = "starting" => ~seen[a].created

(* Until somebody has stopped it, only its consumer announces the end.     *)
CloseInv(a) ==
  known[a] =>
    /\ seen[a].stopped <= 1
    /\ seen[a].stopped = 1 => consumer[a] \in {"over", "failed"}
    /\ ~attached[a] => consumer[a] \in {"over", "failed"}

(* While a process of claude-code lives, the end has not begun, unless the *)
(* event store has failed.                                                 *)
AliveInv(a) ==
  /\ \A c \in Caller :
       stopper[c].of = a /\ stopper[c].at \in {"killing", "killed"}
         => process[a] # "alive"
  /\ ~tracked[a] => process[a] # "alive"
  /\ Claude(a) /\ process[a] = "alive" /\ consumer[a] # "failed" =>
       /\ known[a] /\ ~Stopping(a) /\ seen[a].stopped = 0
       /\ consumer[a] \notin {"closing", "over"}
       /\ state[a] = "stopped" => consumer[a] \notin Fed

(* agent_end is not there before the output is read; a consumer that has   *)
(* ended without a stop has had it.                                        *)
DrainInv(a) ==
  Claude(a) =>
    /\ process[a] \notin Past =>
         \A i \in DOMAIN buffer[a] : buffer[a][i] # "agent_end"
    /\ known[a] /\ ~Stopping(a) =>
         /\ process[a] # "none" => tracked[a]
         /\ consumer[a] \in {"closing", "over"} =>
              /\ process[a] \in Past
              /\ \A i \in DOMAIN buffer[a] : buffer[a][i] = "agent_end"
         /\ consumer[a] \in Fed /\ state[a] = "stopped" => process[a] \in Past

EndInv(a) == FreshInv(a) /\ CloseInv(a) /\ AliveInv(a) /\ DrainInv(a)

LEMMA EndInvGives ==
  ASSUME SessionTypeOK, \A a \in Session : EndInv(a)
  PROVE  EndsRightly
<1> SUFFICES ASSUME NEW a \in Session
             PROVE  /\ Claude(a) /\ seen[a].stopped > 0 /\ process[a] = "alive"
                         => consumer[a] = "failed"
                    /\ Claude(a) /\ consumer[a] = "over" /\ known[a] =>
                         \/ Stopping(a)
                         \/ \A i \in DOMAIN buffer[a] : buffer[a][i] = "agent_end"
                    /\ known[a] => /\ seen[a].stopped <= 1
                                   /\ seen[a].stopped = 1 => consumer[a] \in {"over", "failed"}
  BY DEF EndsRightly, StoppedIsOver, OutputComplete, AnnouncedOnce, Claude, Stopping
<1> EndInv(a)  OBVIOUS
<1> QED BY DEF EndInv, CloseInv, AliveInv, DrainInv, SessionTypeOK, Seen

(* A step that leaves a session and those who stop it alone.               *)
LEMMA OtherSession ==
  ASSUME NEW a \in Session, EndInv(a),
         backend'[a] = backend[a], process'[a] = process[a],
         tracked'[a] = tracked[a], state'[a] = state[a],
         buffer'[a] = buffer[a], known'[a] = known[a],
         attached'[a] = attached[a], consumer'[a] = consumer[a],
         seen'[a] = seen[a],
         \A c \in Caller : stopper'[c].of = a \/ stopper[c].of = a
                             => stopper'[c] = stopper[c]
  PROVE  EndInv(a)'
<1>1. Stopping(a)' <=> Stopping(a)  BY DEF Stopping
<1>2. FreshInv(a)'  BY <1>1 DEF EndInv, FreshInv
<1>3. CloseInv(a)'  BY DEF EndInv, CloseInv
<1>4. Claude(a)' <=> Claude(a)  BY DEF Claude
<1>5. AliveInv(a)'  BY <1>1, <1>4 DEF EndInv, AliveInv
<1>6. DrainInv(a)'  BY <1>1, <1>4 DEF EndInv, DrainInv
<1> QED BY <1>2, <1>3, <1>5, <1>6 DEF EndInv

(* What emitEvent() does to the session it is called for, and that it      *)
(* leaves the others alone.                                                *)
LEMMA EmitDoes ==
  ASSUME SessionTypeOK, NEW a \in Session, NEW e \in Event, NEW s \in AgentState,
         Emit(a, e, s)
  PROVE  /\ \A b \in Session \ {a} :
              buffer'[b] = buffer[b] /\ state'[b] = state[b] /\ consumer'[b] = consumer[b]
         /\ consumer'[a] = consumer[a] \/ (consumer[a] = "asleep" /\ consumer'[a] = "awake")
         /\ Claude(a) /\ state'[a] = "stopped" => state[a] = "stopped" \/ (s = "stopped" /\ e # "agent_end")
         /\ buffer'[a] \in {buffer[a], Append(buffer[a], e)}
<1>1. Claude(a) /\ AdapterState(backend[a], e, s) = "stopped" => s = "stopped" /\ e # "agent_end"
  BY DEF Claude, AdapterState, Event, Printed
<1> QED BY <1>1 DEF SessionTypeOK, Emit, Woken

(* All of a buffer and of one that is longer, or shorter, by an event.     *)
LEMMA Appended ==
  ASSUME NEW s \in Seq(Event), NEW e \in Event
  PROVE  /\ (\A i \in DOMAIN s : s[i] = "agent_end") /\ e = "agent_end"
              => \A i \in DOMAIN Append(s, e) : Append(s, e)[i] = "agent_end"
         /\ (\A i \in DOMAIN s : s[i] # "agent_end") /\ e # "agent_end"
              => \A i \in DOMAIN Append(s, e) : Append(s, e)[i] # "agent_end"
OBVIOUS

LEMMA Shortened ==
  ASSUME NEW s \in Seq(Event), s # <<>>
  PROVE  /\ (\A i \in DOMAIN s : s[i] = "agent_end")
              => \A i \in DOMAIN Tail(s) : Tail(s)[i] = "agent_end"
         /\ (\A i \in DOMAIN s : s[i] # "agent_end")
              => /\ Head(s) # "agent_end"
                 /\ \A i \in DOMAIN Tail(s) : Tail(s)[i] # "agent_end"
OBVIOUS

LEMMA EndStart ==
  ASSUME SessionTypeOK, NEW a \in Session, StartSession(a), \A b \in Session : EndInv(b)
  PROVE  \A b \in Session : EndInv(b)'
<1> USE DEF SessionTypeOK
<1>1. ASSUME NEW b \in Session, b # a PROVE EndInv(b)'
  BY <1>1, OtherSession DEF StartSession
<1>2. EndInv(a)'
  <2> EndInv(a)  OBVIOUS
  <2>0. /\ process[a] = "none" /\ process'[a] = "alive" /\ consumer'[a] = "starting"
        /\ buffer'[a] = <<"agent_start">> /\ known'[a] /\ attached'[a] /\ tracked'[a]
        /\ state'[a] = state[a] /\ seen'[a] = seen[a] /\ stopper' = stopper
        /\ backend' = backend
    BY DEF StartSession
  <2>1. seen[a] = Unseen /\ state[a] # "stopped" /\ ~Stopping(a)
    BY <2>0 DEF EndInv, FreshInv
  <2>2. FreshInv(a)'  BY <2>0, <2>1 DEF FreshInv, Unseen
  <2>3. CloseInv(a)'  BY <2>0, <2>1 DEF CloseInv, Unseen
  <2>4. AliveInv(a)'
    <3>1. ~Stopping(a)'  BY <2>0, <2>1 DEF Stopping
    <3>2. \A c \in Caller : stopper'[c].of # a  BY <3>1 DEF Stopping
    <3> QED BY <2>0, <2>1, <3>1, <3>2 DEF AliveInv, Unseen
  <2>5. DrainInv(a)'
    BY <2>0, <2>1 DEF DrainInv, Fed, Past
  <2> QED BY <2>2, <2>3, <2>4, <2>5 DEF EndInv
<1> QED BY <1>1, <1>2

(* Steps of the adapter: what they append is agent_end only when the       *)
(* output of claude-code is read.                                          *)
LEMMA EndEmits ==
  ASSUME SessionTypeOK, NEW a \in Session, \A b \in Session : EndInv(b),
         NEW e \in Event, NEW s \in AgentState, Emit(a, e, s),
         UNCHANGED <<backend, tracked, known, attached, seen>>,
         \A b \in Session \ {a} : process'[b] = process[b],
         process[a] # "none" /\ process'[a] # "none",
         process'[a] = "alive" => process[a] = "alive",
         process[a] \in Past => process'[a] \in Past,
         Claude(a) /\ e = "agent_end" => process'[a] \in Past,
         Claude(a) /\ process[a] \in Past => e = "agent_end",
         s = "stopped" => e = "agent_end" \/ s = state[a],
         \A c \in Caller :
           \/ stopper'[c] = stopper[c]
           \/ /\ stopper[c].of = a /\ stopper'[c].of = a
              /\ process[a] # "alive" \/ process'[a] # "alive"
  PROVE  \A b \in Session : EndInv(b)'
<1> USE DEF SessionTypeOK
<1>0. PICK old \in Seq(Event) : old = buffer[a]  OBVIOUS
<1>1. ASSUME NEW b \in Session, b # a PROVE EndInv(b)'
  <2>1. buffer'[b] = buffer[b] /\ state'[b] = state[b] /\ consumer'[b] = consumer[b]
    BY <1>1, EmitDoes
  <2> QED BY <1>1, <2>1, OtherSession
<1>2. EndInv(a)'
  <2> EndInv(a)  OBVIOUS
  <2>1. /\ consumer'[a] = consumer[a] \/ (consumer[a] = "asleep" /\ consumer'[a] = "awake")
        /\ Claude(a) /\ state'[a] = "stopped" => state[a] = "stopped"
        /\ buffer'[a] \in {old, Append(old, e)}
    BY <1>0, EmitDoes
  <2>2. (Stopping(a)' <=> Stopping(a)) /\ (Claude(a)' <=> Claude(a))
    BY DEF Stopping, Claude
  <2>3. FreshInv(a)'
    BY <2>1, <2>2 DEF EndInv, FreshInv
  <2>4. CloseInv(a)'
    BY <2>1 DEF EndInv, CloseInv
  <2>5. AliveInv(a)'
    BY <2>1, <2>2 DEF EndInv, AliveInv, Fed
  <2>6. DrainInv(a)'
    <3> SUFFICES ASSUME Claude(a) PROVE DrainInv(a)'
      BY <2>2 DEF DrainInv
    <3>1. process'[a] \notin Past => \A i \in DOMAIN buffer'[a] : buffer'[a][i] # "agent_end"
      <4>1. ASSUME process'[a] \notin Past
            PROVE  e # "agent_end" /\ \A i \in DOMAIN old : old[i] # "agent_end"
        BY <1>0, <4>1 DEF EndInv, DrainInv
      <4>2. buffer'[a] = old \/ buffer'[a] = Append(old, e)  BY <2>1
      <4>3. (\A i \in DOMAIN old : old[i] # "agent_end") /\ e # "agent_end"
              => \A i \in DOMAIN Append(old, e) : Append(old, e)[i] # "agent_end"
        BY Appended
      <4> QED BY <4>1, <4>2, <4>3
    <3>2. ASSUME known'[a] /\ ~Stopping(a)', consumer'[a] \in {"closing", "over"}
          PROVE  \A i \in DOMAIN buffer'[a] : buffer'[a][i] = "agent_end"
      <4>1. process[a] \in Past /\ \A i \in DOMAIN old : old[i] = "agent_end"
        BY <1>0, <2>1, <2>2, <3>2 DEF EndInv, DrainInv
      <4>2. Claude(a) /\ process[a] \in Past => e = "agent_end"  OBVIOUS
      <4>3. buffer'[a] = old \/ buffer'[a] = Append(old, e)  BY <2>1
      <4>4. (\A i \in DOMAIN old : old[i] = "agent_end") /\ e = "agent_end"
              => \A i \in DOMAIN Append(old, e) : Append(old, e)[i] = "agent_end"
        BY Appended
      <4> QED BY <4>1, <4>2, <4>3, <4>4
    <3> QED BY <2>1, <2>2, <3>1, <3>2 DEF EndInv, DrainInv, Fed
  <2> QED BY <2>3, <2>4, <2>5, <2>6 DEF EndInv
<1> QED BY <1>1, <1>2

LEMMA EndExit ==
  ASSUME SessionTypeOK, NEW a \in Session, \A b \in Session : EndInv(b),
         Exit(a) \/ Drained(a) \/ SafetyTimeout(a)
  PROVE  \A b \in Session : EndInv(b)'
<1> USE DEF SessionTypeOK
<1>1. CASE EmitEnd(a) /\ process'[a] \in Past
  <2>1. "agent_end" \in Event /\ "stopped" \in AgentState
    BY DEF Event, AgentState
  <2>2. \A c \in Caller :
          \/ stopper'[c] = stopper[c]
          \/ stopper[c].of = a /\ stopper'[c].of = a
    BY DEF Exit, Released, Drained, SafetyTimeout, Stopper
  <2>3. process[a] # "none" /\ process'[a] \notin {"none", "alive"}
    BY <1>1 DEF Exit, Drained, SafetyTimeout, Past
  <2>4. Emit(a, "agent_end", "stopped")  BY <1>1 DEF EmitEnd
  <2>5. UNCHANGED <<backend, tracked, known, attached, seen>>
    BY DEF Exit, Drained, SafetyTimeout
  <2>6. \A b \in Session \ {a} : process'[b] = process[b]
    BY DEF Exit, Drained, SafetyTimeout
  <2> QED BY <1>1, <2>1, <2>2, <2>3, <2>4, <2>5, <2>6, EndEmits
<1>2. CASE Exit(a) /\ process' = [process EXCEPT ![a] = "draining"]
           /\ UNCHANGED <<buffer, state, consumer>>
  <2>1. ASSUME NEW b \in Session, b # a PROVE EndInv(b)'
    <3>1. \A c \in Caller : stopper'[c].of = b \/ stopper[c].of = b => stopper'[c] = stopper[c]
      BY <1>2, <2>1 DEF Exit, Released, Stopper
    <3>2. process'[b] = process[b]
          /\ UNCHANGED <<backend, tracked, known, attached, seen, buffer, state, consumer>>
      BY <1>2, <2>1 DEF Exit
    <3> QED BY <3>1, <3>2, OtherSession
  <2>2. EndInv(a)'
    <3> EndInv(a)  OBVIOUS
    <3>1. /\ process[a] \in {"alive", "killed"} /\ process'[a] = "draining"
          /\ UNCHANGED <<backend, tracked, known, attached, seen, buffer, state, consumer>>
      BY <1>2 DEF Exit
    <3>2. (Stopping(a)' <=> Stopping(a)) /\ (Claude(a)' <=> Claude(a))
      <4>1. \A c \in Caller : stopper'[c].of = stopper[c].of
        BY <1>2 DEF Exit, Released, Stopper
      <4> QED BY <3>1, <4>1 DEF Stopping, Claude
    <3>3. FreshInv(a)'  BY <3>1, <3>2 DEF EndInv, FreshInv
    <3>4. CloseInv(a)'  BY <3>1 DEF EndInv, CloseInv
    <3>5. AliveInv(a)'  BY <3>1, <3>2 DEF EndInv, AliveInv
    <3>6. DrainInv(a)'  BY <3>1, <3>2 DEF EndInv, DrainInv, Past
    <3> QED BY <3>3, <3>4, <3>5, <3>6 DEF EndInv
  <2> QED BY <2>1, <2>2
<1> QED BY <1>1, <1>2 DEF Exit, Drained, SafetyTimeout, Past

LEMMA EndReads ==
  ASSUME SessionTypeOK, NEW a \in Session, \A b \in Session : EndInv(b),
         NEW e \in Event, NEW more \in BOOLEAN, ReadOutput(a, e, more)
  PROVE  \A b \in Session : EndInv(b)'
<1> USE DEF SessionTypeOK
<1>1. process[a] \in {"alive", "killed", "draining"} /\ UNCHANGED process
      /\ UNCHANGED <<backend, tracked, known, attached, seen, stopper>>
      /\ Emit(a, e, state[a])
  BY DEF ReadOutput
<1>2. Claude(a) => e # "agent_end"
  BY DEF ReadOutput, Claude, Prints, Printed
<1>3. process[a] \notin Past  BY <1>1 DEF Past
<1> QED BY <1>1, <1>2, <1>3, EndEmits

LEMMA EndPrompt ==
  ASSUME SessionTypeOK, NEW a \in Session, \A b \in Session : EndInv(b), PromptSession(a)
  PROVE  \A b \in Session : EndInv(b)'
<1> USE DEF SessionTypeOK
<1>1. ASSUME NEW b \in Session, b # a PROVE EndInv(b)'
  BY <1>1, OtherSession DEF PromptSession
<1>2. EndInv(a)'
  <2> EndInv(a)  OBVIOUS
  <2>1. /\ ~Claude(a) /\ ~Claude(a)' /\ process[a] # "none" /\ UNCHANGED stopper
        /\ UNCHANGED <<process, tracked, known, attached, consumer, seen>>
    BY DEF PromptSession, Claude
  <2>2. Stopping(a)' <=> Stopping(a)  BY <2>1 DEF Stopping
  <2> QED BY <2>1, <2>2 DEF EndInv, FreshInv, CloseInv, AliveInv, DrainInv
<1> QED BY <1>1, <1>2

(* Steps of a consumer, which leave the process, the entries of the        *)
(* managers' maps and the stops alone.                                     *)
LEMMA EndConsumes ==
  ASSUME SessionTypeOK, NEW a \in Session, \A b \in Session : EndInv(b),
         \/ Created(a) \/ Consume(a) \/ ConsumeForgotten(a) \/ StoreFails(a)
         \/ ConsumerRests(a)
  PROVE  \A b \in Session : EndInv(b)'
<1> USE DEF SessionTypeOK
<1>1. ASSUME NEW b \in Session, b # a PROVE EndInv(b)'
  BY <1>1, OtherSession
  DEF Created, Consume, ConsumeForgotten, StoreFails, ConsumerRests, Announce
<1>2. EndInv(a)'
  <2> EndInv(a)  OBVIOUS
  <2>1. /\ UNCHANGED <<backend, process, tracked, known, attached, stopper>>
        /\ consumer[a] \in {"starting", "awake"} /\ process[a] # "none"
    BY DEF Created, Consume, ConsumeForgotten, StoreFails, ConsumerRests, Consuming,
           EndInv, FreshInv
  <2>2. (Stopping(a)' <=> Stopping(a)) /\ (Claude(a)' <=> Claude(a))
    BY <2>1 DEF Stopping, Claude
  <2>3. seen[a] \in Seen /\ seen'[a] \in Seen /\ seen'[a].stopped = seen[a].stopped
    <3>1. seen[a] \in Seen  OBVIOUS
    <3>2. ASSUME NEW r \in Seen, NEW v \in AgentState
          PROVE  /\ [r EXCEPT !.status = v] \in Seen
                 /\ [r EXCEPT !.status = r.status] \in Seen
                 /\ [r EXCEPT !.created = TRUE, !.status = v] \in Seen
                 /\ [r EXCEPT !.status = v].stopped = r.stopped
                 /\ [r EXCEPT !.status = r.status].stopped = r.stopped
                 /\ [r EXCEPT !.created = TRUE, !.status = v].stopped = r.stopped
      BY DEF Seen
    <3>3. ASSUME NEW v \in AgentState, Announce(a, v)
          PROVE  seen'[a] \in Seen /\ seen'[a].stopped = seen[a].stopped
      BY <3>1, <3>2, <3>3, ZenonT(40) DEF Announce
    <3>4. buffer[a] # <<>> => ConsumerState(Head(buffer[a]), state[a]) \in AgentState
      <4>1. buffer[a] # <<>> => Head(buffer[a]) \in Event  OBVIOUS
      <4> QED BY <4>1, StateTypes
    <3>5. CASE Created(a)
      <4>1. seen'[a] = [seen[a] EXCEPT !.created = TRUE, !.status = state[a]]
        BY <3>5 DEF Created
      <4>2. state[a] \in AgentState  OBVIOUS
      <4> HIDE DEF SessionTypeOK
      <4>3. seen'[a] \in Seen  BY <3>1, <4>1, <4>2 DEF Seen
      <4> QED BY <3>1, <4>1, <4>3 DEF Seen
    <3>6. CASE Consume(a)
      BY <3>3, <3>4, <3>6 DEF Consume
    <3>7. CASE StoreFails(a)
      BY <3>3, <3>4, <3>7 DEF StoreFails
    <3> QED BY <3>1, <3>5, <3>6, <3>7 DEF ConsumeForgotten, ConsumerRests
  <2>4. consumer'[a] \in {"awake", "asleep", "closing", "over", "failing", "failed"}
    BY DEF Created, Consume, ConsumeForgotten, StoreFails, ConsumerRests, Consuming, StreamOver
  <2>5. FreshInv(a)'  BY <2>1, <2>4 DEF FreshInv
  <2>6. CloseInv(a)'
    BY <2>1, <2>3, <2>4 DEF EndInv, CloseInv, Seen
  <2> DEFINE Ended  == consumer'[a] \in {"closing", "over"}
             Halted == consumer'[a] \in Fed /\ state'[a] = "stopped"
  <2>7. ASSUME Claude(a)
        PROVE  /\ process[a] = "alive" /\ consumer'[a] # "failed" => ~Ended /\ ~Halted
               /\ known[a] /\ ~Stopping(a) =>
                    /\ Ended => /\ process[a] \in Past
                                /\ \A i \in DOMAIN buffer'[a] : buffer'[a][i] = "agent_end"
                    /\ Halted => process[a] \in Past
               /\ process[a] \notin Past =>
                    \A i \in DOMAIN buffer'[a] : buffer'[a][i] # "agent_end"
    <3>1. CASE Created(a)
      BY <2>1, <2>7, <3>1 DEF Created, StreamOver, EndInv, AliveInv, DrainInv, Fed
    <3>2. CASE Consume(a)
      <4>1. buffer[a] # <<>> /\ buffer'[a] = Tail(buffer[a]) /\ consumer'[a] = "awake"
            /\ consumer[a] = "awake"
        BY <3>2 DEF Consume, Consuming
      <4>2. state'[a] = "stopped" => state[a] = "stopped" \/ Head(buffer[a]) = "agent_end"
        BY <3>2 DEF Consume, ConsumerState
      <4> QED BY <2>1, <2>7, <4>1, <4>2, Shortened DEF EndInv, AliveInv, DrainInv, Fed, Past
    <3>3. CASE ConsumeForgotten(a)
      <4>1. buffer[a] # <<>> /\ buffer'[a] = Tail(buffer[a]) /\ ~known[a]
        BY <3>3 DEF ConsumeForgotten
      <4> QED BY <2>1, <2>7, <4>1, Shortened DEF EndInv, AliveInv, DrainInv, Fed, Past
    <3>4. CASE StoreFails(a)
      <4>1. buffer[a] # <<>> /\ buffer'[a] = Tail(buffer[a])
            /\ consumer'[a] \in {"failing", "failed"}
        BY <3>4 DEF StoreFails
      <4> QED BY <2>1, <2>7, <4>1, Shortened DEF EndInv, AliveInv, DrainInv, Fed, Past
    <3>5. CASE ConsumerRests(a)
      <4>1. /\ buffer[a] = <<>> /\ buffer' = buffer /\ state' = state
            /\ consumer[a] = "awake"
            /\ consumer'[a] = IF state[a] = "stopped" THEN StreamOver(a) ELSE "asleep"
        BY <3>5 DEF ConsumerRests, Consuming
      <4> QED BY <2>1, <2>7, <4>1 DEF EndInv, AliveInv, DrainInv, Fed, StreamOver
    <3> QED BY <3>1, <3>2, <3>3, <3>4, <3>5
  <2> HIDE DEF Ended, Halted
  <2>8. AliveInv(a)'
    BY <2>1, <2>2, <2>3, <2>7 DEF EndInv, AliveInv, Fed, Ended, Halted
  <2>9. DrainInv(a)'
    BY <2>1, <2>2, <2>7 DEF EndInv, DrainInv, Ended, Halted
  <2> QED BY <2>5, <2>6, <2>8, <2>9 DEF EndInv
<1> QED BY <1>1, <1>2

LEMMA EndCloses ==
  ASSUME SessionTypeOK, NEW a \in Session, \A b \in Session : EndInv(b), ConsumerCloses(a)
  PROVE  \A b \in Session : EndInv(b)'
<1> USE DEF SessionTypeOK
<1>1. ASSUME NEW b \in Session, b # a PROVE EndInv(b)'
  BY <1>1, OtherSession DEF ConsumerCloses
<1>2. EndInv(a)'
  <2> EndInv(a)  OBVIOUS
  <2>1. /\ UNCHANGED <<backend, process, tracked, state, buffer, known, stopper>>
        /\ consumer[a] \in {"closing", "failing"} /\ attached'[a] = FALSE
        /\ consumer'[a] = IF consumer[a] = "closing" THEN "over" ELSE "failed"
    BY DEF ConsumerCloses
  <2>2. (Stopping(a)' <=> Stopping(a)) /\ (Claude(a)' <=> Claude(a))
    BY <2>1 DEF Stopping, Claude
  <2>3. seen[a] \in Seen /\ seen'[a].stopped = seen[a].stopped + 1
    <3>1. seen[a] \in Seen  OBVIOUS
    <3> QED BY <3>1 DEF ConsumerCloses, Seen
  <2>4. FreshInv(a)'  BY <2>1 DEF EndInv, FreshInv
  <2>5. CloseInv(a)'  BY <2>1, <2>3 DEF EndInv, CloseInv, Seen
  <2>6. AliveInv(a)'  BY <2>1, <2>2 DEF EndInv, AliveInv
  <2>7. DrainInv(a)'  BY <2>1, <2>2 DEF EndInv, DrainInv, Fed
  <2> QED BY <2>4, <2>5, <2>6, <2>7 DEF EndInv
<1> QED BY <1>1, <1>2

(* Whom a caller stops has a process, and is one of the sessions.          *)
LEMMA StopsOne ==
  ASSUME SessionTypeOK, \A b \in Session : EndInv(b), NEW c \in Caller,
         NEW a \in Session, stopper[c].of = a
  PROVE  Stopping(a) /\ process[a] # "none"
<1>1. Stopping(a)  BY DEF Stopping
<1> QED BY <1>1 DEF EndInv, FreshInv

LEMMA EndStops ==
  ASSUME SessionTypeOK, NEW c \in Caller, NEW a \in Session, \A b \in Session : EndInv(b),
         StopSession(c, a)
  PROVE  \A b \in Session : EndInv(b)'
<1> USE DEF SessionTypeOK
<1>0. /\ stopper[c].of = NoSession /\ process[a] # "none" /\ known[a]
      /\ stopper'[c].of = a /\ (\A d \in Caller \ {c} : stopper'[d] = stopper[d])
      /\ UNCHANGED <<backend, tracked, buffer, consumer, seen, known, attached>>
  BY DEF StopSession, MarkStopped, Idle
<1>1. ASSUME NEW b \in Session, b # a PROVE EndInv(b)'
  <2>1. process'[b] = process[b] /\ state'[b] = state[b]
    BY <1>1 DEF StopSession
  <2> QED BY <1>0, <1>1, <2>1, SessionAssumption, OtherSession
<1>2. EndInv(a)'
  <2> EndInv(a)  OBVIOUS
  <2>1. Stopping(a)' /\ (Claude(a)' <=> Claude(a))
    BY <1>0 DEF Stopping, Claude
  <2>2. /\ process'[a] = process[a] \/ (process[a] = "alive" /\ process'[a] = "killed")
        /\ stopper'[c].at = "killing" => process'[a] # "alive"
        /\ stopper'[c].at \in {"killing", "persisting"}
        /\ process'[a] = "alive" => ~(attached[a] /\ tracked[a])
    BY <1>0 DEF StopSession, MarkStopped
  <2>3. FreshInv(a)'  BY <1>0, <2>2 DEF EndInv, FreshInv
  <2>4. CloseInv(a)'  BY <1>0 DEF EndInv, CloseInv
  <2>5. AliveInv(a)'
    <3>1. process'[a] = "alive" => consumer[a] \in {"over", "failed"} /\ process[a] = "alive"
      BY <1>0, <2>2 DEF EndInv, CloseInv, AliveInv
    <3>2. \A d \in Caller : stopper'[d].of = a /\ stopper'[d].at \in {"killing", "killed"}
            => process'[a] # "alive"
      BY <1>0, <2>2 DEF EndInv, AliveInv
    <3> QED BY <1>0, <2>1, <2>2, <3>1, <3>2 DEF EndInv, AliveInv
  <2>6. DrainInv(a)'  BY <1>0, <2>1, <2>2 DEF EndInv, DrainInv, Past
  <2> QED BY <2>3, <2>4, <2>5, <2>6 DEF EndInv
<1> QED BY <1>1, <1>2

LEMMA EndStopTimeout ==
  ASSUME SessionTypeOK, NEW c \in Caller, \A b \in Session : EndInv(b), StopTimeout(c)
  PROVE  \A b \in Session : EndInv(b)'
<1> USE DEF SessionTypeOK
<1> SUFFICES ASSUME NEW a \in Session PROVE EndInv(a)'
  OBVIOUS
<1> EndInv(a)  OBVIOUS
<1>1. /\ UNCHANGED <<backend, process, tracked, state, buffer, known, attached, consumer, seen>>
      /\ \A d \in Caller : stopper'[d].of = stopper[d].of
      /\ \A d \in Caller : stopper'[d].at \in {"killing", "killed"}
            => stopper[d].at \in {"killing", "killed"}
  BY DEF StopTimeout, Stopper
<1>2. (Stopping(a)' <=> Stopping(a)) /\ (Claude(a)' <=> Claude(a))
  BY <1>1 DEF Stopping, Claude
<1>3. FreshInv(a)'  BY <1>1, <1>2 DEF EndInv, FreshInv
<1>4. CloseInv(a)'  BY <1>1 DEF EndInv, CloseInv
<1>5. AliveInv(a)'  BY <1>1, <1>2 DEF EndInv, AliveInv
<1>6. DrainInv(a)'  BY <1>1, <1>2 DEF EndInv, DrainInv
<1> QED BY <1>3, <1>4, <1>5, <1>6 DEF EndInv

LEMMA EndKilled ==
  ASSUME SessionTypeOK, NEW c \in Caller, \A b \in Session : EndInv(b), Killed(c),
         stopper[c].of \in Session
  PROVE  \A b \in Session : EndInv(b)'
<1> USE DEF SessionTypeOK
<1>0. PICK a \in Session : a = stopper[c].of  OBVIOUS
<1>1. /\ state' = [state EXCEPT ![a] = "stopped"] /\ tracked' = [tracked EXCEPT ![a] = FALSE]
      /\ MarkStopped(c, a) /\ stopper[c].at = "killed"
      /\ UNCHANGED <<backend, process, buffer, consumer, seen>>
  BY <1>0 DEF Killed
<1>2. ASSUME NEW b \in Session, b # a PROVE EndInv(b)'
  <2>1. /\ \A d \in Caller : stopper'[d].of = b \/ stopper[d].of = b => stopper'[d] = stopper[d]
        /\ known'[b] = known[b] /\ attached'[b] = attached[b]
    BY <1>0, <1>1, <1>2, SessionAssumption DEF MarkStopped, Idle
  <2>2. state'[b] = state[b] /\ tracked'[b] = tracked[b]
    BY <1>1, <1>2
  <2> QED BY <1>1, <1>2, <2>1, <2>2, OtherSession
<1>3. EndInv(a)'
  <2> EndInv(a)  OBVIOUS
  <2>1. process[a] \notin {"none", "alive"}
    BY <1>0, <1>1, StopsOne DEF EndInv, AliveInv
  <2>2. known'[a] => known[a] /\ attached'[a] = attached[a] /\ Stopping(a)'
    BY <1>1 DEF MarkStopped, Stopping
  <2>3. FreshInv(a)'  BY <1>1, <2>1 DEF EndInv, FreshInv
  <2>4. CloseInv(a)'  BY <1>1, <2>2 DEF EndInv, CloseInv
  <2>5. AliveInv(a)'  BY <1>1, <2>1 DEF EndInv, AliveInv
  <2>6. DrainInv(a)'  BY <1>1, <2>2 DEF EndInv, DrainInv, Claude
  <2> QED BY <2>3, <2>4, <2>5, <2>6 DEF EndInv
<1> QED BY <1>2, <1>3

LEMMA EndPersisted ==
  ASSUME SessionTypeOK, NEW c \in Caller, \A b \in Session : EndInv(b), StopPersisted(c),
         stopper[c].of \in Session
  PROVE  \A b \in Session : EndInv(b)'
<1> USE DEF SessionTypeOK
<1>0. PICK a \in Session : a = stopper[c].of  OBVIOUS
<1>1. /\ seen' = [seen EXCEPT ![a].stopped = @ + 1] /\ known' = [known EXCEPT ![a] = FALSE]
      /\ attached' = [attached EXCEPT ![a] = FALSE] /\ stopper' = [stopper EXCEPT ![c] = Idle]
      /\ UNCHANGED <<backend, process, tracked, state, buffer, consumer>>
  BY <1>0 DEF StopPersisted
<1>2. ASSUME NEW b \in Session, b # a PROVE EndInv(b)'
  <2>1. \A d \in Caller : stopper'[d].of = b \/ stopper[d].of = b => stopper'[d] = stopper[d]
    BY <1>0, <1>1, <1>2, SessionAssumption DEF Idle
  <2>2. known'[b] = known[b] /\ attached'[b] = attached[b] /\ seen'[b] = seen[b]
    BY <1>1, <1>2
  <2> QED BY <1>1, <1>2, <2>1, <2>2, OtherSession
<1>3. EndInv(a)'
  <2> EndInv(a)  OBVIOUS
  <2>1. Stopping(a) /\ process[a] # "none"
    BY <1>0, StopsOne
  <2>2. Claude(a) /\ process[a] = "alive" => consumer[a] = "failed"
    BY <2>1 DEF EndInv, AliveInv
  <2>3. seen'[a].created = seen[a].created /\ known'[a] = FALSE
    <3>1. seen[a] \in Seen  OBVIOUS
    <3> QED BY <1>1, <3>1 DEF Seen
  <2>4. \A d \in Caller : stopper'[d].of = a => stopper'[d] = stopper[d]
    BY <1>1, SessionAssumption DEF Idle
  <2>5. FreshInv(a)'  BY <1>1, <2>1, <2>3 DEF EndInv, FreshInv
  <2>6. CloseInv(a)'  BY <2>3 DEF CloseInv
  <2>7. AliveInv(a)'  BY <1>1, <2>2, <2>4 DEF EndInv, AliveInv, Claude
  <2>8. DrainInv(a)'  BY <1>1, <2>3 DEF EndInv, DrainInv, Claude
  <2> QED BY <2>5, <2>6, <2>7, <2>8 DEF EndInv
<1> QED BY <1>2, <1>3

(* Who stops a session has one in mind.                                    *)
StopInv == \A c \in Caller : stopper[c].at # "idle" => stopper[c].of \in Session

LEMMA StopInvStep ==
  ASSUME SessionTypeOK, StopInv, [SessionNext]_sessionVars
  PROVE  StopInv'
<1> USE DEF SessionTypeOK, StopInv
<1>1. ASSUME NEW c \in Caller
      PROVE  stopper'[c].at # "idle" => stopper'[c].of \in Session
  <2>0. \A d \in Caller : stopper[d] \in Stopper  OBVIOUS
  <2>1. ASSUME NEW a \in Session,
               \/ StartSession(a) \/ Exit(a) \/ Drained(a) \/ SafetyTimeout(a)
               \/ PromptSession(a) \/ Created(a) \/ Consume(a) \/ ConsumeForgotten(a)
               \/ StoreFails(a) \/ ConsumerRests(a) \/ ConsumerCloses(a)
               \/ \E e \in Event, more \in BOOLEAN : ReadOutput(a, e, more)
        PROVE  stopper'[c].at # "idle" => stopper'[c].of \in Session
    <3>1. UNCHANGED stopper \/ Released(a)
      BY <2>1 DEF StartSession, Exit, Drained, SafetyTimeout, PromptSession, Created, Consume,
                  ConsumeForgotten, StoreFails, ConsumerRests, ConsumerCloses, ReadOutput
    <3>2. [stopper[c] EXCEPT !.at = "killed"].of = stopper[c].of
      BY <2>0 DEF Stopper
    <3>3. CASE Released(a)
      <4>1. \/ stopper'[c] = stopper[c]
            \/ /\ stopper'[c] = [stopper[c] EXCEPT !.at = "killed"]
               /\ stopper[c].at = "killing"
        BY <3>3 DEF Released
      <4> QED BY <3>2, <4>1
    <3> QED BY <3>1, <3>3
  <2>2. ASSUME NEW d \in Caller, NEW a \in Session, StopSession(d, a)
        PROVE  stopper'[c].at # "idle" => stopper'[c].of \in Session
    <3>1. \/ stopper'[c] = stopper[c] \/ stopper'[c] = Idle
          \/ stopper'[c].of = a
      BY <2>2 DEF StopSession, MarkStopped
    <3> QED BY <3>1 DEF Idle
  <2>3. ASSUME NEW d \in Caller, StopTimeout(d)
        PROVE  stopper'[c].at # "idle" => stopper'[c].of \in Session
    <3>1. [stopper[c] EXCEPT !.at = "killed"].of = stopper[c].of
      BY <2>0 DEF Stopper
    <3>2. \/ stopper'[c] = stopper[c]
          \/ /\ stopper'[c] = [stopper[c] EXCEPT !.at = "killed"]
             /\ stopper[c].at = "killing"
      BY <2>3 DEF StopTimeout
    <3> QED BY <3>1, <3>2
  <2>5. ASSUME NEW d \in Caller, Killed(d) \/ StopPersisted(d)
        PROVE  stopper'[c].at # "idle" => stopper'[c].of \in Session
    <3>1. \/ stopper'[c] = stopper[c] \/ stopper'[c] = Idle
          \/ stopper'[c].of = stopper[d].of /\ stopper[d].at = "killed"
      BY <2>5 DEF Killed, MarkStopped, StopPersisted
    <3> QED BY <3>1 DEF Idle
  <2>4. CASE UNCHANGED sessionVars
    BY <2>4 DEF sessionVars
  <2> QED BY <2>1, <2>2, <2>3, <2>4, <2>5 DEF SessionNext
<1> QED BY <1>1

LEMMA EndStep ==
  ASSUME SessionTypeOK, StopInv, \A a \in Session : EndInv(a), [SessionNext]_sessionVars
  PROVE  \A a \in Session : EndInv(a)'
<1>1. ASSUME NEW a \in Session,
             \/ StartSession(a) \/ Exit(a) \/ Drained(a) \/ SafetyTimeout(a)
             \/ PromptSession(a) \/ Created(a) \/ Consume(a) \/ ConsumeForgotten(a)
             \/ StoreFails(a) \/ ConsumerRests(a) \/ ConsumerCloses(a)
             \/ \E e \in Event, more \in BOOLEAN : ReadOutput(a, e, more)
      PROVE  \A b \in Session : EndInv(b)'
  BY <1>1, EndStart, EndExit, EndPrompt, EndConsumes, EndCloses, EndReads
<1>2. ASSUME NEW c \in Caller, NEW a \in Session, StopSession(c, a)
      PROVE  \A b \in Session : EndInv(b)'
  BY <1>2, EndStops
<1>3. ASSUME NEW c \in Caller, StopTimeout(c)
      PROVE  \A b \in Session : EndInv(b)'
  BY <1>3, EndStopTimeout
<1>4. ASSUME NEW c \in Caller, Killed(c) \/ StopPersisted(c)
      PROVE  \A b \in Session : EndInv(b)'
  <2>1. stopper[c].of \in Session
    BY <1>4 DEF StopInv, Killed, StopPersisted
  <2> QED BY <1>4, <2>1, EndKilled, EndPersisted
<1>5. CASE UNCHANGED sessionVars
  BY <1>5, OtherSession DEF sessionVars
<1> QED BY <1>1, <1>2, <1>3, <1>4, <1>5 DEF SessionNext

(* The inductive invariant.                                                *)
SessionInv == HeardTypeOK /\ StopInv /\ \A a \in Session : EndInv(a)

LEMMA SessionInvariant == Spec => []SessionInv
<1>1. Init => StopInv /\ \A a \in Session : EndInv(a)
  <2> SUFFICES ASSUME SessionInit PROVE StopInv /\ \A a \in Session : EndInv(a)
    BY DEF Init
  <2>1. \A c \in Caller : stopper[c].at = "idle" /\ stopper[c].of \notin Session
    BY SessionAssumption DEF SessionInit, Idle
  <2>2. ASSUME NEW a \in Session PROVE EndInv(a)
    <3>1. ~Stopping(a)  BY <2>1 DEF Stopping
    <3>2. /\ process[a] = "none" /\ consumer[a] = "none" /\ seen[a] = Unseen
          /\ ~known[a] /\ buffer[a] = <<>> /\ state[a] = "streaming"
      BY DEF SessionInit
    <3> QED BY <2>1, <3>1, <3>2
        DEF EndInv, FreshInv, CloseInv, AliveInv, DrainInv, Fed, Unseen
  <2> QED BY <2>1, <2>2 DEF StopInv
<1>2. HeardTypeOK /\ StopInv /\ (\A a \in Session : EndInv(a)) /\ [Next]_vars
        => (StopInv /\ \A a \in Session : EndInv(a))'
  <2> SUFFICES ASSUME HeardTypeOK, StopInv, \A a \in Session : EndInv(a), [Next]_vars
               PROVE  StopInv' /\ \A a \in Session : EndInv(a)'
    OBVIOUS
  <2>1. [SessionNext]_sessionVars  BY DEF Next, vars
  <2>2. SessionTypeOK  BY DEF HeardTypeOK
  <2> QED BY <2>1, <2>2, StopInvStep, EndStep
<1> QED BY <1>1, <1>2, HeardTypeCorrect, PTL DEF Spec, SessionInv

(* Listeners may rely on the end of a session: stopped means that the      *)
(* process is over, what it printed has been consumed before, and the end  *)
(* is told once (startSession(), stopSession() of session-manager.ts and   *)
(* the close handlers of the adapters).                                    *)
THEOREM SessionsEndRightly == Spec => []EndsRightly
<1>1. SessionInv => EndsRightly
  BY EndInvGives DEF SessionInv, HeardTypeOK
<1> QED BY <1>1, SessionInvariant, PTL

(* Nobody who has been told that a session is stopped is told another      *)
(* state of it afterwards (the consumer in session-manager.ts).            *)
THEOREM QuietAfterStopped == Spec => NothingAfterStopped
<1>1. SessionInv /\ [Next]_vars =>
        [\A a \in Session : seen[a].created /\ seen[a].stopped > 0
                              => seen'[a].status = seen[a].status]_sessionVars
  <2> SUFFICES ASSUME SessionInv, SessionNext, NEW a \in Session,
                      seen[a].created, seen[a].stopped > 0
               PROVE  seen'[a].status = seen[a].status
    BY DEF Next, vars
  <2> USE DEF SessionTypeOK
  <2>1. SessionTypeOK /\ EndInv(a) /\ seen[a] \in Seen
    BY DEF SessionInv, HeardTypeOK
  <2>2. known[a] => consumer[a] \in {"over", "failed"}
    BY <2>1 DEF EndInv, CloseInv, Seen
  <2>3. consumer[a] # "starting"
    BY <2>1 DEF EndInv, FreshInv
  <2>4. ASSUME NEW b \in Session,
               \/ StartSession(b) \/ Exit(b) \/ Drained(b) \/ SafetyTimeout(b)
               \/ PromptSession(b) \/ ConsumeForgotten(b) \/ ConsumerRests(b)
               \/ \E e \in Event, more \in BOOLEAN : ReadOutput(b, e, more)
        PROVE  seen'[a].status = seen[a].status
    BY <2>4 DEF StartSession, Exit, Drained, SafetyTimeout, PromptSession,
                ConsumeForgotten, ConsumerRests, ReadOutput
  <2>5. ASSUME NEW b \in Session, Created(b) \/ Consume(b) \/ StoreFails(b)
        PROVE  seen'[a].status = seen[a].status
    <3>1. b # a
      BY <2>2, <2>3, <2>5 DEF Created, Consume, StoreFails, Consuming
    <3> QED BY <2>1, <2>5, <3>1 DEF Created, Consume, StoreFails, Announce
  <2>6. ASSUME NEW b \in Session, ConsumerCloses(b)
        PROVE  seen'[a].status = seen[a].status
    BY <2>1, <2>6 DEF ConsumerCloses, Seen
  <2>7. ASSUME NEW c \in Caller, NEW b \in Session, StopSession(c, b)
        PROVE  seen'[a].status = seen[a].status
    BY <2>7 DEF StopSession
  <2>8. ASSUME NEW c \in Caller, StopTimeout(c) \/ Killed(c)
        PROVE  seen'[a].status = seen[a].status
    BY <2>8 DEF StopTimeout, Killed
  <2>9. ASSUME NEW c \in Caller, StopPersisted(c)
        PROVE  seen'[a].status = seen[a].status
    BY <2>1, <2>9 DEF StopPersisted, Seen
  <2> QED BY <2>4, <2>5, <2>6, <2>7, <2>8, <2>9 DEF SessionNext
<1> QED BY <1>1, SessionInvariant, PTL DEF Spec, NothingAfterStopped

=============================================================================
