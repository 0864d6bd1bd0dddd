------------------------------ MODULE Station ------------------------------
(***************************************************************************)
(* How the station wires sessions to the message router                    *)
(* (server/station.ts): a change of a session's state that the             *)
(* SessionManager announces is all that the router hears of the agent.     *)
(* The router's agents are the sessions: Agent = Session.                  *)
(***************************************************************************)
EXTENDS AgentSession, MessageRouter

VARIABLE
  during        \* the messages that were sent while the agent had a turn

vars == <<sessionVars, routerVars, during>>

Init == SessionInit /\ RouterInit /\ during = {}

(* The listener of state_change, with what the consumer has announced.     *)
StateChange(a) ==
  IF /\ seen'[a].status # seen[a].status
     /\ seen'[a].status \in {"idle", "streaming"}
  THEN SetAgentState(a, seen'[a].status)
  ELSE UNCHANGED routerVars

Hears(a) == (Consume(a) \/ StoreFails(a)) /\ StateChange(a) /\ UNCHANGED during

(* The other steps of a session announce no change of its state.           *)
Unannounced(a) ==
  /\ \/ StartSession(a) \/ Exit(a) \/ Drained(a) \/ SafetyTimeout(a)
     \/ PromptSession(a) \/ Created(a) \/ ConsumeForgotten(a)
     \/ ConsumerRests(a) \/ ConsumerCloses(a)
     \/ \E e \in Event, more \in BOOLEAN : ReadOutput(a, e, more)
  /\ UNCHANGED <<routerVars, during>>

Stopping(c) ==
  /\ \/ \E a \in Session : StopSession(c, a)
     \/ StopTimeout(c) \/ Killed(c) \/ StopPersisted(c)
  /\ UNCHANGED <<routerVars, during>>

(* A turn of an agent that listeners know of is under way.                 *)
Busy(a) ==
  seen[a].created /\ process[a] = "alive" /\ state[a] = "streaming"

Routing ==
  /\ Settled
  /\ RouterCalls
  /\ during' = IF Len(log') > Len(log) /\ Busy(log'[Len(log')].to)
               THEN during \cup {Len(log')} ELSE during
  /\ UNCHANGED sessionVars

Next ==
  \/ \E a \in Session : Hears(a) \/ Unannounced(a)
  \/ \E c \in Caller : Stopping(c)
  \/ Routing

Spec == Init /\ [][Next]_vars

(* What is queued during a turn is delivered when the turn is over: once   *)
(* the consumer has caught up with an agent that is idle, nothing of it is *)
(* left.                                                                   *)
TurnEndDelivers ==
  \A a \in Session :
    Settled /\ consumer[a] = "asleep" /\ state[a] = "idle"
      => \A i \in DOMAIN queue[a] : queue[a][i] \notin during

=============================================================================
