--------------------------- MODULE MessageRouter ----------------------------
(***************************************************************************)
(* Messages between agents (agents/message-router.ts): a message is        *)
(* delivered at once or queued, depending on its delivery mode and on what *)
(* the router knows of the agent's state.                                  *)
(*                                                                         *)
(* Every method runs to its end without an await.  A message is its place  *)
(* in the log.                                                             *)
(***************************************************************************)
EXTENDS Naturals, Sequences

CONSTANTS
  Agent,        \* the agents
  Subscriber,   \* the iterators that subscribe() may return
  MaxMessages,  \* bound: length of the log
  MaxTurns      \* bound: turns of each agent

ASSUME RouterAssumption == MaxMessages \in Nat /\ MaxTurns \in Nat

Delivery  == {"prompt", "followUp", "steer"}
MessageId == 1..MaxMessages

(* turn: how many turns of the agent the router had seen the end of.       *)
Message == [to: Agent, delivery: Delivery, delivered: BOOLEAN, turn: Nat]

VARIABLES
  log,          \* all messages
  queue,        \* the queue of each agent
  agentState,   \* agentStates, "unknown" without an entry
  handlers,     \* subscribers: the handlers of each agent
  received,     \* what each iterator has been given so far
  turn          \* turns of each agent that have ended, as the router saw it

routerVars == <<log, queue, agentState, handlers, received, turn>>

RouterTypeOK ==
  /\ log \in Seq(Message) /\ Len(log) <= MaxMessages
  /\ queue \in [Agent -> Seq(MessageId)]
  /\ agentState \in [Agent -> {"unknown", "idle", "streaming"}]
  /\ handlers \in [Agent -> SUBSET Subscriber]
  /\ received \in [Subscriber -> Seq(MessageId)]
  /\ turn \in [Agent -> Nat]

RouterInit ==
  /\ log = <<>>
  /\ queue = [a \in Agent |-> <<>>]
  /\ agentState = [a \in Agent |-> "unknown"]
  /\ handlers = [a \in Agent |-> {}]
  /\ received = [s \in Subscriber |-> <<>>]
  /\ turn = [a \in Agent |-> 0]

Streaming(a) == agentState[a] = "streaming"

AtOnce(a, d) == (d = "prompt" /\ ~Streaming(a)) \/ (d = "steer" /\ Streaming(a))

(* The handlers of an agent get messages, in this order.                   *)
Deliver(a, msgs) ==
  received' = [s \in Subscriber |->
                 IF s \in handlers[a] THEN received[s] \o msgs ELSE received[s]]

(* send(), by whomever.                                                    *)
Send(a, d) ==
  /\ Len(log) < MaxMessages
  /\ log' = Append(log, [to |-> a, delivery |-> d, delivered |-> AtOnce(a, d),
                         turn |-> turn[a]])
  /\ IF AtOnce(a, d)
     THEN Deliver(a, <<Len(log) + 1>>) /\ UNCHANGED queue
     ELSE /\ queue' = [queue EXCEPT ![a] = Append(@, Len(log) + 1)]
          /\ UNCHANGED received
  /\ UNCHANGED <<agentState, handlers, turn>>

(* mutant of SetAgentState: the end of a turn delivers one message.        *)
SetAgentStateDeliversOne(a, s) ==
  LET turnEnds == s = "idle" /\ Streaming(a) IN
  /\ turnEnds => turn[a] < MaxTurns
  /\ agentState' = [agentState EXCEPT ![a] = s]
  /\ IF turnEnds /\ queue[a] # <<>>
     THEN /\ turn' = [turn EXCEPT ![a] = @ + 1]
          /\ log' = [log EXCEPT ![Head(queue[a])].delivered = TRUE]
          /\ Deliver(a, <<Head(queue[a])>>)
          /\ queue' = [queue EXCEPT ![a] = Tail(@)]
     ELSE UNCHANGED <<turn, log, queue, received>>
  /\ UNCHANGED handlers

(* setAgentState(): the end of a turn delivers the queue.                  *)
SetAgentState(a, s) ==
  LET turnEnds == s = "idle" /\ Streaming(a) IN
  /\ turnEnds => turn[a] < MaxTurns
  /\ agentState' = [agentState EXCEPT ![a] = s]
  /\ IF turnEnds
     THEN /\ turn' = [turn EXCEPT ![a] = @ + 1]
          /\ log' = [m \in DOMAIN log |->
                       IF \E i \in DOMAIN queue[a] : queue[a][i] = m
                       THEN [log[m] EXCEPT !.delivered = TRUE] ELSE log[m]]
          /\ Deliver(a, queue[a])
          /\ queue' = [queue EXCEPT ![a] = <<>>]
     ELSE UNCHANGED <<turn, log, queue, received>>
  /\ UNCHANGED handlers

(* subscribe(), for an iterator that nobody has yet.                       *)
Subscribe(a, s) ==
  /\ \A b \in Agent : s \notin handlers[b]
  /\ received[s] = <<>>
  /\ handlers' = [handlers EXCEPT ![a] = @ \cup {s}]
  /\ UNCHANGED <<log, queue, agentState, received, turn>>

(* return() of an iterator: its handler is taken out.                      *)
ReturnIterator(a, s) ==
  /\ s \in handlers[a]
  /\ handlers' = [handlers EXCEPT ![a] = @ \ {s}]
  /\ UNCHANGED <<log, queue, agentState, received, turn>>

(* clearAgent(): what is queued is lost, subscribers hear nothing more.    *)
ClearAgent(a) ==
  /\ queue' = [queue EXCEPT ![a] = <<>>]
  /\ handlers' = [handlers EXCEPT ![a] = {}]
  /\ agentState' = [agentState EXCEPT ![a] = "unknown"]
  /\ UNCHANGED <<log, received, turn>>

(* What others do to the router; the agents' states come from elsewhere.   *)
RouterCalls ==
  \E a \in Agent :
    \/ \E d \in Delivery : Send(a, d)
    \/ \E s \in Subscriber : Subscribe(a, s) \/ ReturnIterator(a, s)
    \/ ClearAgent(a)

RouterNext ==
  \/ RouterCalls
  \/ \E a \in Agent, s \in {"idle", "streaming"} : SetAgentState(a, s)

RouterSpec == RouterInit /\ [][RouterNext]_routerVars

-----------------------------------------------------------------------------
(* Properties.                                                             *)

(* A queued message is in the queue of its agent once, in the order in     *)
(* which it was sent, and has been delivered to nobody.                    *)
QueuedInOrder ==
  \A a \in Agent : \A i \in DOMAIN queue[a] :
    /\ queue[a][i] \in DOMAIN log
    /\ log[queue[a][i]].to = a
    /\ ~log[queue[a][i]].delivered
    /\ \A j \in DOMAIN queue[a] : i < j => queue[a][i] < queue[a][j]

(* Whatever else is sent meanwhile, each iterator is given messages at     *)
(* most once, and the follow-ups in the order in which they were sent.     *)
FollowUpsInOrder ==
  \A s \in Subscriber : \A i, j \in DOMAIN received[s] :
    i < j => /\ received[s][i] # received[s][j]
             /\ received[s][i] \in DOMAIN log /\ received[s][j] \in DOMAIN log
             /\ (/\ log[received[s][i]].delivery = "followUp"
                 /\ log[received[s][j]].delivery = "followUp")
                  => received[s][i] < received[s][j]

(* No message survives the end of a turn in the queue.                     *)
NoneSurvivesTurn ==
  \A a \in Agent : \A i \in DOMAIN queue[a] :
    queue[a][i] \in DOMAIN log => log[queue[a][i]].turn = turn[a]

(* What the router promises about each message.                            *)
Routed == QueuedInOrder /\ FollowUpsInOrder /\ NoneSurvivesTurn

=============================================================================
