---------------------------- MODULE AgentSession ----------------------------
(***************************************************************************)
(* A session of a coding agent: the process, the adapter that reads what   *)
(* it prints (agents/claude-code.ts, opencode.ts), and the SessionManager  *)
(* that consumes the adapter's events and stops sessions                   *)
(* (agents/session-manager.ts).                                            *)
(*                                                                         *)
(* The adapter and the SessionManager write to the same session object:    *)
(* the adapter when it reads an event, the SessionManager when its         *)
(* consumer gets to it.  Output, exits, timers and file writes are I/O;    *)
(* the consumer and the tail of a stop run in microtasks, so they go on    *)
(* before the next I/O (Settled), but not between two events of one piece  *)
(* of output (reading).                                                    *)
(***************************************************************************)
EXTENDS Naturals, Sequences

CONSTANTS
  Session,        \* the sessions
  NoSession,      \* not a session
  Backend,      \* the backends in use
  Caller,       \* those who call stopSession()
  StoreFaults,  \* the events that the event store may refuse
  MaxEvents     \* bound: events that an agent prints

BackendType == {"claude-code", "opencode"}
Printed     == {"agent_start", "message_start", "progress", "message_end",
                "turn_end", "error"}
Event       == Printed \cup {"agent_end"}

ASSUME SessionAssumption ==
  /\ NoSession \notin Session
  /\ Backend \subseteq BackendType
  /\ StoreFaults \subseteq Event
  /\ MaxEvents \in Nat

AgentState   == {"streaming", "idle", "error", "stopped"}
ProcessState == {"none", "alive", "killed", "draining", "lingering", "gone"}
ConsumerAt   == {"none", "starting", "awake", "asleep", "closing", "failing",
                 "over", "failed"}

(* process: killed is signalled and not closed; draining is closed with    *)
(* lines still to be read; lingering has the safety timeout still to come. *)
(* tracked, known, attached: the entries in the adapter's processes and in *)
(* the SessionManager's sessions and adapters.  seen: what listeners of    *)
(* the SessionManager have been told.                                      *)
VARIABLES
  backend, process, tracked, state, buffer, printed,
  known, attached, consumer, stopper, reading, seen

sessionVars == <<backend, process, tracked, state, buffer, printed,
                 known, attached, consumer, stopper, reading, seen>>

Stopper == [at: {"idle", "killing", "killed", "persisting"},
            of: Session \cup {NoSession}]
Idle    == [at |-> "idle", of |-> NoSession]

Seen    == [created: BOOLEAN, status: AgentState \cup {"none"}, stopped: Nat]
Unseen  == [created |-> FALSE, status |-> "none", stopped |-> 0]

SessionTypeOK ==
  /\ backend \in [Session -> BackendType]
  /\ process \in [Session -> ProcessState]
  /\ tracked \in [Session -> BOOLEAN]
  /\ state \in [Session -> AgentState]
  /\ buffer \in [Session -> Seq(Event)]
  /\ printed \in [Session -> 0..MaxEvents]
  /\ known \in [Session -> BOOLEAN]
  /\ attached \in [Session -> BOOLEAN]
  /\ consumer \in [Session -> ConsumerAt]
  /\ stopper \in [Caller -> Stopper]
  /\ reading \in Session \cup {NoSession}
  /\ seen \in [Session -> Seen]

SessionInit ==
  /\ backend \in [Session -> Backend]
  /\ process = [a \in Session |-> "none"]
  /\ tracked = [a \in Session |-> FALSE]
  /\ state = [a \in Session |-> "streaming"]
  /\ buffer = [a \in Session |-> <<>>]
  /\ printed = [a \in Session |-> 0]
  /\ known = [a \in Session |-> FALSE]
  /\ attached = [a \in Session |-> FALSE]
  /\ consumer = [a \in Session |-> "none"]
  /\ stopper = [c \in Caller |-> Idle]
  /\ reading = NoSession
  /\ seen = [a \in Session |-> Unseen]

(* No microtask is left: the next thing that happens is I/O.               *)
Settled ==
  /\ reading = NoSession
  /\ \A a \in Session : consumer[a] # "awake"
  /\ \A c \in Caller : stopper[c].at # "killed"

-----------------------------------------------------------------------------
(* The adapters.                                                           *)

(* What emitEvent() makes of the session's state.                          *)
AdapterState(b, e, s) ==
  CASE e = "message_start" -> "streaming"
    [] e = "progress" /\ b = "claude-code" -> "streaming"
    [] e = "turn_end" -> "idle"
    [] e = "message_end" /\ b = "opencode" -> "idle"
    [] e = "agent_end" /\ b = "claude-code" -> "idle"
    [] OTHER -> s

Woken(c) == IF c = "asleep" THEN "awake" ELSE c

(* mutant of Emit: the subscriber that waits for an event is not woken.    *)
EmitUnheard(a, e, s) ==
  IF tracked[a]
  THEN /\ buffer' = [buffer EXCEPT ![a] = Append(@, e)]
       /\ state' = [state EXCEPT ![a] = AdapterState(backend[a], e, s)]
       /\ UNCHANGED consumer
  ELSE UNCHANGED <<buffer, state, consumer>>

(* emitEvent(), for a session in state s: nothing without an entry.        *)
Emit(a, e, s) ==
  IF tracked[a]
  THEN /\ buffer' = [buffer EXCEPT ![a] = Append(@, e)]
       /\ state' = [state EXCEPT ![a] = AdapterState(backend[a], e, s)]
       /\ consumer' = [consumer EXCEPT ![a] = Woken(@)]
  ELSE UNCHANGED <<buffer, state, consumer>>

(* What the agents print.  The lines of a claude message become several    *)
(* events at once; claude-code announces no end of a turn; the sessions of *)
(* opencode may end while its server lives on.                             *)
Prints(b) ==
  IF b = "claude-code" THEN Printed \ {"turn_end"} ELSE Event

(* adapter.start() and the beginning of startSession().                    *)
StartSession(a) ==
  /\ Settled
  /\ process[a] = "none"
  /\ process' = [process EXCEPT ![a] = "alive"]
  /\ tracked' = [tracked EXCEPT ![a] = TRUE]
  /\ buffer' = [buffer EXCEPT ![a] = <<"agent_start">>]
  /\ known' = [known EXCEPT ![a] = TRUE]
  /\ attached' = [attached EXCEPT ![a] = TRUE]
  /\ consumer' = [consumer EXCEPT ![a] = "starting"]
  /\ UNCHANGED <<backend, state, printed, stopper, reading, seen>>

(* A line or a server-sent event is read; more follow in the same piece.   *)
ReadOutput(a, e, more) ==
  /\ reading = a \/ (reading = NoSession /\ Settled)
  /\ process[a] \in {"alive", "killed", "draining"}
  /\ printed[a] < MaxEvents
  /\ e \in Prints(backend[a])
  /\ (backend[a] = "claude-code" /\ e = "message_start") =>
        more /\ printed[a] + 1 < MaxEvents
  /\ printed' = [printed EXCEPT ![a] = @ + 1]
  /\ reading' = IF more /\ printed[a] + 1 < MaxEvents THEN a ELSE NoSession
  /\ Emit(a, e, state[a])
  /\ UNCHANGED <<backend, process, tracked, known, attached, stopper, seen>>

(* The process is over as far as a stop() of the adapter is concerned.     *)
Released(a) ==
  stopper' = [c \in Caller |->
                IF stopper[c].of = a /\ stopper[c].at = "killing"
                THEN [stopper[c] EXCEPT !.at = "killed"] ELSE stopper[c]]

EmitEnd(a) == Emit(a, "agent_end", "stopped")

(* mutant of Exit: agent_end does not wait for the lines that are left.    *)
ExitAtOnce(a) ==
  /\ Settled
  /\ process[a] \in {"alive", "killed"}
  /\ \/ process' = [process EXCEPT ![a] = "gone"]
     \/ /\ backend[a] = "claude-code"
        /\ process' = [process EXCEPT ![a] = "draining"]
  /\ EmitEnd(a)
  /\ Released(a)
  /\ UNCHANGED <<backend, tracked, printed, known, attached, reading, seen>>

(* The close event, with all lines read or (claude-code) some left.        *)
Exit(a) ==
  /\ Settled
  /\ process[a] \in {"alive", "killed"}
  /\ \/ /\ process' = [process EXCEPT ![a] = "gone"]
        /\ EmitEnd(a)
     \/ /\ backend[a] = "claude-code"
        /\ process' = [process EXCEPT ![a] = "draining"]
        /\ UNCHANGED <<buffer, state, consumer>>
  /\ Released(a)
  /\ UNCHANGED <<backend, tracked, printed, known, attached, reading, seen>>

(* The interval finds that the lines are read; the timeout stays armed.    *)
Drained(a) ==
  /\ Settled
  /\ process[a] = "draining"
  /\ process' = [process EXCEPT ![a] = "lingering"]
  /\ EmitEnd(a)
  /\ UNCHANGED <<backend, tracked, printed, known, attached, stopper, reading,
                 seen>>

(* The safety timeout, after a second, whether the lines are read or not.  *)
SafetyTimeout(a) ==
  /\ Settled
  /\ process[a] \in {"draining", "lingering"}
  /\ process' = [process EXCEPT ![a] = "gone"]
  /\ EmitEnd(a)
  /\ UNCHANGED <<backend, tracked, printed, known, attached, stopper, reading,
                 seen>>

(* prompt() of opencode; claude-code refuses, its input is closed.         *)
PromptSession(a) ==
  /\ Settled
  /\ backend[a] = "opencode" /\ process[a] = "alive"
  /\ tracked[a] /\ attached[a]
  /\ state' = [state EXCEPT ![a] = "streaming"]
  /\ UNCHANGED <<backend, process, tracked, buffer, printed, known, attached,
                 consumer, stopper, reading, seen>>

-----------------------------------------------------------------------------
(* The SessionManager.                                                     *)

(* Where a consumer goes when its stream ends by itself.                   *)
StreamOver(a) == IF known[a] /\ state[a] = "stopped" THEN "closing" ELSE "over"

(* startSession() has saved the session: session_created, then the         *)
(* consumer subscribes.                                                    *)
Created(a) ==
  /\ Settled
  /\ consumer[a] = "starting"
  /\ seen' = [seen EXCEPT ![a].created = TRUE, ![a].status = state[a]]
  /\ consumer' = [consumer EXCEPT
                    ![a] = IF tracked[a] THEN "awake" ELSE StreamOver(a)]
  /\ UNCHANGED <<backend, process, tracked, state, buffer, printed, known,
                 attached, stopper, reading>>

(* mutant of ConsumerState: what is no state of its own is one, too.       *)
ConsumerStateOrEvent(e, s) ==
  CASE e \in {"message_start", "progress"} -> "streaming"
    [] e = "turn_end" -> "idle"
    [] e = "agent_end" -> "stopped"
    [] OTHER -> e

ConsumerState(e, s) ==
  CASE e \in {"message_start", "progress"} -> "streaming"
    [] e = "turn_end" -> "idle"
    [] e = "error" -> "error"
    [] e = "agent_end" -> "stopped"
    [] OTHER -> s

(* state_change is announced only if the consumer changes the state.       *)
Announce(a, new) ==
  seen' = [seen EXCEPT ![a].status = IF state[a] # new THEN new ELSE @]

Consuming(a) == consumer[a] = "awake" /\ reading = NoSession

(* An event of a session that is not there any more ends the consumer.     *)
ConsumeForgotten(a) ==
  /\ Consuming(a) /\ buffer[a] # <<>> /\ ~known[a]
  /\ consumer' = [consumer EXCEPT ![a] = "over"]
  /\ buffer' = [buffer EXCEPT ![a] = Tail(@)]
  /\ UNCHANGED <<backend, process, tracked, state, printed, known, attached,
                 stopper, reading, seen>>

Consume(a) ==
  /\ Consuming(a) /\ buffer[a] # <<>> /\ known[a]
  /\ LET new == ConsumerState(Head(buffer[a]), state[a])
     IN  /\ state' = [state EXCEPT ![a] = new]
         /\ Announce(a, new)
  /\ buffer' = [buffer EXCEPT ![a] = Tail(@)]
  /\ UNCHANGED <<backend, process, tracked, printed, known, attached, consumer,
                 stopper, reading>>

(* insertEvent() throws: the catch branch takes the session for stopped.   *)
StoreFails(a) ==
  /\ Consuming(a) /\ buffer[a] # <<>> /\ known[a]
  /\ Head(buffer[a]) \in StoreFaults
  /\ LET new == ConsumerState(Head(buffer[a]), state[a])
     IN  /\ Announce(a, new)
         /\ consumer' = [consumer EXCEPT
                           ![a] = IF new = "stopped" THEN "failed" ELSE "failing"]
  /\ state' = [state EXCEPT ![a] = "stopped"]
  /\ buffer' = [buffer EXCEPT ![a] = Tail(@)]
  /\ UNCHANGED <<backend, process, tracked, printed, known, attached, stopper,
                 reading>>

(* Nothing to consume: the stream ends if the session is stopped.          *)
ConsumerRests(a) ==
  /\ Consuming(a) /\ buffer[a] = <<>>
  /\ consumer' = [consumer EXCEPT
                    ![a] = IF state[a] = "stopped" THEN StreamOver(a) ELSE "asleep"]
  /\ UNCHANGED <<backend, process, tracked, state, buffer, printed, known,
                 attached, stopper, reading, seen>>

(* mutant of ConsumerCloses: the consumer goes on after the end.           *)
ConsumerKeepsListening(a) ==
  /\ Settled
  /\ consumer[a] \in {"closing", "failing"}
  /\ seen' = [seen EXCEPT ![a].stopped = @ + 1]
  /\ attached' = [attached EXCEPT ![a] = FALSE]
  /\ consumer' = [consumer EXCEPT ![a] = "awake"]
  /\ UNCHANGED <<backend, process, tracked, state, buffer, printed, known,
                 stopper, reading>>

(* The end of the consumer has been saved: session_stopped.                *)
ConsumerCloses(a) ==
  /\ Settled
  /\ consumer[a] \in {"closing", "failing"}
  /\ seen' = [seen EXCEPT ![a].stopped = @ + 1]
  /\ attached' = [attached EXCEPT ![a] = FALSE]
  /\ consumer' = [consumer EXCEPT
                    ![a] = IF @ = "closing" THEN "over" ELSE "failed"]
  /\ UNCHANGED <<backend, process, tracked, state, buffer, printed, known,
                 stopper, reading>>

(* stopSession() after the adapter's stop().                               *)
MarkStopped(c, a) ==
  IF known[a]
  THEN /\ stopper' = [stopper EXCEPT ![c] = [at |-> "persisting", of |-> a]]
       /\ UNCHANGED <<known, attached>>
  ELSE /\ stopper' = [stopper EXCEPT ![c] = Idle]
       /\ known' = [known EXCEPT ![a] = FALSE]
       /\ attached' = [attached EXCEPT ![a] = FALSE]

StopSession(c, a) ==
  /\ Settled
  /\ stopper[c] = Idle
  /\ process[a] # "none" /\ known[a]
  /\ IF attached[a] /\ tracked[a]
     THEN /\ process' = [process EXCEPT
                           ![a] = IF @ = "alive" THEN "killed" ELSE @]
          /\ stopper' = [stopper EXCEPT ![c] = [at |-> "killing", of |-> a]]
          /\ UNCHANGED <<state, known, attached>>
     ELSE /\ state' = [state EXCEPT ![a] = "stopped"]
          /\ MarkStopped(c, a)
          /\ UNCHANGED process
  /\ UNCHANGED <<backend, tracked, buffer, printed, consumer, reading, seen>>

(* Five seconds without a close event: SIGKILL, and no more waiting.       *)
StopTimeout(c) ==
  /\ Settled
  /\ stopper[c].at = "killing"
  /\ stopper' = [stopper EXCEPT ![c].at = "killed"]
  /\ UNCHANGED <<backend, process, tracked, state, buffer, printed, known,
                 attached, consumer, reading, seen>>

Killed(c) ==
  LET a == stopper[c].of IN
  /\ stopper[c].at = "killed" /\ reading = NoSession
  /\ state' = [state EXCEPT ![a] = "stopped"]
  /\ tracked' = [tracked EXCEPT ![a] = FALSE]
  /\ MarkStopped(c, a)
  /\ UNCHANGED <<backend, process, buffer, printed, consumer, reading, seen>>

(* The stopped session has been saved: session_stopped.                    *)
StopPersisted(c) ==
  LET a == stopper[c].of IN
  /\ Settled
  /\ stopper[c].at = "persisting"
  /\ seen' = [seen EXCEPT ![a].stopped = @ + 1]
  /\ known' = [known EXCEPT ![a] = FALSE]
  /\ attached' = [attached EXCEPT ![a] = FALSE]
  /\ stopper' = [stopper EXCEPT ![c] = Idle]
  /\ UNCHANGED <<backend, process, tracked, state, buffer, printed, consumer,
                 reading>>

-----------------------------------------------------------------------------
(* Steps of the consumer and of the processes that are to end by           *)
(* themselves.                                                             *)
SessionProgress(a) ==
  \/ Created(a) \/ Consume(a) \/ ConsumeForgotten(a) \/ ConsumerRests(a)
  \/ ConsumerCloses(a) \/ Drained(a) \/ SafetyTimeout(a)
  \/ (process[a] = "killed" /\ Exit(a))

StopProgress(c) == StopTimeout(c) \/ Killed(c) \/ StopPersisted(c)

SessionNext ==
  \/ \E a \in Session :
       \/ StartSession(a) \/ Exit(a) \/ Drained(a) \/ SafetyTimeout(a)
       \/ PromptSession(a) \/ Created(a) \/ Consume(a) \/ ConsumeForgotten(a)
       \/ StoreFails(a) \/ ConsumerRests(a) \/ ConsumerCloses(a)
       \/ \E e \in Event, more \in BOOLEAN : ReadOutput(a, e, more)
  \/ \E c \in Caller :
       \/ \E a \in Session : StopSession(c, a)
       \/ StopTimeout(c) \/ Killed(c) \/ StopPersisted(c)

SessionSpec == SessionInit /\ [][SessionNext]_sessionVars

(* Microtasks run, files are written, timers fire, killed processes end.   *)
SessionFairness ==
  /\ \A a \in Session : WF_sessionVars(SessionProgress(a))
  /\ \A c \in Caller : WF_sessionVars(StopProgress(c))

-----------------------------------------------------------------------------
(* Properties.                                                             *)

(* A session of claude-code is announced as stopped only when its process  *)
(* is over or killed, unless the event store has failed.                   *)
StoppedIsOver ==
  \A a \in Session :
    backend[a] = "claude-code" /\ seen[a].stopped > 0 /\ process[a] = "alive"
      => consumer[a] = "failed"

(* agent_end comes last: a consumer that has ended without a stop has left *)
(* nothing of what claude-code printed.                                    *)
OutputComplete ==
  \A a \in Session :
    backend[a] = "claude-code" /\ consumer[a] = "over" /\ known[a] =>
      \/ \E c \in Caller : stopper[c].of = a
      \/ \A i \in DOMAIN buffer[a] : buffer[a][i] = "agent_end"

(* As long as nobody has stopped it, the end of a session is announced at  *)
(* most once, and by the consumer that is done with it.                    *)
AnnouncedOnce ==
  \A a \in Session :
    known[a] => /\ seen[a].stopped <= 1
                /\ seen[a].stopped = 1 => consumer[a] \in {"over", "failed"}

(* What listeners may rely on at the end of a session.                     *)
EndsRightly == StoppedIsOver /\ OutputComplete /\ AnnouncedOnce

(* Who has been told that a session is stopped is told no other state of   *)
(* it, although the adapter goes on writing to the session.                *)
NothingAfterStopped ==
  [][\A a \in Session : seen[a].created /\ seen[a].stopped > 0
                         => seen'[a].status = seen[a].status]_sessionVars

(* Whatever ends a process, listeners are told (the executor waits for     *)
(* it), unless the event store refuses the last event.                     *)
EndIsAnnounced == \A a \in Session : process[a] = "gone" ~> seen[a].stopped > 0

=============================================================================
