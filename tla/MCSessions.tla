----------------------------- MODULE MCSessions -----------------------------
(* Instances for TLC of what the station hears from outside: of the        *)
(* agents, of CI runs and of infrastructure.  The three share no state: in *)
(* each behaviour one of them moves, chosen at the beginning.              *)
EXTENDS AgentSession, CicdPoller, InfraWatcher

VARIABLE part     \* the one that moves

vars == <<sessionVars, pollerVars, infraVars, part>>

Init ==
  /\ SessionInit /\ PollerInit /\ InfraInit
  /\ part \in {"session", "poller", "infra"}
  /\ part # "session" => backend = [a \in Session |-> "opencode"]
  /\ part # "poller" => remote = "none"
  /\ part # "infra" => pod = 0

Next ==
  /\ UNCHANGED part
  /\ \/ part = "session" /\ SessionNext /\ UNCHANGED <<pollerVars, infraVars>>
     \/ part = "poller" /\ PollerNext /\ UNCHANGED <<sessionVars, infraVars>>
     \/ part = "infra" /\ InfraNext /\ UNCHANGED <<sessionVars, pollerVars>>

Spec == Init /\ [][Next]_vars

FairSpec == Spec /\ SessionFairness /\ PollerFairness /\ InfraFairness

(* Every variable has its type, events are among those that agents print   *)
(* (claude-code.ts, opencode.ts, session-manager.ts, cicd-poller.ts,       *)
(* kubernetes.ts).                                                         *)
HeardTypeOK == SessionTypeOK /\ PollerTypeOK /\ InfraTypeOK

(* What the station has and tells of CI runs and of pods catches up with   *)
(* them, however many polls fail and whatever overtakes what (watch() of   *)
(* github-actions.ts and of kubernetes.ts).                                *)
CatchesUp == RunsCatchUp /\ PodsCatchUp
=============================================================================
