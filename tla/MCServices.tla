----------------------------- MODULE MCServices -----------------------------
(* Instances of the services inside the station for TLC.  They share no    *)
(* state: in each behaviour one of them moves, chosen at the beginning.    *)
EXTENDS MessageRouter, Scheduler, Environment, PlanHost

CONSTANTS web, api

(* Both services ask for one port; the API waits for the web server.       *)
OnePort   == [s \in Service |-> 3000]
ApiOnWeb  == [s \in Service |-> IF s = api THEN <<web>> ELSE <<>>]

VARIABLE part     \* the service that moves

vars == <<routerVars, schedulerVars, envVars, hostVars, part>>

Init ==
  /\ RouterInit /\ SchedulerInit /\ EnvInit /\ HostInit
  /\ part \in {"router", "scheduler", "environment", "plans"}
  /\ part # "environment" => file = NonePorts
  /\ part # "plans" => \A p \in Plan : planFile[p] = "planning"

Next ==
  /\ UNCHANGED part
  /\ \/ /\ part = "router" /\ RouterNext
        /\ UNCHANGED <<schedulerVars, envVars, hostVars>>
     \/ /\ part = "scheduler" /\ SchedulerNext
        /\ UNCHANGED <<routerVars, envVars, hostVars>>
     \/ /\ part = "environment" /\ EnvNext
        /\ UNCHANGED <<routerVars, schedulerVars, hostVars>>
     \/ /\ part = "plans" /\ HostNext
        /\ UNCHANGED <<routerVars, schedulerVars, envVars>>

Spec == Init /\ [][Next]_vars

(* Every variable has its type (message-router.ts, scheduler.ts,           *)
(* environment-manager.ts, station.ts).                                    *)
ServicesTypeOK == RouterTypeOK /\ SchedulerTypeOK /\ EnvTypeOK /\ HostTypeOK
=============================================================================
