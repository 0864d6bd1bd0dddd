---------------------------- MODULE Environment -----------------------------
(***************************************************************************)
(* The services of a project that the station runs                         *)
(* (server/environment-manager.ts), the processes under them               *)
(* (server/process-manager.ts) and the registry that keeps their ports     *)
(* apart (config/port-registry.ts).                                        *)
(*                                                                         *)
(* Calls overlap where they wait: for the registry to be read or written,  *)
(* for a dependency, for a process to end.  A process that the             *)
(* ProcessManager has lost sight of goes on all the same (strays).  What a *)
(* call makes of the registry is made of the copy it has got, whatever has *)
(* become of the registry since.  Which check a health check does is I/O;  *)
(* what is kept is that its result comes later than its start.             *)
(***************************************************************************)
EXTENDS Naturals, Sequences, FiniteSets

CONSTANTS
  Service,      \* the services
  NoService,    \* not a service
  Base,         \* the port each service asks for
  Offset,       \* offsetStep
  Attempts,     \* maxAttempts
  Reserved,     \* the ports in reserved ranges
  Depends,      \* dependsOn, of services that have a command
  EnvClient,    \* those who call the EnvironmentManager
  MaxStrays,    \* bound: stray processes of a service
  MaxEnvCalls   \* bound: calls

PortsOf(s) == {Base[s] + i * Offset : i \in 0..Attempts}
Port       == UNION {PortsOf(s) : s \in Service}

ASSUME EnvironmentAssumption ==
  /\ IsFiniteSet(Service) /\ NoService \notin Service
  /\ Base \in [Service -> Nat \ {0}]
  /\ Offset \in Nat \ {0} /\ Attempts \in Nat \ {0} /\ {MaxStrays, MaxEnvCalls} \subseteq Nat
  /\ Depends \in [Service -> Seq(Service)]

(* starting: or unhealthy; down: stopped or crashed, or in error.          *)
State == {"none", "starting", "running", "down"}

(* alive, probing: the process of the entry lives; a look at its port is   *)
(* under way.  port: the one that it has been given.                       *)
Entry   == [state: State, alive: BOOLEAN, probing: BOOLEAN, port: Port \cup {0}]
NoEntry == [state |-> "none", alive |-> FALSE, probing |-> FALSE, port |-> 0]

(* What has been allocated: a port for each service, 0 for none.           *)
Allocation == [Service -> Port \cup {0}]

(* A call and where it waits.  then: what it does when the registry is     *)
(* there; rest: what startAllServices() has still to start; deps: what its *)
(* first has still to wait for; copy: the registry that it has got, and    *)
(* then what it writes.                                                    *)
EnvCall == [at: {"idle", "loading", "got", "saving", "waiting", "stopping"},
            then: {"start", "stop"},
            of: Service \cup {NoService},
            rest: Seq(Service), deps: Seq(Service), copy: Allocation]

VARIABLES
  registry,   \* the registry in memory
  loads,      \* how often it has been read from its file
  file,       \* the allocations in the file
  instance,   \* instances[].state
  entry,      \* the entries of the ProcessManager
  strays,     \* live processes of a service that no entry knows
  checking,   \* a health check of the instance is under way
  envCall,    \* the calls
  envCalls,   \* how many there have been
  astray      \* history: the services whose port the registry no longer keeps

envVars == <<registry, loads, file, instance, entry, strays, checking, envCall,
             envCalls, astray>>

NonePorts == [s \in Service |-> 0]
EnvIdle == [at |-> "idle", then |-> "start", of |-> NoService, rest |-> <<>>,
            deps |-> <<>>, copy |-> NonePorts]

EnvTypeOK ==
  /\ registry \in Allocation /\ file \in Allocation
  /\ loads \in Nat
  /\ instance \in [Service -> State]
  /\ entry \in [Service -> Entry]
  /\ strays \in [Service -> 0..MaxStrays]
  /\ checking \in [Service -> BOOLEAN]
  /\ envCall \in [EnvClient -> EnvCall]
  /\ envCalls \in 0..MaxEnvCalls
  /\ astray \subseteq Service

(* The file may hold what an earlier station has allocated.                *)
EnvInit ==
  /\ registry = NonePorts /\ loads = 0
  /\ file \in {NonePorts, [s \in Service |-> IF s = CHOOSE t \in Service : TRUE
                                             THEN Base[s] ELSE 0]}
  /\ instance = [s \in Service |-> "none"]
  /\ entry = [s \in Service |-> NoEntry]
  /\ strays = [s \in Service |-> 0]
  /\ checking = [s \in Service |-> FALSE]
  /\ envCall = [c \in EnvClient |-> EnvIdle]
  /\ envCalls = 0
  /\ astray = {}

-----------------------------------------------------------------------------
(* The port registry.                                                      *)

Taken(al, p)    == \E s \in Service : al[s] = p
Conflict(al, s) == \E t \in Service : t # s /\ al[t] = Base[s]

FreeTries(al, s) ==
  {i \in 0..Attempts - 1 : /\ ~Taken(al, Base[s] + i * Offset)
                          /\ Base[s] + i * Offset \notin Reserved}

(* findNextAvailablePort(): the last port tried is returned unchecked.     *)
FirstTry(al, s) ==
  IF FreeTries(al, s) = {} THEN Attempts
  ELSE CHOOSE i \in FreeTries(al, s) : \A j \in FreeTries(al, s) : i <= j

NextAvailable(al, s) == Base[s] + FirstTry(al, s) * Offset

(* Not so many services ask for one port that all attempts fail: some try  *)
(* is the first that succeeds.                                             *)
ASSUME AttemptsSuffice ==
  \A al \in Allocation, s \in Service :
    \E i \in FreeTries(al, s) : \A j \in FreeTries(al, s) : i <= j

(* mutant of Allocated: a conflict is announced and no more.               *)
AllocatedAnyway(al, s) == [al EXCEPT ![s] = Base[s]]

(* The allocations with one for s.                                         *)
Allocated(al, s) ==
  [al EXCEPT ![s] = IF Conflict(al, s) THEN NextAvailable(al, s) ELSE Base[s]]

(* getRegistry(): read from its file unless it has been.                   *)
GetRegistry(c, k) ==
  envCall' = [envCall EXCEPT ![c] =
    IF loads = 0 THEN [k EXCEPT !.at = "loading", !.copy = file]
                 ELSE [k EXCEPT !.at = "got", !.copy = registry]]

(* The allocations that are gone when al becomes the registry, but for the *)
(* service the caller is about.                                            *)
Overwritten(al, own) ==
  {s \in Service \ own : registry[s] # 0 /\ al[s] # registry[s]}

(* The file as it was when it was opened, or as it is by now.              *)
Loaded(c) ==
  /\ envCall[c].at = "loading"
  /\ loads' = loads + 1
  /\ \E read \in {envCall[c].copy, file} :
       /\ registry' = read
       /\ envCall' = [envCall EXCEPT ![c] = [@ EXCEPT !.at = "got", !.copy = read]]
       /\ astray' = astray \cup Overwritten(read, {})
  /\ UNCHANGED <<file, instance, entry, strays, checking, envCalls>>

(* The call goes on with the registry that it has got, which it changes.   *)
UseRegistry(c) ==
  LET k   == envCall[c]
      new == IF k.then = "start" THEN Allocated(k.copy, k.of)
             ELSE [k.copy EXCEPT ![k.of] = 0]
  IN  /\ k.at = "got"
      /\ registry' = new
      /\ envCall' = [envCall EXCEPT ![c] = [@ EXCEPT !.at = "saving", !.copy = new]]
      /\ astray' = astray \cup Overwritten(new, {k.of})
      /\ UNCHANGED <<loads, file, instance, entry, strays, checking, envCalls>>

-----------------------------------------------------------------------------
(* Starting.                                                               *)

(* A call that starts or stops s is under way.                             *)
OnIt(s) ==
  \E c \in EnvClient : envCall[c].of = s /\ envCall[c].at \notin {"idle", "waiting"}

(* A service that is started while it runs is given a port that its        *)
(* process does not hear of.                                               *)
StartsAgain(s) ==
  astray' = astray \cup {t \in {s} : entry[t].alive \/ OnIt(t)}

(* startService().                                                         *)
StartService(c, s) ==
  /\ envCall[c].at = "idle" /\ envCalls < MaxEnvCalls
  /\ envCalls' = envCalls + 1
  /\ GetRegistry(c, [EnvIdle EXCEPT !.of = s])
  /\ StartsAgain(s)
  /\ UNCHANGED <<registry, loads, file, instance, entry, strays, checking>>

(* What topologicalSort() may return.                                      *)
IsSorted(order) ==
  /\ \A s \in Service : \E i \in DOMAIN order : order[i] = s
  /\ \A i, j \in DOMAIN order :
       order[i] = order[j] \/ (\E k \in DOMAIN Depends[order[j]] :
                                 Depends[order[j]][k] = order[i]) => i <= j

(* startAllServices() gets to the first service of order.                  *)
Reach(c, order) ==
  [envCall EXCEPT ![c] = IF order = <<>> THEN EnvIdle
                         ELSE [EnvIdle EXCEPT !.at = "waiting",
                                              !.of = Head(order),
                                              !.rest = Tail(order),
                                              !.deps = Depends[Head(order)]]]

StartAll(c) ==
  /\ envCall[c].at = "idle" /\ envCalls < MaxEnvCalls
  /\ envCalls' = envCalls + 1
  /\ \E order \in [1..Cardinality(Service) -> Service] :
       IsSorted(order) /\ envCall' = Reach(c, order)
  /\ UNCHANGED <<registry, loads, file, instance, entry, strays, checking, astray>>

(* waitForDependencies(): the next dependency runs, ...                    *)
DependencyRuns(c) ==
  /\ envCall[c].at = "waiting" /\ envCall[c].deps # <<>>
  /\ instance[Head(envCall[c].deps)] = "running"
  /\ envCall' = [envCall EXCEPT ![c].deps = Tail(@)]
  /\ UNCHANGED <<registry, loads, file, instance, entry, strays, checking, envCalls, astray>>

(* ... is down, which ends the call, ...                                   *)
DependencyDown(c) ==
  /\ envCall[c].at = "waiting" /\ envCall[c].deps # <<>>
  /\ instance[Head(envCall[c].deps)] = "down"
  /\ envCall' = [envCall EXCEPT ![c] = EnvIdle]
  /\ UNCHANGED <<registry, loads, file, instance, entry, strays, checking, envCalls,
                 astray>>

(* ... or has not come up in time, nor are the others waited for.          *)
Deadline(c) ==
  /\ envCall[c].at = "waiting" /\ envCall[c].deps # <<>>
  /\ envCall' = [envCall EXCEPT ![c].deps = <<>>]
  /\ UNCHANGED <<registry, loads, file, instance, entry, strays, checking, envCalls,
                 astray>>

StartNext(c) ==
  /\ envCall[c].at = "waiting" /\ envCall[c].deps = <<>>
  /\ GetRegistry(c, envCall[c])
  /\ StartsAgain(envCall[c].of)
  /\ UNCHANGED <<registry, loads, file, instance, entry, strays, checking, envCalls>>

(* ProcessManager.startService(): a service that counts as running is left *)
(* alone, a process that is still starting is lost sight of.               *)
Spawn(s, p) ==
  IF entry[s].state = "running"
  THEN UNCHANGED <<entry, strays>>
  ELSE /\ entry[s].alive => strays[s] < MaxStrays
       /\ strays' = [strays EXCEPT ![s] = IF entry[s].alive THEN @ + 1 ELSE @]
       /\ entry' = [entry EXCEPT ![s] = [state |-> "starting", alive |-> TRUE,
                                         probing |-> FALSE, port |-> p]]

(* The registry is written: the service is started, or the stop is over.   *)
Written(c) ==
  LET k == envCall[c] IN
  /\ k.at = "saving"
  /\ file' = k.copy
  /\ IF k.then = "start"
     THEN /\ Spawn(k.of, k.copy[k.of])
          /\ instance' = [instance EXCEPT ![k.of] = "starting"]
          /\ checking' = [checking EXCEPT ![k.of] = FALSE]
          /\ envCall' = Reach(c, k.rest)
     ELSE /\ envCall' = [envCall EXCEPT ![c] = EnvIdle]
          /\ UNCHANGED <<instance, entry, strays, checking>>
  /\ UNCHANGED <<registry, loads, envCalls, astray>>

-----------------------------------------------------------------------------
(* Stopping.                                                               *)

Down(s) ==
  instance' = [instance EXCEPT ![s] = IF @ = "none" THEN @ ELSE "down"]

(* stopService() of a service without a process goes on at once.           *)
StopService(c, s) ==
  LET k == [EnvIdle EXCEPT !.then = "stop", !.of = s] IN
  /\ envCall[c].at = "idle" /\ envCalls < MaxEnvCalls
  /\ envCalls' = envCalls + 1
  /\ IF entry[s].state = "none"
     THEN GetRegistry(c, k) /\ Down(s)
     ELSE /\ envCall' = [envCall EXCEPT ![c] = [k EXCEPT !.at = "stopping"]]
          /\ UNCHANGED instance
  /\ astray' = astray \cup {t \in {s} : OnIt(t)}
  /\ UNCHANGED <<registry, loads, file, entry, strays, checking>>

(* The process has been closed or, after five seconds, killed.  What the   *)
(* entry holds by now is forgotten.                                        *)
ProcessStopped(c) ==
  LET s == envCall[c].of IN
  /\ envCall[c].at = "stopping"
  /\ entry[s].alive => strays[s] < MaxStrays
  /\ strays' = [strays EXCEPT ![s] = IF entry[s].alive THEN @ + 1 ELSE @]
  /\ entry' = [entry EXCEPT ![s] = NoEntry]
  /\ Down(s)
  /\ GetRegistry(c, envCall[c])
  /\ UNCHANGED <<registry, loads, file, checking, envCalls, astray>>

(* handleProcessEvent(), whichever process of the service it was.          *)
Closed(s) ==
  /\ entry[s].alive
  /\ entry' = [entry EXCEPT ![s] = [@ EXCEPT !.alive = FALSE, !.state = "down"]]
  /\ Down(s)
  /\ UNCHANGED <<registry, loads, file, strays, checking, envCall, envCalls,
                 astray>>

StrayCloses(s) ==
  /\ strays[s] > 0
  /\ strays' = [strays EXCEPT ![s] = @ - 1]
  /\ Down(s)
  /\ UNCHANGED <<registry, loads, file, entry, checking, envCall, envCalls,
                 astray>>

-----------------------------------------------------------------------------
(* Looking at what runs.                                                   *)

(* After two seconds, once: the answer overwrites what has happened since. *)
Probe(s) ==
  /\ entry[s].state = "starting" /\ ~entry[s].probing
  /\ entry' = [entry EXCEPT ![s].probing = TRUE]
  /\ UNCHANGED <<registry, loads, file, instance, strays, checking, envCall, envCalls,
                 astray>>

Probed(s) ==
  /\ entry[s].probing
  /\ \E new \in {"starting", "running"} :
       entry' = [entry EXCEPT ![s] = [@ EXCEPT !.state = new, !.probing = FALSE]]
  /\ UNCHANGED <<registry, loads, file, instance, strays, checking, envCall, envCalls,
                 astray>>

CheckHealth(s) ==
  /\ instance[s] \in {"starting", "running"} /\ ~checking[s]
  /\ checking' = [checking EXCEPT ![s] = TRUE]
  /\ UNCHANGED <<registry, loads, file, instance, entry, strays, envCall, envCalls,
                 astray>>

(* Healthy, unhealthy for long enough, or neither.                         *)
HealthChecked(s) ==
  /\ checking[s]
  /\ checking' = [checking EXCEPT ![s] = FALSE]
  /\ \E new \in {"running", "starting", instance[s]} :
       instance' = [instance EXCEPT ![s] = new]
  /\ UNCHANGED <<registry, loads, file, entry, strays, envCall, envCalls,
                 astray>>

-----------------------------------------------------------------------------
EnvNext ==
  \/ \E c \in EnvClient :
       \/ StartAll(c) \/ Loaded(c) \/ Written(c) \/ DependencyRuns(c)
       \/ DependencyDown(c) \/ Deadline(c) \/ StartNext(c) \/ UseRegistry(c) \/ ProcessStopped(c)
       \/ \E s \in Service : StartService(c, s) \/ StopService(c, s)
  \/ \E s \in Service :
       \/ Closed(s) \/ StrayCloses(s) \/ Probe(s) \/ Probed(s)
       \/ CheckHealth(s) \/ HealthChecked(s)

EnvSpec == EnvInit /\ [][EnvNext]_envVars

-----------------------------------------------------------------------------
(* Properties.                                                             *)

(* Two processes are never given one port, however starts, stops and       *)
(* crashes follow each other, unless one of the two belongs to a service   *)
(* that was started or stopped while a call or a process of it was still   *)
(* there, or whose allocation another call has overwritten with its copy.  *)
PortsApart ==
  \A s, t \in Service \ astray :
    s # t /\ entry[s].alive /\ entry[t].alive => entry[s].port # entry[t].port

(* docs/spec/environments.md:22: the registry "prevents collisions".  With *)
(* no exception the code does not.                                         *)
PreventsCollisions ==
  \A s, t \in Service :
    s # t /\ entry[s].alive /\ entry[t].alive => entry[s].port # entry[t].port
=============================================================================
