----------------------------- MODULE CicdPoller -----------------------------
(***************************************************************************)
(* What the station knows of a project's CI runs                           *)
(* (integrations/cicd-poller.ts, and watch() of github-actions.ts).        *)
(*                                                                         *)
(* track() takes a snapshot and starts a watcher, which reads the runs     *)
(* once to compare with (its seed), then polls.  A run that has another    *)
(* status than the watcher has last seen is put into the cache and         *)
(* announced; one that the watcher has not seen before is not.  All of     *)
(* them read the ten latest runs only.  One run of one project: its status *)
(* comes back when it is run again.  Deployments are treated alike, but    *)
(* for the limit.                                                          *)
(***************************************************************************)
EXTENDS Naturals

CONSTANTS
  Status,       \* the statuses of a run
  MaxChanges    \* bound: changes of the run

ASSUME PollerAssumption == MaxChanges \in Nat /\ "none" \notin Status

VARIABLES
  remote,        \* the run, as GitHub has it, "none" before it exists
  latest,        \* it is among the ten latest
  changes,       \* how often it has changed
  cached,        \* the run in state, "none" without an entry for it
  lastStatus,    \* what the watcher saw last, "none" if it has not seen the run
  watcher,       \* what track() and then the watcher wait for
  disposed,      \* the poller has been disposed of
  first          \* history: what the watcher saw first

pollerVars == <<remote, latest, changes, cached, lastStatus, watcher, disposed, first>>

PollerTypeOK ==
  /\ {remote, cached, lastStatus, first} \subseteq Status \cup {"none"}
  /\ latest \in BOOLEAN
  /\ changes \in 0..MaxChanges
  /\ watcher \in {"none", "snapshot", "seed", "timer", "poll", "over"}
  /\ disposed \in BOOLEAN

PollerInit ==
  /\ remote \in Status \cup {"none"}
  /\ latest = TRUE /\ changes = 0
  /\ cached = "none" /\ lastStatus = "none" /\ first = "none"
  /\ watcher = "none" /\ disposed = FALSE

(* The run is created, goes on, or is run again.                           *)
Change ==
  /\ changes < MaxChanges
  /\ changes' = changes + 1
  /\ remote' \in Status \ {remote}
  /\ UNCHANGED <<latest, cached, lastStatus, watcher, disposed, first>>

(* Ten more have been created.                                             *)
Displaced ==
  /\ remote # "none" /\ latest
  /\ latest' = FALSE
  /\ UNCHANGED <<remote, changes, cached, lastStatus, watcher, disposed, first>>

(* The station tracks each project once.                                   *)
Track ==
  /\ watcher = "none" /\ ~disposed
  /\ watcher' = "snapshot"
  /\ UNCHANGED <<remote, latest, changes, cached, lastStatus, disposed, first>>

(* The run in a list, if it is there.                                      *)
Listed(old) == IF latest THEN remote ELSE old

(* The snapshot is there: it is kept, and the watcher starts to read its   *)
(* seed.  A failure ends track().                                          *)
Snapshot ==
  /\ watcher = "snapshot"
  /\ \/ cached' = Listed("none") /\ watcher' = "seed"
     \/ UNCHANGED cached /\ watcher' = "over"
  /\ UNCHANGED <<remote, latest, changes, lastStatus, disposed, first>>

(* The watcher notes what it sees, ...                                     *)
Sees ==
  /\ lastStatus' = Listed(lastStatus)
  /\ first' = IF first = "none" THEN lastStatus' ELSE first

(* ... and goes on unless it has been disposed of.                         *)
Waits == watcher' = IF disposed THEN "over" ELSE "timer"

SeedRead ==
  /\ watcher = "seed"
  /\ Sees /\ Waits
  /\ UNCHANGED <<remote, latest, changes, cached, disposed>>

(* A failure of the seed is not fatal: the first poll will do.             *)
SeedFails ==
  /\ watcher = "seed"
  /\ Waits
  /\ UNCHANGED <<remote, latest, changes, cached, lastStatus, disposed, first>>

Timer ==
  /\ watcher = "timer"
  /\ watcher' = "poll"
  /\ UNCHANGED <<remote, latest, changes, cached, lastStatus, disposed, first>>

(* mutant of Announced: what has just been seen first is announced, what   *)
(* has changed is not.                                                     *)
AnnouncedOnSight == Listed(lastStatus) # lastStatus /\ lastStatus = "none"

(* Another status is announced if the watcher has seen the run before;     *)
(* after a dispose() there is no entry and there are no listeners.         *)
Announced == Listed(lastStatus) # lastStatus /\ lastStatus # "none"

PollRead ==
  /\ watcher = "poll"
  /\ Sees
  /\ cached' = IF Announced /\ ~disposed THEN remote ELSE cached
  /\ Waits
  /\ UNCHANGED <<remote, latest, changes, disposed>>

PollFails ==
  /\ watcher = "poll"
  /\ Waits
  /\ UNCHANGED <<remote, latest, changes, cached, lastStatus, disposed, first>>

(* dispose(), when the station stops: not during its initialisation.       *)
Dispose ==
  /\ watcher # "snapshot" /\ ~disposed
  /\ disposed' = TRUE
  /\ watcher' = IF watcher = "timer" THEN "over" ELSE watcher
  /\ UNCHANGED <<remote, latest, changes, cached, lastStatus, first>>

PollerNext ==
  \/ Change \/ Displaced \/ Track \/ Snapshot \/ SeedRead \/ SeedFails \/ Timer
  \/ PollRead \/ PollFails \/ Dispose

PollerSpec == PollerInit /\ [][PollerNext]_pollerVars

(* Timers fire and commands end; GitHub answers again and again.           *)
PollerFairness ==
  /\ WF_pollerVars(Timer) /\ WF_pollerVars(SeedRead \/ SeedFails)
  /\ WF_pollerVars(PollRead \/ PollFails) /\ SF_pollerVars(PollRead)

-----------------------------------------------------------------------------
(* Properties.                                                             *)

(* A run that has another status than the watcher saw first is in the      *)
(* cache with it in the end, however many polls fail, unless it changes    *)
(* again or is no longer among the ten latest.  (A change between the      *)
(* snapshot and that first sight is announced to nobody, and stays unknown *)
(* if no other follows.)                                                   *)
RunsCatchUp ==
  \A st \in Status :
    first # "none" /\ first # st /\ remote = st
      ~> cached = st \/ remote # st \/ ~latest \/ disposed
=============================================================================
