---------------------------- MODULE InfraWatcher ----------------------------
(***************************************************************************)
(* What the station and the TUI are told of a project's infrastructure     *)
(* (watch() of infra/kubernetes.ts): one pod, followed by the output of    *)
(* kubectl get --watch and, every thirty seconds, by a list.               *)
(*                                                                         *)
(* Both compare with and write to lastResourceState, and the list takes    *)
(* time: what it read may be older than what the stream has brought        *)
(* meanwhile, and a line of the stream older than what a list has brought. *)
(* A form is a description of the pod, 0 that there is none.               *)
(***************************************************************************)
EXTENDS Naturals, Sequences

CONSTANTS MaxForms      \* bound: forms the pod takes, over all its lives

ASSUME InfraAssumption == MaxForms \in Nat

Form == 0..MaxForms

VARIABLES
  pod,           \* the pod, as the cluster has it
  forms,         \* forms there have been
  watchChild,    \* kubectl get --watch: "none", "open", "closed"
  stream,        \* what it has printed and the program has not read
  lastState,     \* the entry of lastResourceState
  reported,      \* what the callback has been told last, 0 if nothing
  infra,         \* what watch() waits for
  listed,        \* what the list under way has read
  infraDisposed  \* dispose() has been called

infraVars == <<pod, forms, watchChild, stream, lastState, reported, infra,
               listed, infraDisposed>>

InfraTypeOK ==
  /\ pod \in Form /\ forms \in Form
  /\ watchChild \in {"none", "open", "closed"} /\ stream \in Seq(Form \ {0})
  /\ lastState \in Form /\ reported \in Form /\ listed \in Form
  /\ infra \in {"none", "seed", "seeded", "timer", "poll", "polled", "over"}
  /\ infraDisposed \in BOOLEAN

InfraInit ==
  /\ pod \in {0, 1} \cap Form /\ forms = pod
  /\ watchChild = "none" /\ stream = <<>>
  /\ lastState = 0 /\ reported = 0 /\ listed = 0
  /\ infra = "none" /\ infraDisposed = FALSE

(* The pod is created, changes or is deleted.  kubectl prints what has     *)
(* changed, and a pod that is deleted in the form it had.                  *)
PodChanges ==
  /\ \/ forms < MaxForms /\ forms' = forms + 1 /\ pod' = forms + 1
     \/ pod # 0 /\ pod' = 0 /\ UNCHANGED forms
  /\ stream' = IF watchChild = "open"
               THEN Append(stream, IF pod' = 0 THEN pod ELSE pod') ELSE stream
  /\ UNCHANGED <<watchChild, lastState, reported, infra, listed, infraDisposed>>

(* watch(): the list that seeds lastResourceState begins.                  *)
Watch ==
  /\ infra = "none" /\ ~infraDisposed
  /\ infra' = "seed"
  /\ UNCHANGED <<pod, forms, watchChild, stream, lastState, reported, listed,
                 infraDisposed>>

(* listResources(): a kubectl that fails has found nothing.                *)
ListReads(found) ==
  /\ infra \in {"seed", "poll"}
  /\ listed' = found
  /\ infra' = IF infra = "seed" THEN "seeded" ELSE "polled"
  /\ UNCHANGED <<pod, forms, watchChild, stream, lastState, reported,
                 infraDisposed>>

(* The seed is kept and told to nobody.  kubectl --watch prints what there *)
(* is when it starts.                                                      *)
SeedDone ==
  /\ infra = "seeded"
  /\ lastState' = listed
  /\ IF infraDisposed
     THEN infra' = "over" /\ UNCHANGED <<watchChild, stream>>
     ELSE /\ infra' = "timer" /\ watchChild' = "open"
          /\ stream' = IF pod = 0 THEN <<>> ELSE <<pod>>
  /\ UNCHANGED <<pod, forms, reported, listed, infraDisposed>>

(* A line arrives.  One that cannot be parsed is skipped, and after a      *)
(* dispose() all are.                                                      *)
StreamLine ==
  /\ stream # <<>>
  /\ stream' = Tail(stream)
  /\ \/ UNCHANGED <<lastState, reported>>
     \/ ~infraDisposed /\ lastState' = Head(stream) /\ reported' = Head(stream)
  /\ UNCHANGED <<pod, forms, watchChild, infra, listed, infraDisposed>>

(* kubectl --watch ends, and is not started again.                         *)
StreamCloses ==
  /\ watchChild = "open"
  /\ watchChild' = "closed"
  /\ UNCHANGED <<pod, forms, stream, lastState, reported, infra, listed,
                 infraDisposed>>

PollTimer ==
  /\ infra = "timer"
  /\ infra' = "poll"
  /\ UNCHANGED <<pod, forms, watchChild, stream, lastState, reported, listed,
                 infraDisposed>>

(* poll() has the list: what differs from lastResourceState is told, a pod *)
(* that is not in the list as deleted, even after a dispose().             *)
PollDone ==
  /\ infra = "polled"
  /\ lastState' = listed
  /\ reported' = IF listed = lastState THEN reported ELSE listed
  /\ infra' = IF infraDisposed THEN "over" ELSE "timer"
  /\ UNCHANGED <<pod, forms, watchChild, stream, listed, infraDisposed>>

(* dispose(): kubectl is killed and the timer cleared.                     *)
DisposeWatch ==
  /\ infra # "none" /\ ~infraDisposed
  /\ infraDisposed' = TRUE
  /\ watchChild' = IF watchChild = "open" THEN "closed" ELSE watchChild
  /\ infra' = IF infra = "timer" THEN "over" ELSE infra
  /\ UNCHANGED <<pod, forms, stream, lastState, reported, listed>>

(* What watch() waits for comes: a timer, a kubectl.                       *)
WatchGoesOn ==
  SeedDone \/ PollTimer \/ PollDone \/ \E found \in {0, pod} : ListReads(found)

InfraNext ==
  PodChanges \/ Watch \/ WatchGoesOn \/ StreamLine \/ StreamCloses \/ DisposeWatch

InfraSpec == InfraInit /\ [][InfraNext]_infraVars

(* Timers fire and commands end; kubectl succeeds again and again.  Lines  *)
(* of the stream may never come.                                           *)
InfraFairness == WF_infraVars(WatchGoesOn) /\ SF_infraVars(ListReads(pod))

-----------------------------------------------------------------------------
(* Properties.                                                             *)

(* However lines and lists overtake each other, and whether or not the     *)
(* stream ends, a line is lost or kubectl fails: again and again           *)
(* lastResourceState has the pod as it is, and nothing else has been told. *)
PodsCatchUp ==
  []<>(infra = "none" \/ infraDisposed
         \/ (lastState = pod /\ reported \in {0, pod}))

(* A pod is told to be deleted only if it is: the catch of poll() says     *)
(* that after a poll that failed the next one will do.                     *)
DeletedIsGone ==
  [][reported # 0 /\ reported' = 0 => pod # reported]_infraVars

(* After dispose() nothing is told.                                        *)
QuietAfterDispose == [][infraDisposed => reported' = reported]_infraVars
=============================================================================
