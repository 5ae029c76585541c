------------------------- MODULE DynamicScoringHub -------------------------
(***************************************************************************)
(* The hub side of the dynamic scoring framework                           *)
(* (dynamic-scoring-framework/internal/controller).                        *)
(*                                                                         *)
(* A goroutine checks the scoring APIs of all DynamicScorers on every tick *)
(* of a timer and writes what it finds to their status.  The reconciler of *)
(* the DynamicScoringConfig computes the summaries of every managed        *)
(* cluster from the scorers and the masks, and writes them to the cluster's*)
(* ManifestWork; it is triggered by the config and the scorers, not by the *)
(* clusters.  The two run side by side, and users edit all of it.          *)
(*                                                                         *)
(* The reconciler reads through the manager's cached client.  That a cache *)
(* is late with what users do is the same as that they do it later, but it *)
(* is also late with what the reconciler itself wrote: `worksSeen' holds   *)
(* the ManifestWorks as the cache has them.                                *)
(*                                                                         *)
(* The status update of the health check carries the resource version of   *)
(* the object that was listed: `outdated' holds the scorers of the current *)
(* round that were written since.                                          *)
(***************************************************************************)
EXTENDS ScorerSummary, FiniteSets

CONSTANTS
  Scorers,        \* names of DynamicScorer objects
  Specs,          \* the specs that users give them: [mode, configHost, spec]
  Hosts,          \* hosts of scoring APIs
  Configs,        \* the configs that a scoring API may serve
  Answers,        \* how a scoring API may answer
  EmptyConfig,    \* what a JSON body without the fields is decoded to
  Clusters,       \* managed clusters
  MaskSets,       \* the masks a DynamicScoringConfig may have:
                  \*   functions from Clusters to sets of score names
  NoScorer, NoWork, NoAnswer,
  MaxEdits,       \* bound on changes that users and APIs make
  MaxFailures     \* bound on calls to the API server of the hub that fail

VARIABLES
  scorers,        \* the DynamicScorers: spec, lastSyncedConfig, healthStatus
  api,            \* how the scoring API of a host answers
  config,         \* the DynamicScoringConfig: "absent", "present", "deleting"
  finalizer,      \* it has the controller's finalizer
  masks,          \* its masks
  clusters,       \* the ManagedClusters
  works,          \* ManifestWork dynamic-scoring-config-manifestwork
  worksSeen,      \* the same in the manager's cache
  behind,         \* the clusters whose work was written since the cache saw it
  overlooked,     \* the clusters whose work the last reconcile left as it was
                  \*   because the cache was late or a failed call was only
                  \*   logged; a history variable, which no action reads
  queued,         \* the config's key is in the workqueue
  pc,             \* where Reconcile is
  todo,           \* the clusters this reconcile still has to handle
  snapshot,       \* the scorers and masks it has read
  listed,         \* the listed objects that this health check still handles
  asked,          \* the scorer whose API it has asked
  answer,         \* the answer
  outdated,
  edits, failures

hubVars     == <<scorers, config, finalizer, masks, clusters, works, worksSeen,
                 behind, overlooked>>
workVars    == <<works, worksSeen, behind, overlooked>>
reconcileVars == <<pc, todo, snapshot>>
checkVars   == <<listed, asked, answer>>
vars == <<hubVars, api, queued, reconcileVars, checkVars, outdated, edits,
          failures>>

\* A DynamicScorer: its spec, lastSyncedConfig and healthStatus.
Scorer ==
  [spec : Specs, synced : Configs \cup {EmptyConfig, NoConfig},
   health : {"", "Active", "Inactive"}]

ASSUME BoundsAssumption == MaxEdits \in Nat /\ MaxFailures \in Nat

\* An API answers not at all, with an error status and some JSON body, or with
\* a config; `healthz' is whether its /healthz answers 200.
ASSUME AnswersAssumption ==
  Answers \subseteq
    [status : {"down", "error", "ok"}, config : Configs, healthz : BOOLEAN]

\* NoScorer is no scorer, and every configURL names the host of an API.
ASSUME ScorersAssumption ==
  /\ NoScorer \notin Scorers \cup Scorer
  /\ \A spec \in Specs : spec.configHost \in Hosts

Present == {s \in Scorers : scorers[s] # NoScorer}

\* A scorer together with the fields that ScorerSummary looks at.
Summarisable(s) ==
  [mode |-> s.spec.mode, configHost |-> s.spec.configHost,
   spec |-> s.spec.spec, sourceAuth |-> "none", scoringAuth |-> "none",
   synced |-> s.synced, health |-> s.health]

\* buildClusterToSummaries for one cluster.
Summaries(objects, masked) ==
  {[name |-> s, summary |-> SummaryOf(Summarisable(objects[s]))] :
     s \in {t \in Scorers : /\ objects[t] # NoScorer
                            /\ Summarised(Summarisable(objects[t]), masked)}}

\* Mutant of NewScorer: a health status that nothing ever clears.
NewScorerUnknown(spec) ==
  [spec |-> spec, synced |-> NoConfig, health |-> "Unknown"]

NewScorer(spec) == [spec |-> spec, synced |-> NoConfig, health |-> ""]

TypeOK ==
  /\ scorers \in [Scorers -> Scorer \cup {NoScorer}]
  /\ api \in [Hosts -> Answers]
  /\ config \in {"absent", "present", "deleting"}
  /\ finalizer \in BOOLEAN /\ (config = "deleting" => finalizer)
  /\ masks \in MaskSets
  /\ clusters \subseteq Clusters
  /\ DOMAIN works = Clusters /\ DOMAIN worksSeen = Clusters
  /\ behind \subseteq Clusters /\ overlooked \subseteq Clusters
  /\ queued \in BOOLEAN
  /\ pc \in {"idle", "list", "apply", "delete", "finalize"}
  /\ todo \subseteq Clusters
  /\ listed \in [Scorers -> Scorer \cup {NoScorer}]
  /\ asked \in Scorers \cup {NoScorer}
  /\ answer \in Answers \cup {NoAnswer}
  /\ outdated \subseteq Scorers
  /\ edits \in 0..MaxEdits /\ failures \in 0..MaxFailures

Init ==
  /\ scorers = [s \in Scorers |-> NoScorer]
  /\ api \in [Hosts -> Answers]
  /\ config = "absent" /\ finalizer = FALSE
  /\ masks \in MaskSets
  /\ clusters \in SUBSET Clusters
  /\ works = [c \in Clusters |-> NoWork] /\ worksSeen = works
  /\ behind = {} /\ overlooked = {}
  /\ queued = FALSE
  /\ pc = "idle" /\ todo = {} /\ snapshot = NoWork
  /\ listed = [s \in Scorers |-> NoScorer]
  /\ asked = NoScorer /\ answer = NoAnswer
  /\ outdated = {}
  /\ edits = 0 /\ failures = 0

-----------------------------------------------------------------------------
(***************************************************************************)
(* Users, scoring APIs, and clusters that join and leave.                  *)
(***************************************************************************)
Edit == edits < MaxEdits /\ edits' = edits + 1

\* A DynamicScorer is created, gets another spec (its status stays), or is
\* deleted.  Each is an event for the config's reconciler.
EditScorer(s) ==
  /\ Edit
  /\ \/ \E spec \in Specs :
          IF scorers[s] = NoScorer
          THEN scorers' = [scorers EXCEPT ![s] = NewScorer(spec)]
          ELSE /\ scorers[s].spec # spec
               /\ scorers' = [scorers EXCEPT ![s].spec = spec]
     \/ /\ scorers[s] # NoScorer
        /\ scorers' = [scorers EXCEPT ![s] = NoScorer]
  /\ outdated' = outdated \cup {s}
  /\ queued' = TRUE
  /\ UNCHANGED <<api, config, finalizer, masks, clusters, workVars,
                 reconcileVars, checkVars, failures>>

ChangeApi ==
  /\ Edit
  /\ \E h \in Hosts, a \in Answers :
       api[h] # a /\ api' = [api EXCEPT ![h] = a]
  /\ UNCHANGED <<hubVars, queued, reconcileVars, checkVars, outdated,
                 failures>>

CreateConfig ==
  /\ Edit /\ config = "absent"
  /\ config' = "present" /\ finalizer' = FALSE /\ masks' \in MaskSets
  /\ queued' = TRUE
  /\ UNCHANGED <<scorers, clusters, workVars, api, reconcileVars, checkVars,
                 outdated, failures>>

EditMasks ==
  /\ Edit /\ config = "present"
  /\ masks' \in MaskSets \ {masks}
  /\ queued' = TRUE
  /\ UNCHANGED <<scorers, config, finalizer, clusters, workVars, api,
                 reconcileVars, checkVars, outdated, failures>>

\* Without a finalizer the object is gone at once.
DeleteConfig ==
  /\ Edit /\ config = "present"
  /\ config' = IF finalizer THEN "deleting" ELSE "absent"
  /\ queued' = TRUE
  /\ UNCHANGED <<scorers, finalizer, masks, clusters, workVars, api,
                 reconcileVars, checkVars, outdated, failures>>

\* What the API server holds for c becomes work; the cache learns it later.
Store(c, work) ==
  /\ works' = [works EXCEPT ![c] = work]
  /\ behind' = IF works[c] = work THEN behind ELSE behind \cup {c}

\* The ManagedClusters are not watched.  A cluster that leaves takes its
\* namespace, and with it the ManifestWork, along.
JoinOrLeave(c) ==
  /\ Edit
  /\ \/ /\ c \notin clusters /\ clusters' = clusters \cup {c}
        /\ UNCHANGED <<works, behind>>
     \/ /\ c \in clusters /\ clusters' = clusters \ {c}
        /\ Store(c, NoWork)
  /\ UNCHANGED <<scorers, config, finalizer, masks, worksSeen, overlooked, api,
                 queued, reconcileVars, checkVars, outdated, failures>>

\* The manager's cache resyncs (after ten hours) and queues what it holds.
Resync ==
  /\ config # "absent"
  /\ queued' = TRUE
  /\ UNCHANGED <<hubVars, api, reconcileVars, checkVars, outdated, edits,
                 failures>>

\* The cache catches up with the ManifestWork of c.
ObserveWork(c) ==
  /\ c \in behind
  /\ worksSeen' = [worksSeen EXCEPT ![c] = works[c]]
  /\ behind' = behind \ {c}
  /\ UNCHANGED <<scorers, config, finalizer, masks, clusters, works, overlooked,
                 api, queued, reconcileVars, checkVars, outdated, edits,
                 failures>>

EnvNext ==
  \/ ChangeApi \/ CreateConfig \/ EditMasks \/ DeleteConfig \/ Resync
  \/ \E s \in Scorers : EditScorer(s)
  \/ \E c \in Clusters : JoinOrLeave(c) \/ ObserveWork(c)

-----------------------------------------------------------------------------
(***************************************************************************)
(* DynamicScoringConfigReconciler.Reconcile.                               *)
(***************************************************************************)
Failure == failures < MaxFailures /\ failures' = failures + 1

\* A reconcile that returns an error is queued again.
Retry == pc' = "idle" /\ queued' = TRUE /\ todo' = {} /\ snapshot' = NoWork

\* Mutant of FinalizerAfterGet: the finalizer is never added.
FinalizerNeverAdded == finalizer

FinalizerAfterGet == TRUE

\* Get, and the finalizer; a config that is gone ends the reconcile.
ReconcileStart ==
  /\ pc = "idle" /\ queued
  /\ \/ /\ config = "absent"
        /\ queued' = FALSE
        /\ UNCHANGED <<finalizer, reconcileVars, failures>>
     \/ /\ config # "absent"
        /\ queued' = FALSE
        /\ finalizer' = FinalizerAfterGet
        /\ pc' = IF config = "deleting" THEN "delete" ELSE "list"
        /\ todo' = IF config = "deleting" THEN clusters ELSE {}
        /\ snapshot' = [masks |-> masks]
        /\ UNCHANGED failures
     \/ /\ config # "absent" /\ Failure /\ Retry
        /\ UNCHANGED finalizer
  /\ UNCHANGED <<scorers, config, masks, clusters, workVars, api, checkVars,
                 outdated, edits>>

\* List the scorers and the clusters; the masks are those of the Get.
ReconcileList ==
  /\ pc = "list"
  /\ \/ /\ snapshot' = [masks |-> snapshot.masks, scorers |-> scorers]
        /\ todo' = clusters
        /\ pc' = "apply"
        /\ UNCHANGED <<queued, failures>>
     \/ Failure /\ Retry
  /\ UNCHANGED <<hubVars, api, checkVars, outdated, edits>>

\* Mutant of SameSummaries: only the scorers' names are compared.
SameNames(c, new) ==
  /\ worksSeen[c] # NoWork
  /\ {x.name : x \in worksSeen[c]} = {x.name : x \in new}

\* The comparison is with the cached copy.
SameSummaries(c, new) == worksSeen[c] = new

\* What a reconcile leaves of c's work because the cached copy says so is
\* overlooked if that copy is not current.
LeaveWork(c) ==
  /\ overlooked' = IF c \in behind THEN overlooked \cup {c}
                   ELSE overlooked \ {c}
  /\ UNCHANGED <<works, behind>>

\* The API server takes the work: a Create if there is none yet, an Update if
\* the cached copy is the current one.  A namespace that is gone refuses both.
Accepted(c) ==
  /\ c \in clusters
  /\ IF worksSeen[c] = NoWork THEN works[c] = NoWork ELSE c \notin behind

\* updateConfigManifestWork for one cluster of the list.
ApplyWork(c) ==
  LET new == Summaries(snapshot.scorers, snapshot.masks[c]) IN
  /\ pc = "apply" /\ c \in todo
  /\ \/ /\ SameSummaries(c, new) /\ LeaveWork(c)
        /\ todo' = todo \ {c}
        /\ UNCHANGED <<queued, pc, snapshot, failures>>
     \/ /\ ~SameSummaries(c, new) /\ Accepted(c)
        /\ Store(c, new) /\ overlooked' = overlooked \ {c}
        /\ todo' = todo \ {c}
        /\ UNCHANGED <<queued, pc, snapshot, failures>>
     \/ /\ ~SameSummaries(c, new) /\ ~Accepted(c)
        /\ Retry /\ UNCHANGED <<works, behind, overlooked, failures>>
     \/ /\ ~SameSummaries(c, new) /\ Failure
        /\ Retry /\ UNCHANGED <<works, behind, overlooked>>
     \/ /\ Failure                    \* the error of the Get is only logged
        /\ todo' = todo \ {c} /\ overlooked' = overlooked \cup {c}
        /\ UNCHANGED <<works, behind, queued, pc, snapshot>>
  /\ UNCHANGED <<scorers, config, finalizer, masks, clusters, worksSeen, api,
                 checkVars, outdated, edits>>

ReconcileDone ==
  /\ pc = "apply" /\ todo = {}
  /\ pc' = "idle" /\ snapshot' = NoWork
  /\ UNCHANGED <<hubVars, api, queued, todo, checkVars, outdated, edits,
                 failures>>

\* deleteConfigManifestWork for one cluster: what the cache does not hold is
\* "nothing to delete", and the error of a deletion is only logged.
DeleteWork(c) ==
  /\ pc = "delete" /\ c \in todo
  /\ todo' = todo \ {c}
  /\ \/ /\ worksSeen[c] = NoWork /\ LeaveWork(c)
        /\ UNCHANGED failures
     \/ /\ worksSeen[c] # NoWork
        /\ Store(c, NoWork) /\ overlooked' = overlooked \ {c}
        /\ UNCHANGED failures
     \/ /\ Failure /\ overlooked' = overlooked \cup {c}
        /\ UNCHANGED <<works, behind>>
  /\ UNCHANGED <<scorers, config, finalizer, masks, clusters, worksSeen, api,
                 queued, pc, snapshot, checkVars, outdated, edits>>

RemoveFinalizer ==
  /\ pc = "delete" /\ todo = {}
  /\ \/ /\ config' = "absent" /\ finalizer' = FALSE
        /\ pc' = "idle" /\ snapshot' = NoWork
        /\ UNCHANGED <<queued, todo, failures>>
     \/ Failure /\ Retry /\ UNCHANGED <<config, finalizer>>
  /\ UNCHANGED <<scorers, masks, clusters, workVars, api, checkVars, outdated,
                 edits>>

ReconcileNext ==
  \/ ReconcileStart \/ ReconcileList \/ ReconcileDone \/ RemoveFinalizer
  \/ \E c \in Clusters : ApplyWork(c) \/ DeleteWork(c)

-----------------------------------------------------------------------------
(***************************************************************************)
(* startPeriodicHealthCheck.                                               *)
(***************************************************************************)

\* A tick: list the scorers.
HealthTick ==
  /\ Present # {} /\ asked = NoScorer /\ \A s \in Scorers : listed[s] = NoScorer
  /\ listed' = scorers
  /\ outdated' = {}
  /\ UNCHANGED <<hubVars, api, queued, reconcileVars, asked, answer, edits,
                 failures>>

\* The HTTP request of syncScoringConfig or syncScoringHealthz.
AskApi(s) ==
  /\ asked = NoScorer /\ listed[s] # NoScorer
  /\ asked' = s
  /\ answer' = api[listed[s].spec.configHost]
  /\ UNCHANGED <<hubVars, api, queued, reconcileVars, listed, outdated, edits,
                 failures>>

\* What the answer makes of the listed object: mode Full takes any JSON body,
\* whatever the status code, mode None only looks at /healthz.
Checked(s) ==
  IF s.spec.mode = "Full"
  THEN CASE answer.status = "down"  -> [s EXCEPT !.health = "Inactive"]
         [] answer.status = "error" -> [s EXCEPT !.health = "Active",
                                                 !.synced = EmptyConfig]
         [] answer.status = "ok"    -> [s EXCEPT !.health = "Active",
                                                 !.synced = answer.config]
  ELSE [s EXCEPT !.health = IF answer.status # "down" /\ answer.healthz
                            THEN "Active" ELSE "Inactive"]

\* Mutant of UpToDate: the update carries no resource version.
Exists(s) == scorers[s] # NoScorer

UpToDate(s) == s \notin outdated

\* Status().Update of the listed object when its status changed; a conflict or
\* an error is only logged.
WriteStatus ==
  LET new == Checked(listed[asked]) IN
  /\ asked # NoScorer
  /\ \/ /\ new # listed[asked] /\ UpToDate(asked)
        /\ scorers' = [scorers EXCEPT ![asked].synced = new.synced,
                                      ![asked].health = new.health]
        /\ queued' = TRUE
        /\ UNCHANGED failures
     \/ /\ new = listed[asked] \/ ~UpToDate(asked)
        /\ UNCHANGED <<scorers, queued, failures>>
     \/ new # listed[asked] /\ Failure /\ UNCHANGED <<scorers, queued>>
  /\ listed' = [listed EXCEPT ![asked] = NoScorer]
  /\ asked' = NoScorer /\ answer' = NoAnswer
  /\ UNCHANGED <<config, finalizer, masks, clusters, workVars, api,
                 reconcileVars, outdated, edits>>

HealthNext == HealthTick \/ WriteStatus \/ \E s \in Scorers : AskApi(s)

-----------------------------------------------------------------------------
Next == EnvNext \/ ReconcileNext \/ HealthNext

Spec == Init /\ [][Next]_vars

(***************************************************************************)
(* The controller's goroutines run, the timer ticks, the cache catches up  *)
(* with every write and resyncs.                                           *)
(***************************************************************************)
FairSpec ==
  /\ Spec /\ WF_vars(ReconcileNext) /\ WF_vars(HealthNext) /\ WF_vars(Resync)
  /\ \A c \in Clusters : WF_vars(ObserveWork(c))

-----------------------------------------------------------------------------
(***************************************************************************)
(* Properties.                                                             *)
(***************************************************************************)

\* A health check never brings a scorer a config that was asked from another
\* host, or in another mode, than its spec says: whatever the user changes
\* while the request is out, the resource version refuses the result.
SyncedFromOwnApi ==
  [][\A s \in Scorers :
       /\ scorers[s] # NoScorer /\ scorers'[s] # NoScorer
       /\ scorers'[s].synced # scorers[s].synced
       => /\ asked = s /\ listed[s].spec = scorers[s].spec
          /\ scorers[s].spec.mode = "Full"]_vars

\* Once nobody edits any more, every managed cluster gets and keeps the
\* summaries of the scorers as they are, whenever it joined, whatever write
\* failed or lost against an edit, and however late the cache was.
WorksConverge ==
  <>[](config = "present" =>
         \A c \in clusters : works[c] = Summaries(scorers, masks[c]))

\* "delete existing ManifestWorks if config is deleted"
\* (dynamicscoringconfig_controller.go:82): a deleted config leaves no
\* ManifestWork behind, at whatever point of a reconcile it was deleted, but
\* those that its last reconcile overlooked: the error of a deletion is dropped
\* (lines 93-98), and a work the cache does not hold yet is "nothing to delete"
\* (line 414).
DeletedConfigLeavesNoWorks ==
  config = "absent" /\ pc = "idle" =>
    \A c \in Clusters \ overlooked : works[c] = NoWork

=============================================================================
