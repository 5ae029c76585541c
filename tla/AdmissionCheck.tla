--------------------------- MODULE AdmissionCheck ---------------------------
(***************************************************************************)
(* The admission check controller of the kueue addon                       *)
(* (kueue-addon/pkg/hub/controllers/admissioncheck).                       *)
(*                                                                         *)
(* An AdmissionCheck names a Placement.  Its one worker writes the clusters*)
(* that the Placement's decisions list to the MultiKueueConfig of the same *)
(* name as the Placement, and the outcome to the status of the check.      *)
(*                                                                         *)
(* The controller reads checks and placements from informer caches, which  *)
(* lag behind the API server: `behind' holds the checks whose cached copy  *)
(* is not the current object, `seen' is the cached decisions.  An update of*)
(* a cache queues the keys of the checks concerned.  Its writes to a check *)
(* carry the resource version of the copy that the sync started with, and  *)
(* `outdated' says that the object has been written since.  A Placement and*)
(* its PlacementDecisions count as one object.                             *)
(***************************************************************************)
EXTENDS Naturals, FiniteSets

CONSTANTS
  Checks,         \* names of AdmissionChecks
  Placements,     \* names of Placements, and so of MultiKueueConfigs
  Clusters,
  Names,          \* <<check, placement>>: the placements a check may name
  NoCheck, NoPlacement, NoConfig,
  MaxEdits,       \* bound on changes of checks and placements
  MaxFailures     \* bound on failing calls to the API server

VARIABLES
  checks,         \* the AdmissionChecks
  decisions,      \* the clusters a placement selects, or NoPlacement
  config,         \* the clusters of the MultiKueueConfigs, or NoConfig
  cache, behind,  \* the lister's checks; those that are not current
  seen,           \* the lister's decisions
  queue,          \* the workqueue
  pc, current,    \* where sync is, and the key it handles
  snap,           \* its copy of the check
  want,           \* the clusters it is to write
  verdict,        \* the reason of the condition it is to report
  outdated,
  edits, failures

objects  == <<checks, decisions, config>>
caches   == <<cache, behind, seen>>
syncVars == <<pc, current, snap, want, verdict, outdated>>
vars == <<objects, caches, queue, syncVars, edits, failures>>

\* Reasons of the Active condition; only "Active" makes it true.
Reasons == {"", "Active", "NoClusters", "NotFound", "Error"}

Check == [placement : Placements, deleting : BOOLEAN, finalizer : BOOLEAN,
          reason : Reasons]

ASSUME SentinelAssumption ==
  /\ NoCheck \notin Check \cup Checks
  /\ \A cs \in SUBSET Clusters : cs # NoPlacement /\ cs # NoConfig

ASSUME BoundsAssumption == MaxEdits \in Nat /\ MaxFailures \in Nat

TypeOK ==
  /\ checks \in [Checks -> Check \cup {NoCheck}]
  /\ cache \in [Checks -> Check \cup {NoCheck}]
  /\ decisions \in [Placements -> (SUBSET Clusters) \cup {NoPlacement}]
  /\ seen \in [Placements -> (SUBSET Clusters) \cup {NoPlacement}]
  /\ config \in [Placements -> ((SUBSET Clusters) \ {{}}) \cup {NoConfig}]
  /\ behind \subseteq Checks
  /\ queue \subseteq Checks
  /\ pc \in {"idle", "finalizer", "write", "delete", "status", "cleanup",
             "release"}
  /\ current \in Checks \cup {NoCheck}
  /\ snap \in Check \cup {NoCheck}
  /\ pc # "idle" => current # NoCheck /\ snap # NoCheck
  /\ want \subseteq Clusters
  /\ pc = "write" => want # {}
  /\ verdict \in Reasons
  /\ outdated \in BOOLEAN
  /\ edits \in 0..MaxEdits
  /\ failures \in 0..MaxFailures

Init ==
  /\ checks = [a \in Checks |-> NoCheck]
  /\ decisions = [p \in Placements |-> NoPlacement]
  /\ config = [p \in Placements |-> NoConfig]
  /\ cache = checks /\ behind = {} /\ seen = decisions
  /\ queue = {}
  /\ pc = "idle" /\ current = NoCheck /\ snap = NoCheck
  /\ want = {} /\ verdict = "" /\ outdated = FALSE
  /\ edits = 0 /\ failures = 0

-----------------------------------------------------------------------------
(***************************************************************************)
(* Users, the placement controller, and the informers.                     *)
(***************************************************************************)

\* Check a becomes `new', whoever writes it.
Store(a, new) ==
  /\ checks' = [checks EXCEPT ![a] = new]
  /\ behind' = behind \cup {a}

Edit == edits < MaxEdits /\ edits' = edits + 1

\* A check is created, is pointed at another placement, or is deleted: without
\* a finalizer it is gone at once.
EditCheck(a) ==
  /\ Edit
  /\ \/ \E p \in Placements :
          /\ <<a, p>> \in Names
          /\ \/ /\ checks[a] = NoCheck
                /\ Store(a, [placement |-> p, deleting |-> FALSE,
                             finalizer |-> FALSE, reason |-> ""])
             \/ /\ checks[a] # NoCheck /\ checks[a].placement # p
                /\ Store(a, [checks[a] EXCEPT !.placement = p])
     \/ /\ checks[a] # NoCheck /\ ~checks[a].deleting
        /\ Store(a, IF checks[a].finalizer
                    THEN [checks[a] EXCEPT !.deleting = TRUE] ELSE NoCheck)
  /\ outdated' = (outdated \/ a = current)
  /\ UNCHANGED <<decisions, config, cache, seen, queue, pc, current, snap,
                 want, verdict, failures>>

\* A placement appears, selects other clusters, or is deleted.
EditPlacement(p) ==
  /\ Edit
  /\ \E d \in (SUBSET Clusters) \cup {NoPlacement} :
       d # decisions[p] /\ decisions' = [decisions EXCEPT ![p] = d]
  /\ UNCHANGED <<checks, config, caches, queue, syncVars, failures>>

\* The informer catches up with check a, and queues its key.
ObserveCheck(a) ==
  /\ a \in behind
  /\ cache' = [cache EXCEPT ![a] = checks[a]]
  /\ behind' = behind \ {a}
  /\ queue' = queue \cup {a}
  /\ UNCHANGED <<objects, seen, syncVars, edits, failures>>

\* Mutant of Indexed: the index misses checks that are not active.
IndexedActive(p) ==
  {a \in Checks : /\ cache[a] # NoCheck /\ cache[a].placement = p
                  /\ cache[a].reason = "Active"}

\* The index of the cached checks by the placement they name.
Indexed(p) == {a \in Checks : cache[a] # NoCheck /\ cache[a].placement = p}

\* The informers catch up with placement p and its decisions.
ObservePlacement(p) ==
  /\ seen[p] # decisions[p]
  /\ seen' = [seen EXCEPT ![p] = decisions[p]]
  /\ queue' = queue \cup Indexed(p)
  /\ UNCHANGED <<objects, cache, behind, syncVars, edits, failures>>

-----------------------------------------------------------------------------
(***************************************************************************)
(* sync.  An error it returns queues the key again.                        *)
(***************************************************************************)
Failure == failures < MaxFailures /\ failures' = failures + 1

\* Mutant of Requeued: an error is only logged.
RequeuedNever(again) == queue

Requeued(again) == IF again THEN queue \cup {current} ELSE queue

Finish(again) ==
  /\ queue' = Requeued(again)
  /\ pc' = "idle" /\ current' = NoCheck /\ snap' = NoCheck
  /\ want' = {} /\ verdict' = "" /\ outdated' = FALSE

\* Mutant of FirstStep: no clusters are written like some.
FirstStepNoEmpty(c) ==
  IF c.deleting THEN "cleanup"
  ELSE IF ~c.finalizer THEN "finalizer"
  ELSE IF seen[c.placement] = NoPlacement THEN "status" ELSE "write"

\* Where the cached check and its cached placement lead.
FirstStep(c) ==
  IF c.deleting THEN "cleanup"
  ELSE IF ~c.finalizer THEN "finalizer"
  ELSE IF seen[c.placement] = NoPlacement THEN "status"
  ELSE IF seen[c.placement] = {} THEN "delete"
  ELSE "write"

\* The worker takes a key and reads the caches.
Begin(a) ==
  /\ pc = "idle" /\ a \in queue
  /\ queue' = queue \ {a}
  /\ IF cache[a] = NoCheck \/ (cache[a].deleting /\ ~cache[a].finalizer)
     THEN UNCHANGED syncVars
     ELSE /\ current' = a /\ snap' = cache[a]
          /\ outdated' = (a \in behind)
          /\ pc' = FirstStep(cache[a])
          /\ want' = IF pc' = "write" THEN seen[cache[a].placement] ELSE {}
          /\ verdict' = IF pc' = "status" THEN "NotFound" ELSE ""
  /\ UNCHANGED <<objects, caches, edits, failures>>

\* AddFinalizer; the update it makes is the event for the next sync.
AddFinalizer ==
  /\ pc = "finalizer"
  /\ \/ /\ ~outdated
        /\ Store(current, [checks[current] EXCEPT !.finalizer = TRUE])
        /\ Finish(FALSE) /\ UNCHANGED failures
     \/ outdated /\ Finish(TRUE) /\ UNCHANGED <<checks, behind, failures>>
     \/ Failure /\ Finish(TRUE) /\ UNCHANGED <<checks, behind>>
  /\ UNCHANGED <<decisions, config, cache, seen, edits>>

ToStatus(reason) ==
  /\ pc' = "status" /\ verdict' = reason
  /\ UNCHANGED <<queue, current, snap, want, outdated>>

\* createOrUpdateMultiKueueConfig.
WriteConfig ==
  /\ pc = "write"
  /\ \/ /\ config' = [config EXCEPT ![snap.placement] = want]
        /\ ToStatus("Active") /\ UNCHANGED failures
     \/ Failure /\ ToStatus("Error") /\ UNCHANGED config
  /\ UNCHANGED <<checks, decisions, caches, edits>>

\* deleteMultiKueueConfig for a placement that selects no cluster.
DeleteConfig ==
  /\ pc = "delete"
  /\ \/ /\ config' = [config EXCEPT ![snap.placement] = NoConfig]
        /\ ToStatus("NoClusters") /\ UNCHANGED failures
     \/ Failure /\ ToStatus("Error") /\ UNCHANGED config
  /\ UNCHANGED <<checks, decisions, caches, edits>>

\* The errors of a placement and of a config are returned after the status.
Failed == verdict \in {"NotFound", "Error"}

\* Mutant of Refused: the patch carries no resource version.
RefusedWhenGone == checks[current] = NoCheck

Refused == outdated

\* PatchStatus: no call when nothing changed.
PatchStatus ==
  /\ pc = "status"
  /\ \/ /\ snap.reason = verdict
        /\ Finish(Failed) /\ UNCHANGED <<checks, behind, failures>>
     \/ /\ snap.reason # verdict /\ ~Refused
        /\ Store(current, [checks[current] EXCEPT !.reason = verdict])
        /\ Finish(Failed) /\ UNCHANGED failures
     \/ /\ snap.reason # verdict /\ Refused
        /\ Finish(TRUE) /\ UNCHANGED <<checks, behind, failures>>
     \/ /\ snap.reason # verdict /\ Failure
        /\ Finish(TRUE) /\ UNCHANGED <<checks, behind>>
  /\ UNCHANGED <<decisions, config, cache, seen, edits>>

\* cleanupAdmissionCheckResources: the error of the deletion is only logged.
Cleanup ==
  /\ pc = "cleanup"
  /\ \/ /\ config' = [config EXCEPT ![snap.placement] = NoConfig]
        /\ UNCHANGED failures
     \/ Failure /\ UNCHANGED config
  /\ pc' = "release"
  /\ UNCHANGED <<checks, decisions, caches, queue, current, snap, want,
                 verdict, outdated, edits>>

RemoveFinalizer ==
  /\ pc = "release"
  /\ \/ /\ ~outdated /\ Store(current, NoCheck)
        /\ Finish(FALSE) /\ UNCHANGED failures
     \/ outdated /\ Finish(TRUE) /\ UNCHANGED <<checks, behind, failures>>
     \/ Failure /\ Finish(TRUE) /\ UNCHANGED <<checks, behind>>
  /\ UNCHANGED <<decisions, config, cache, seen, edits>>

-----------------------------------------------------------------------------
EnvNext ==
  \/ \E a \in Checks : EditCheck(a) \/ ObserveCheck(a)
  \/ \E p \in Placements : EditPlacement(p) \/ ObservePlacement(p)

Step ==
  \/ AddFinalizer \/ WriteConfig \/ DeleteConfig \/ PatchStatus
  \/ Cleanup \/ RemoveFinalizer

Next == EnvNext \/ Step \/ \E a \in Checks : Begin(a)

Spec == Init /\ [][Next]_vars

(***************************************************************************)
(* The informers deliver, and the worker runs; the workqueue is first-in   *)
(* first-out, so that a key that is queued again and again does not keep   *)
(* another one waiting.  The resync of the informers is not needed.        *)
(***************************************************************************)
FairSpec ==
  /\ Spec
  /\ \A a \in Checks : WF_vars(ObserveCheck(a)) /\ SF_vars(Begin(a))
  /\ \A p \in Placements : WF_vars(ObservePlacement(p))
  /\ WF_vars(Step)

-----------------------------------------------------------------------------
(***************************************************************************)
(* Properties.                                                             *)
(***************************************************************************)

\* The MultiKueueConfig and the status of check a are what the decisions of
\* its placement ask for.
Matches(a) ==
  LET c == checks[a]
      d == decisions[c.placement] IN
  /\ c.finalizer /\ ~c.deleting
  /\ CASE d = NoPlacement -> FALSE
       [] d = {}          -> /\ config[c.placement] = NoConfig
                             /\ c.reason = "NoClusters"
       [] OTHER           -> config[c.placement] = d /\ c.reason = "Active"

\* The controller is going to look at check a.
Pending(a) ==
  \/ a \in queue \cup behind \cup {current}
  \/ seen[checks[a].placement] # decisions[checks[a].placement]

\* "Sync ensures that MultiKueueConfig and MultiKueueCluster resources match
\* the current PlacementDecision state for the given AdmissionCheck"
\* (admissioncheck/controller.go:84): a check that nothing is pending for
\* matches its placement's decisions, whatever events, conflicts and failures
\* came before; one that is being deleted or has no placement stays pending.
NoLostWork ==
  \A a \in Checks : checks[a] # NoCheck => Pending(a) \/ Matches(a)

\* What shows of the controller: the placements that the checks name, those that
\* are Active, and the decision that the sync has read and not reported yet.
Named == [a \in Checks |-> IF checks[a] = NoCheck THEN NoCheck
                           ELSE checks[a].placement]

ActiveChecks ==
  {a \in Checks : checks[a] # NoCheck /\ checks[a].reason = "Active"}

Hand ==
  IF pc \in {"write", "delete"} \/ verdict \in {"Active", "NoClusters"}
  THEN {[placement |-> snap.placement, clusters |-> want,
         published |-> pc = "status"]}
  ELSE {}

Published == INSTANCE PublishedDecisions WITH
  names <- Named, active <- ActiveChecks, source <- decisions, known <- seen,
  hand <- Hand, shown <- config

\* The controller implements PublishedDecisions: whatever its caches, conflicts
\* and failing calls, a config never goes back to older decisions, and a check
\* turns Active only with the clusters that its sync has written for the
\* placement that it still names.
PublishesDecisions == Published!Spec

\* Once nobody edits any more, every check whose placement exists comes to
\* match it for good, and deleted checks go away.
ChecksConverge ==
  \A a \in Checks :
    <>[](/\ checks[a] # NoCheck
         /\ checks[a].deleting \/ decisions[checks[a].placement] # NoPlacement
         => Matches(a))

=============================================================================
