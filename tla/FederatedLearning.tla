------------------------- MODULE FederatedLearning -------------------------
(***************************************************************************)
(* The FederatedLearning controller                                        *)
(* (federated-learning-controller/internal/controller).                    *)
(*                                                                         *)
(* One FederatedLearning and the controller's one worker.  Reconcile walks *)
(* through its calls one by one, on a copy of the object in memory, and    *)
(* ends with an update of the status from that copy.  An OpenFL training   *)
(* (behind a LoadBalancer or a NodePort) keeps a Placement, a Service, a   *)
(* Job and one ManifestWork per selected cluster; a Flower training keeps a*)
(* Placement, a Deployment and a ManifestWorkReplicaSet.                   *)
(*                                                                         *)
(* Typed reads come from informer caches that lag behind the API server:   *)
(* `cache' is the cached FederatedLearning, `jobSeen' the cached Job,      *)
(* "new" a Placement or a Service and `unseen' the works that a cache does *)
(* not hold yet.  The deployer's unstructured reads are live.  A write     *)
(* carries the resource version of the copy: `fresh' says it is current.   *)
(* Storage, the choice of an address and the deployer are in FLServer; the *)
(* status message and the cluster set bindings are left out.               *)
(***************************************************************************)
EXTENDS Naturals, FiniteSets

CONSTANTS
  Clusters,
  Claimed,        \* clusters that have the claim naming their data
  Kinds,          \* the kinds of training that may be created
  MinClients,     \* spec.server.minAvailableClients
  Addresses,      \* addresses the Service may be given
  Gone, NoJob, NoWork, NoAddress,
  MaxEdits,       \* bound on changes by users, placement and network
  MaxFailures,    \* bound on failing calls to the API server
  MaxRestarts     \* bound on restarts of the controller

AllKinds == {"LoadBalancer", "NodePort", "Flower"}

ASSUME KindsAssumption ==
  Kinds \subseteq AllKinds /\ Claimed \subseteq Clusters /\ MinClients \in Nat

ASSUME BoundsAssumption ==
  MaxEdits \in Nat /\ MaxFailures \in Nat /\ MaxRestarts \in Nat

VARIABLES
  kind,           \* framework and listener type, fixed by the user
  inst,           \* the FederatedLearning at the API server, or Gone
  placement,      \* "none", "new" (not cached) or "seen"
  decided,        \* the clusters of its PlacementDecisions
  service, ingress,
  job,            \* the server Job, or NoJob
  works,          \* the ManifestWork of each cluster, or NoWork
  serverApp, replicaSet,
  cache, jobSeen, unseen,
  queued,         \* the key waits in the workqueue
  pc,             \* the next step of Reconcile, or "idle"
  mem, fresh,     \* its copy of the FederatedLearning
  todo,           \* clusters it still has to handle
  requeue,        \* whether it asks to be called again
  lost,           \* history: clusters that left the decisions, or whose
                  \* work the clean-up did not see
  edits, failures, restarts

selection == <<placement, decided>>
endpoint  == <<service, ingress>>
clients   == <<works, unseen>>
flower    == <<serverApp, replicaSet>>
hub    == <<selection, endpoint, job, clients, flower>>
copies == <<cache, jobSeen>>
run    == <<pc, mem, fresh, todo, requeue>>
bounds == <<edits, failures, restarts>>
vars   == <<kind, inst, hub, copies, queued, run, lost, bounds>>

Phases == {"", "Waiting", "Running", "Completed", "Failed"}

Instance == [phase : Phases, address : Addresses \cup {NoAddress},
             spec : 0..MaxEdits, deleting : BOOLEAN, finalizer : BOOLEAN]
Job  == [clusters : SUBSET Clusters, spec : 0..MaxEdits,
         address : Addresses \cup {NoAddress}, done : BOOLEAN,
         deleting : BOOLEAN]
Work == [spec : 0..MaxEdits, address : Addresses]

\* What stands for no object is none.
ASSUME SentinelAssumption ==
  /\ Gone \notin Instance /\ NoJob \notin Job /\ NoWork \notin Work
  /\ NoAddress \notin Addresses

Steps == {"idle", "finalizer", "phase", "placement", "service", "job",
          "address", "client", "decisions", "works", "running", "serverApp",
          "clientApp", "check", "pruneServer", "pruneClient", "pruneWorks",
          "removeFinalizer", "end"}

TypeOK ==
  /\ kind \in Kinds
  /\ {inst, cache, mem} \subseteq Instance \cup {Gone}
  /\ placement \in {"none", "new", "seen"}
  /\ service \in {"none", "new", "seen"}
  /\ decided \subseteq Clusters /\ todo \subseteq Clusters
  /\ unseen \subseteq Clusters /\ lost \subseteq Clusters
  /\ ingress \in Addresses \cup {NoAddress}
  /\ job \in Job \cup {NoJob}
  /\ jobSeen \in {"none", "running", "done"}
  /\ works \in [Clusters -> Work \cup {NoWork}]
  /\ {serverApp, replicaSet, queued, fresh, requeue} \subseteq BOOLEAN
  /\ pc \in Steps
  /\ edits \in 0..MaxEdits /\ failures \in 0..MaxFailures
  /\ restarts \in 0..MaxRestarts

Created == [phase |-> "", address |-> NoAddress, spec |-> 0,
            deleting |-> FALSE, finalizer |-> FALSE]

\* A new FederatedLearning, seen by the controller.
Init ==
  /\ kind \in Kinds
  /\ inst = Created /\ cache = Created
  /\ placement = "none" /\ decided = {}
  /\ service = "none" /\ ingress = NoAddress
  /\ job = NoJob /\ jobSeen = "none"
  /\ works = [c \in Clusters |-> NoWork] /\ unseen = {}
  /\ serverApp = FALSE /\ replicaSet = FALSE
  /\ queued = TRUE
  /\ pc = "idle" /\ mem = Gone /\ fresh = FALSE
  /\ todo = {} /\ requeue = FALSE
  /\ lost = {}
  /\ edits = 0 /\ failures = 0 /\ restarts = 0

HasWork(c) == works[c] # NoWork

----------------------------------------------------------------------------
\* How Reconcile continues

Goto(step) == pc' = step

\* Mutant of Retry: no requeue after 5 s.
RetryNever == Goto("end") /\ requeue' = FALSE

\* A call returned an error that Reconcile's own err does not hold, or the
\* phase asks for another call: leave, and be called again.
Retry == Goto("end") /\ requeue' = TRUE

Leave == Goto("end") /\ requeue' = FALSE

\* Mutant of Fail: message and phase are swapped.
FailSwapped == Retry /\ mem' = [mem EXCEPT !.phase = "error"]

\* Reconcile's own err is set: its deferred function turns the phase to Failed.
Fail == Retry /\ mem' = [mem EXCEPT !.phase = "Failed"]

\* The status of the API server's object becomes that of m.
WithStatus(m) == [inst EXCEPT !.phase = m.phase, !.address = m.address]

\* Mutant of Save: the error of the update is ignored.
SaveIgnoring(step) ==
  /\ inst' = IF fresh THEN WithStatus(mem') ELSE inst
  /\ Goto(step) /\ UNCHANGED requeue

\* The status of the changed copy is written; a conflict is returned.
Save(step) ==
  IF fresh
  THEN inst' = WithStatus(mem') /\ Goto(step) /\ UNCHANGED requeue
  ELSE Retry /\ UNCHANGED inst

----------------------------------------------------------------------------
\* Reconcile: finalizer and phases

\* Deletion comes before the phases, so a Failed training is cleaned up too.
FirstStep == IF cache.deleting THEN "pruneServer" ELSE "finalizer"

\* Mutant of CacheIsCurrent: writes carry no resource version.
CacheAccepted == inst # Gone

CacheIsCurrent == cache = inst

Begin ==
  /\ pc = "idle" /\ queued
  /\ queued' = FALSE
  /\ IF cache = Gone
     THEN UNCHANGED run
     ELSE /\ mem' = cache /\ fresh' = CacheIsCurrent
          /\ Goto(FirstStep)
          /\ requeue' = FALSE
          /\ UNCHANGED todo
  /\ UNCHANGED <<kind, inst, hub, copies, lost, bounds>>

AfterFinalizer ==
  CASE mem.phase = "Failed"                  -> "end"
    [] mem.phase = ""                        -> "phase"
    [] mem.phase \in {"Waiting", "Running"}  -> "placement"
    [] mem.phase = "Completed" -> IF kind = "Flower" THEN "end" ELSE "check"

AddFinalizer ==
  /\ pc = "finalizer"
  /\ IF mem.finalizer
     THEN Goto(AfterFinalizer) /\ UNCHANGED <<inst, mem, requeue>>
     ELSE IF fresh
          THEN /\ inst' = [inst EXCEPT !.finalizer = TRUE]
               /\ mem' = inst'
               /\ Goto(AfterFinalizer) /\ UNCHANGED requeue
          ELSE Fail /\ UNCHANGED inst
  /\ UNCHANGED <<kind, hub, copies, queued, fresh, todo, lost, bounds>>

StartWaiting ==
  /\ pc = "phase"
  /\ mem' = [mem EXCEPT !.phase = "Waiting"]
  /\ Save("placement")
  /\ UNCHANGED <<kind, hub, copies, queued, fresh, todo, lost, bounds>>

\* A Placement that the cache lacks is created; when it exists the API server
\* refuses.
DeployPlacement ==
  /\ pc = "placement"
  /\ IF placement = "new"
     THEN Fail /\ UNCHANGED placement
     ELSE /\ placement' = IF placement = "none" THEN "new" ELSE placement
          /\ Goto(IF kind = "Flower" THEN "serverApp" ELSE "service")
          /\ UNCHANGED <<mem, requeue>>
  /\ UNCHANGED <<kind, inst, decided, endpoint, job, clients, flower, copies,
                 queued, fresh, todo, lost, bounds>>

----------------------------------------------------------------------------
\* Reconcile: the OpenFL server

LoadBalancerService ==
  IF kind = "LoadBalancer" /\ service = "none" THEN "new" ELSE service

AddressAssigned == service = "seen" /\ ingress # NoAddress

\* A LoadBalancer's Service comes first, and its address before the Job.
DeployService ==
  /\ pc = "service"
  /\ service' = LoadBalancerService
  /\ IF kind = "LoadBalancer" /\ ~AddressAssigned
     THEN Retry
     ELSE Goto("job") /\ UNCHANGED requeue
  /\ UNCHANGED <<kind, inst, selection, ingress, job, clients, flower, copies,
                 queued, mem, fresh, todo, lost, bounds>>

\* The Job that the copy and the decisions ask for.
Desired ==
  [clusters |-> decided, spec |-> mem.spec,
   address |-> IF kind = "LoadBalancer" THEN ingress ELSE NoAddress,
   done |-> FALSE, deleting |-> FALSE]

SameSpec(j, k) ==
  j.clusters = k.clusters /\ j.spec = k.spec /\ j.address = k.address

\* A Job cannot be changed: one that differs is deleted in the foreground, which
\* keeps it at the API server until its pods are gone.
Deployed ==
  IF job = NoJob THEN Desired
  ELSE IF SameSpec(job, Desired) THEN job
  ELSE [job EXCEPT !.deleting = TRUE]

\* The decisions are found through the cached Placement.
DecisionsReadable == placement = "seen"

DeployJob ==
  /\ pc = "job"
  /\ IF DecisionsReadable
     THEN /\ job' = Deployed
          /\ service' = IF service = "none" THEN "new" ELSE service
          /\ ingress' \in IF kind = "NodePort" /\ service = "none"
                          THEN Addresses ELSE {ingress}
          /\ Goto("address") /\ UNCHANGED requeue
     ELSE Retry /\ UNCHANGED <<job, endpoint>>
  /\ UNCHANGED <<kind, inst, selection, clients, flower, copies, queued, mem,
                 fresh, todo, lost, bounds>>

UpdateAddress ==
  /\ pc = "address"
  /\ IF AddressAssigned
     THEN mem' = [mem EXCEPT !.address = ingress] /\ Save("client")
     ELSE Retry /\ UNCHANGED <<inst, mem>>
  /\ UNCHANGED <<kind, hub, copies, queued, fresh, todo, lost, bounds>>

----------------------------------------------------------------------------
\* Reconcile: the OpenFL clients

Enough == Cardinality(decided) >= MinClients

\* The number of selected clusters is read with the Placement, the decisions
\* in a later call.
CountClients ==
  /\ pc = "client"
  /\ Goto(IF Enough THEN "decisions" ELSE "check")
  /\ UNCHANGED <<kind, inst, hub, copies, queued, mem, fresh, todo, requeue,
                 lost, bounds>>

ReadDecisions ==
  /\ pc = "decisions"
  /\ todo' = decided
  /\ Goto("works")
  /\ UNCHANGED <<kind, inst, hub, copies, queued, mem, fresh, requeue, lost,
                 bounds>>

\* A cluster without the claim ends the round; those before it have their works.
PlaceWork(c) ==
  IF c \in Claimed /\ mem.address # NoAddress
  THEN /\ works' = [works EXCEPT ![c] = [spec |-> mem.spec,
                                         address |-> mem.address]]
       /\ unseen' = IF HasWork(c) THEN unseen ELSE unseen \cup {c}
       /\ todo' = todo \ {c}
       /\ UNCHANGED <<pc, requeue>>
  ELSE Retry /\ UNCHANGED <<clients, todo>>

DeployWork ==
  /\ pc = "works"
  /\ IF todo = {}
     THEN Goto("running") /\ UNCHANGED <<clients, todo, requeue>>
     ELSE \E c \in todo : PlaceWork(c)
  /\ UNCHANGED <<kind, inst, selection, endpoint, job, flower, copies, queued,
                 mem, fresh, lost, bounds>>

SwitchToRunning ==
  /\ pc = "running"
  /\ mem' = [mem EXCEPT !.phase = "Running"]
  /\ Save("check")
  /\ UNCHANGED <<kind, hub, copies, queued, fresh, todo, lost, bounds>>

----------------------------------------------------------------------------
\* Reconcile: Flower

DeployServerApp ==
  /\ pc = "serverApp"
  /\ serverApp' = TRUE
  /\ Goto("clientApp")
  /\ UNCHANGED <<kind, inst, selection, endpoint, job, clients, replicaSet,
                 copies, queued, mem, fresh, todo, requeue, lost, bounds>>

\* The Placement is read from the cache, which may lack the one just created.
DeployClientApp ==
  /\ pc = "clientApp"
  /\ \/ /\ placement # "seen"
        /\ Fail /\ UNCHANGED <<replicaSet, inst>>
     \/ /\ placement = "seen" /\ ~Enough
        /\ Retry /\ UNCHANGED <<replicaSet, inst, mem>>
     \/ /\ placement = "seen" /\ Enough
        /\ replicaSet' = TRUE
        /\ Retry
        /\ IF fresh \/ mem.phase = "Running"
           THEN /\ mem' = [mem EXCEPT !.phase = "Running"]
                /\ inst' = IF fresh THEN WithStatus(mem') ELSE inst
           ELSE /\ mem' = [mem EXCEPT !.phase = "Failed"]
                /\ UNCHANGED inst
  /\ UNCHANGED <<kind, selection, endpoint, job, clients, serverApp, copies,
                 queued, fresh, todo, lost, bounds>>

----------------------------------------------------------------------------
\* Reconcile: completion, and the end of every call

\* The Job is read from the cache, which may lack the one just created, hold the
\* one just deleted, or an unfinished one.
CheckJob ==
  /\ pc = "check"
  /\ \/ /\ mem.phase = "Waiting"
        /\ Retry /\ UNCHANGED <<mem, inst>>
     \/ /\ mem.phase # "Waiting" /\ jobSeen = "none"
        /\ Fail /\ UNCHANGED inst
     \/ /\ mem.phase # "Waiting" /\ jobSeen = "running"
        /\ IF mem.phase = "Running" THEN Retry ELSE Leave
        /\ UNCHANGED <<mem, inst>>
     \/ /\ mem.phase = "Completed" /\ jobSeen = "done"
        /\ Leave /\ UNCHANGED <<mem, inst>>
     \/ /\ mem.phase = "Running" /\ jobSeen = "done"
        /\ IF fresh
           THEN /\ mem' = [mem EXCEPT !.phase = "Completed"]
                /\ inst' = WithStatus(mem') /\ Leave
           ELSE Fail /\ UNCHANGED inst
  /\ UNCHANGED <<kind, hub, copies, queued, fresh, todo, lost, bounds>>

\* The deferred update of the status; its error is only logged.
Finish ==
  /\ pc = "end"
  /\ inst' = IF fresh THEN WithStatus(mem) ELSE inst
  /\ queued' = (queued \/ requeue)
  /\ Goto("idle") /\ mem' = Gone /\ fresh' = FALSE
  /\ todo' = {} /\ requeue' = FALSE
  /\ UNCHANGED <<kind, hub, copies, lost, bounds>>

----------------------------------------------------------------------------
\* Reconcile: deletion

\* The Service has no owner: one that the cache lacks stays.
PruneServer ==
  /\ pc = "pruneServer"
  /\ IF kind = "Flower"
     THEN serverApp' = FALSE /\ UNCHANGED <<endpoint>>
     ELSE /\ service' = IF service = "seen" THEN "none" ELSE service
          /\ ingress' = IF service = "seen" THEN NoAddress ELSE ingress
          /\ UNCHANGED serverApp
  /\ Goto("pruneClient")
  /\ UNCHANGED <<kind, inst, selection, job, clients, replicaSet, copies,
                 queued, mem, fresh, todo, requeue, lost, bounds>>

\* Mutant of FindWorks: the Placement is deleted before the works.
FindWorksLast ==
  /\ Goto("pruneWorks") /\ todo' = decided
  /\ placement' = "none" /\ decided' = {}

\* The works are found through the Placement's decisions.
FindWorks ==
  /\ Goto(IF placement = "seen" THEN "pruneWorks" ELSE "removeFinalizer")
  /\ todo' = decided
  /\ UNCHANGED <<selection>>

PruneClient ==
  /\ pc = "pruneClient"
  /\ IF kind = "Flower"
     THEN /\ replicaSet' = FALSE
          /\ placement' = IF placement = "seen" THEN "none" ELSE placement
          /\ decided' = IF placement = "seen" THEN {} ELSE decided
          /\ Goto("removeFinalizer") /\ UNCHANGED todo
     ELSE FindWorks /\ UNCHANGED replicaSet
  /\ UNCHANGED <<kind, inst, endpoint, job, clients, serverApp, copies, queued,
                 mem, fresh, requeue, lost, bounds>>

PruneWork ==
  /\ pc = "pruneWorks" /\ todo # {}
  /\ \E c \in todo :
       /\ todo' = todo \ {c}
       /\ works' = [works EXCEPT ![c] = IF c \in unseen THEN @ ELSE NoWork]
       /\ lost' = IF c \in unseen THEN lost \cup {c} ELSE lost
  /\ UNCHANGED <<kind, inst, selection, endpoint, job, unseen, flower, copies,
                 queued, pc, mem, fresh, requeue, bounds>>

PrunePlacement ==
  /\ pc = "pruneWorks" /\ todo = {}
  /\ placement' = "none" /\ decided' = {}
  /\ Goto("removeFinalizer")
  /\ UNCHANGED <<kind, inst, endpoint, job, clients, flower, copies, queued,
                 mem, fresh, todo, requeue, lost, bounds>>

\* What is deployed is owned by the training, except the Service.
CollectOwned ==
  /\ placement' = "none" /\ decided' = {} /\ job' = NoJob
  /\ serverApp' = FALSE /\ replicaSet' = FALSE

\* With the finalizer the object goes, and with it what it owns.
RemoveFinalizer ==
  /\ pc = "removeFinalizer"
  /\ \/ /\ ~mem.finalizer
        /\ Leave
        /\ UNCHANGED <<inst, selection, job, flower, mem, fresh>>
     \/ /\ mem.finalizer /\ ~fresh
        /\ Fail
        /\ UNCHANGED <<inst, selection, job, flower, fresh>>
     \/ /\ mem.finalizer /\ fresh
        /\ inst' = Gone /\ fresh' = FALSE
        /\ CollectOwned
        /\ Leave /\ UNCHANGED mem
  /\ UNCHANGED <<kind, endpoint, clients, copies, queued, todo, lost, bounds>>

ReconcileStep ==
  \/ Begin \/ AddFinalizer \/ StartWaiting \/ DeployPlacement
  \/ DeployService \/ DeployJob \/ UpdateAddress
  \/ CountClients \/ ReadDecisions \/ DeployWork \/ SwitchToRunning
  \/ DeployServerApp \/ DeployClientApp \/ CheckJob \/ Finish
  \/ PruneServer \/ PruneClient \/ PruneWork \/ PrunePlacement
  \/ RemoveFinalizer

----------------------------------------------------------------------------
\* Failing calls and restarts

\* Steps whose errors Reconcile's own err holds.
Fatal == {"finalizer", "placement", "serverApp", "clientApp", "check",
          "removeFinalizer"}

\* Whether the step makes a call at all.
Calls ==
  /\ pc # "idle"
  /\ pc = "finalizer" => ~mem.finalizer
  /\ pc = "removeFinalizer" => mem.finalizer
  /\ pc = "check" => mem.phase # "Waiting"
  /\ pc \in {"works", "pruneWorks"} => todo # {}

\* The copy is changed before the write that fails.
Unsaved ==
  CASE pc = "phase"   -> [mem EXCEPT !.phase = "Waiting"]
    [] pc = "running" -> [mem EXCEPT !.phase = "Running"]
    [] pc = "address" -> [mem EXCEPT !.address = ingress]
    [] OTHER          -> mem

\* A call of the current step fails and changes nothing at the API server.
CallFails ==
  /\ failures < MaxFailures /\ failures' = failures + 1
  /\ Calls
  /\ \/ pc \in Fatal /\ Fail /\ UNCHANGED <<queued, fresh, todo>>
     \/ /\ pc \notin Fatal \cup {"end"}
        /\ Retry /\ mem' = Unsaved /\ UNCHANGED <<queued, fresh, todo>>
     \/ /\ pc = "end"
        /\ queued' = (queued \/ requeue)
        /\ Goto("idle") /\ mem' = Gone /\ fresh' = FALSE
        /\ todo' = {} /\ requeue' = FALSE
  /\ UNCHANGED <<kind, inst, hub, copies, lost, edits, restarts>>

JobAsSeen ==
  IF job = NoJob THEN "none" ELSE IF job.done THEN "done" ELSE "running"

Seen(object) == IF object = "new" THEN "seen" ELSE object

\* A restarted controller lists every object and handles each of them.
Restart ==
  /\ restarts < MaxRestarts /\ restarts' = restarts + 1
  /\ Goto("idle") /\ mem' = Gone /\ fresh' = FALSE
  /\ todo' = {} /\ requeue' = FALSE
  /\ cache' = inst /\ jobSeen' = JobAsSeen /\ unseen' = {}
  /\ placement' = Seen(placement) /\ service' = Seen(service)
  /\ queued' = (inst # Gone)
  /\ UNCHANGED <<kind, inst, decided, ingress, job, works, flower, lost, edits,
                 failures>>

----------------------------------------------------------------------------
\* The informers

\* The event filter lets an update pass that changes the generation: the spec
\* or the deletion, not the status.
SameGeneration ==
  /\ cache # Gone /\ inst # Gone
  /\ cache.spec = inst.spec /\ cache.deleting = inst.deleting

SyncInstance ==
  /\ cache # inst
  /\ cache' = inst
  /\ queued' = (queued \/ ~SameGeneration)
  /\ UNCHANGED <<kind, inst, hub, jobSeen, run, lost, bounds>>

SyncPlacement ==
  /\ placement = "new" /\ placement' = "seen"
  /\ UNCHANGED <<kind, inst, decided, endpoint, job, clients, flower, copies,
                 queued, run, lost, bounds>>

SyncService ==
  /\ service = "new" /\ service' = "seen"
  /\ UNCHANGED <<kind, inst, selection, ingress, job, clients, flower, copies,
                 queued, run, lost, bounds>>

SyncJob ==
  /\ jobSeen # JobAsSeen /\ jobSeen' = JobAsSeen
  /\ UNCHANGED <<kind, inst, hub, cache, queued, run, lost, bounds>>

SyncWorks ==
  /\ unseen # {} /\ unseen' = {}
  /\ UNCHANGED <<kind, inst, selection, endpoint, job, works, flower, copies,
                 queued, run, lost, bounds>>

Informers ==
  SyncInstance \/ SyncPlacement \/ SyncService \/ SyncJob \/ SyncWorks

----------------------------------------------------------------------------
\* Users, placement, network and the job controller

Edit == edits < MaxEdits /\ edits' = edits + 1

\* A write by somebody else makes the controller's copy old.
EditSpec ==
  /\ Edit
  /\ inst # Gone
  /\ inst' = [inst EXCEPT !.spec = @ + 1] /\ fresh' = FALSE
  /\ UNCHANGED <<kind, hub, copies, queued, pc, mem, todo, requeue, lost,
                 failures, restarts>>

\* Without a finalizer the object goes at once.
Delete ==
  /\ inst # Gone
  /\ ~inst.deleting
  /\ inst' = IF inst.finalizer THEN [inst EXCEPT !.deleting = TRUE] ELSE Gone
  /\ fresh' = FALSE
  /\ UNCHANGED <<kind, hub, copies, queued, pc, mem, todo, requeue, lost,
                 bounds>>

Decide ==
  /\ Edit
  /\ placement # "none"
  /\ decided' \in SUBSET Clusters \ {decided}
  /\ lost' = lost \cup (decided \ decided')
  /\ UNCHANGED <<kind, inst, placement, endpoint, job, clients, flower, copies,
                 queued, run, failures, restarts>>

AssignIngress ==
  /\ kind = "LoadBalancer" /\ service # "none" /\ ingress = NoAddress
  /\ ingress' \in Addresses
  /\ UNCHANGED <<kind, inst, selection, service, job, clients, flower, copies,
                 queued, run, lost, bounds>>

FinishJob ==
  /\ job # NoJob
  /\ ~job.done /\ ~job.deleting
  /\ job' = [job EXCEPT !.done = TRUE]
  /\ UNCHANGED <<kind, inst, selection, endpoint, clients, flower, copies,
                 queued, run, lost, bounds>>

\* The pods of a deleted Job are gone.
CollectJob ==
  /\ job # NoJob
  /\ job.deleting
  /\ job' = NoJob
  /\ UNCHANGED <<kind, inst, selection, endpoint, clients, flower, copies,
                 queued, run, lost, bounds>>

Next ==
  \/ ReconcileStep \/ CallFails \/ Restart \/ Informers
  \/ EditSpec \/ Delete \/ Decide \/ AssignIngress \/ FinishJob \/ CollectJob

Spec == Init /\ [][Next]_vars

\* The worker and the informers keep running, a LoadBalancer is given an address
\* and a deleted Job goes; nobody has to edit, and no Job has to finish.
FairSpec ==
  /\ Spec
  /\ WF_vars(ReconcileStep)
  /\ WF_vars(SyncInstance) /\ WF_vars(SyncPlacement) /\ WF_vars(SyncService)
  /\ WF_vars(SyncJob) /\ WF_vars(SyncWorks)
  /\ WF_vars(AssignIngress) /\ WF_vars(CollectJob)

----------------------------------------------------------------------------
\* Properties

PhaseSteps ==
  {<<"", "Waiting">>, <<"Waiting", "Running">>, <<"Running", "Completed">>}
    \cup (Phases \X {"Failed"})

\* The stored phase only advances, and Failed is final, although every
\* Reconcile ends with an unconditional update of the status from a copy that
\* may be old (federatedlearning_controller.go:75-83).
PhaseOrder ==
  [][inst # Gone /\ inst' # Gone /\ inst'.phase # inst.phase
       => <<inst.phase, inst'.phase>> \in PhaseSteps]_vars

\* The README's account of Flower: "The CR stays in `Running` until deleted."
FlowerStaysRunning ==
  [][kind = "Flower" /\ inst # Gone /\ inst' # Gone /\ inst.phase = "Running"
       => inst'.phase = "Running"]_vars

\* A cluster is sent a client only after the server's address is published in
\* the status, which tells users where the clients connect.
ClientsFollowAddress ==
  inst # Gone => \A c \in Clusters : HasWork(c) => inst.address # NoAddress

\* Whatever fails or restarts during the clean-up, a deleted training leaves
\* works only in clusters that have left the Placement's decisions at some
\* time, or whose work the cache did not hold when it was looked for.
LeavesOnlyLostWorks ==
  inst = Gone => \A c \in Clusters : HasWork(c) => c \in lost

\* The server and every selected client run with the current spec and address.
Deployment ==
  /\ job # NoJob
  /\ ~job.deleting /\ ~job.done
  /\ job.clusters = decided /\ job.spec = inst.spec
  /\ inst.address = ingress
  /\ \A c \in decided : works[c] = [spec |-> inst.spec, address |-> ingress]

Settled ==
  \/ inst = Gone
  \/ inst.phase \in {"Failed", "Completed"}
  \/ ~Enough
  \/ kind = "Flower" /\ inst.phase = "Running" /\ serverApp /\ replicaSet
  \/ kind # "Flower" /\ ~(decided \subseteq Claimed)
  \/ kind # "Flower" /\ inst.phase = "Running" /\ Deployment

\* Once nothing is edited, a training is deployed as asked or has ended: every
\* other state is left, by a retry or the 5 s requeue, although no event of a
\* Placement, Service or Job reaches the controller.  A deleted one goes, in
\* every phase and after any failure.
Settles == <>[](Settled /\ (inst # Gone => ~inst.deleting))

=============================================================================
