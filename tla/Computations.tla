---------------------------- MODULE Computations ----------------------------
(***************************************************************************)
(* The pure computations of the add-ons, over the inputs that the          *)
(* constants give.  A behaviour has one task.  It takes one input, such as *)
(* a scorer, a cluster or a reading of a device, and computes what the     *)
(* program makes of it; the objects of the tasks "publish" and "register"  *)
(* are stored, and each step is one more call of the program, after what   *)
(* the calls before it left.                                               *)
(***************************************************************************)
EXTENDS SequencesExt, ScorerSummary, ResourceUsage, DeviceReading, FLServer,
  DeviceRegistration

CONSTANTS
  Scorers, Masked,          \* scorers, and the names masked on the cluster
  NodeLists, PodLists,      \* what the listers of nodes and pods return
  MaxAmount,                \* the amount that gives the best score
  Types, Readings,          \* types of resources, readings of devices
  Storages, Stores,         \* storage of trainings, stored volume and claim
  Endpoints,                \* listener of the server, nodes, and ingress
  Manifests,                \* rendered manifest and stored object
  Rounds, MaxRounds,        \* rounds of the resource usage agent, and how many
  Registrations, MaxRegistrations,  \* of clusters at the hub, and how many
  NoSummary                 \* the scorer is not distributed

\* Numbers of scorers are numbers.
ASSUME ScorersAssumption ==
  \A s \in Scorers : \A f \in {"sourceRange", "interval"} :
    /\ s.spec[f] \in Int
    /\ s.synced # NoConfig => s.synced[f] \in Int

\* Nodes and pods come in sequences, and amounts are natural numbers.
ASSUME PodsAssumption ==
  /\ \A nodes \in NodeLists :
       /\ nodes \in Seq({nodes[k] : k \in DOMAIN nodes})
       /\ \A k \in DOMAIN nodes : /\ nodes[k].unschedulable \in BOOLEAN
                                 /\ nodes[k].alloc \in Nat \cup {Absent}
  /\ \A pods \in PodLists :
       /\ pods \in Seq({pods[k] : k \in DOMAIN pods})
       /\ \A k \in DOMAIN pods :
            /\ pods[k].over \in BOOLEAN /\ pods[k].overhead \in Nat
            /\ pods[k].containers \in Seq(Nat) /\ pods[k].inits \in Seq(Nat)
  /\ MaxAmount \in Nat \ {0}

\* No type is wider than the widest; a float is any number of halves.
ASSUME ReadingsAssumption ==
  /\ \A t \in Types : t.signed \in BOOLEAN /\ t.limit \in 1..Wide
  /\ \A r \in Readings :
       \/ r.go = "int" /\ r.value \in Signed(Wide)
       \/ r.go = "uint" /\ r.value \in Unsigned(Wide)
       \/ r.go = "float" /\ r.value \in Int
       \/ r.go = "bool" /\ r.value \in BOOLEAN
       \/ r.go \in {"nan", "nil", "text"}

\* A store is a volume and a claim; Missing is neither of them, nor a reference
\* to a claim.
ASSUME StorageAssumption ==
  /\ \A store \in Stores :
       /\ store = [volume |-> store.volume, claim |-> store.claim]
       /\ store.volume # Missing /\ store.volume.claim # Missing =>
            store.volume.claim = [namespace |-> store.volume.claim.namespace,
                                  bound |-> store.volume.claim.bound]
  /\ \A s \in Storages :
       /\ Missing \notin {StandardClaim(s), DesiredClaim(s)}
       /\ \A store \in Stores : PatchVolume(s, store.volume) # Missing
  /\ \A b \in BOOLEAN : Missing # [namespace |-> "n1", bound |-> b]

\* The nodes are a sequence.
ASSUME EndpointsAssumption ==
  \A e \in Endpoints : DOMAIN e.nodes \subseteq Nat

\* A manifest sets every part that is compared, to a sequence of values.
ASSUME ManifestsAssumption ==
  \A m \in Manifests :
    /\ {"main", "labels", "extra"} \subseteq DOMAIN m.desired
    /\ \A part \in DOMAIN m.desired : m.desired[part] \in Seq(Nat)

\* A round says whether the lister has the object and whether it was deleted.
ASSUME RoundsAssumption ==
  /\ Absent # NoScores
  /\ \A r \in Rounds : r.scores \notin {Absent, NoScores}

\* NoCluster is no cluster, and some call fails or all succeed.
ASSUME RegistrationsAssumption ==
  \A e \in Registrations :
    /\ e.detached \in BOOLEAN /\ e.cluster # NoCluster
    /\ e.failing \in 1..AllCreated

VARIABLES task, input, output
vars == <<task, input, output>>

\* No output yet.
Pending == [pending |-> TRUE]

Init ==
  \/ /\ output = Pending
     /\ \/ task = "summarise" /\ input \in Scorers
        \/ task = "score" /\ input \in [nodes : NodeLists, pods : PodLists]
        \/ task = "read" /\ input \in [type : Types, reading : Readings]
        \/ /\ task = "store"
           /\ input \in [storage : Storages, store : Stores,
                        failing : {"none", "volume", "claim"}]
        \/ task = "endpoint" /\ input \in Endpoints
        \/ task = "deploy" /\ input \in Manifests
  \/ task = "publish" /\ input = <<>> /\ output = [stored |-> Absent]
  \/ task = "register" /\ input = <<>> /\ output = [grants |-> NoGrants]

Summarise ==
  /\ task = "summarise" /\ output = Pending
  /\ output' = IF Summarised(input, Masked) THEN SummaryOf(input)
                                           ELSE NoSummary
  /\ UNCHANGED <<task, input>>

Score ==
  /\ task = "score" /\ output = Pending
  /\ output' = [node |-> NodeScore(input.nodes, input.pods, MaxAmount),
                cluster |-> ClusterScore(input.nodes, input.pods, MaxAmount)]
  /\ UNCHANGED <<task, input>>

Read ==
  /\ task = "read" /\ output = Pending
  /\ \E v \in NewResults(input.type, input.reading) : output' = [value |-> v]
  /\ UNCHANGED <<task, input>>

Store ==
  /\ task = "store" /\ output = Pending
  /\ output' = Ensure(input.storage, input.store, input.failing)
  /\ UNCHANGED <<task, input>>

FindEndpoint ==
  /\ task = "endpoint" /\ output = Pending
  /\ output' =
       [server  |-> ListenerIP(input.listener, input.nodes, input.ingress),
        clients |-> Published(input.listener, input.nodes, input.ingress)]
  /\ UNCHANGED <<task, input>>

DeployManifest ==
  /\ task = "deploy" /\ output = Pending
  /\ output' = [object |-> Deploy(input.kind, input.skip, input.desired,
                                  input.found)]
  /\ UNCHANGED <<task, input>>

\* One more round, after what happened to the object since the last one: the
\* lister may have caught up, and a user deleted the object.
Publish ==
  /\ task = "publish" /\ Len(input) < MaxRounds
  /\ \E round \in Rounds :
       /\ input' = Append(input, round)
       /\ output' = [stored |->
            SyncScore(IF round.deleted THEN Absent ELSE output.stored,
                      round.listed, round.scores)]
  /\ UNCHANGED task

\* The hub registers or detaches one more cluster.
Register ==
  /\ task = "register" /\ Len(input) < MaxRegistrations
  /\ \E e \in Registrations :
       /\ input' = Append(input, e)
       /\ output' = [grants |-> After(output.grants, e)]
  /\ UNCHANGED task

Next == Summarise \/ Score \/ Read \/ Store \/ FindEndpoint \/ DeployManifest
          \/ Publish \/ Register

Spec == Init /\ [][Next]_vars

-----------------------------------------------------------------------------
Distributed == task = "summarise" /\ output \notin {Pending, NoSummary}

\* What reaches the agent can be run there: time.NewTicker panics on an
\* interval that is not positive, and a Prometheus source needs its query and
\* range (agent.go:378, 405-421).
CanRun ==
  /\ output.interval > 0
  /\ output.sourceType = "Prometheus" =>
       output.sourceQuery # Unset /\ output.sourceRange > 0

\* "Full: All configurations are synchronized" (pkg/common/types.go:7): in mode
\* Full every field that the API serves is the one distributed, except
\* the scoring host: the code takes the host of the source in its place.
FollowsApi ==
  /\ \A f \in {"scoreName", "sourceType", "sourceHost", "sourceQuery"} :
       input.synced[f] # Unset => output[f] = input.synced[f]
  /\ \A f \in {"sourceRange", "interval"} :
       input.synced[f] > 0 => output[f] = input.synced[f]

\* A summary that is distributed can be run by the agent, whatever its fields
\* were taken from, and in mode Full it follows the API.
SummariesAreValid ==
  Distributed => CanRun /\ (input.mode = "Full" => FollowsApi)

Scored == task = "score" /\ output # Pending

\* What a node that runs the pods has to have, as Kubernetes counts it: init
\* containers run before the containers of their pod, one at a time.
Need(name, pod) ==
  IF Counts(pod, name)
  THEN Peak(Sum(0, pod.containers), pod.inits) + pod.overhead ELSE 0

Needed(name, pods) == Sum(0, [k \in 1..Len(pods) |-> Need(name, pods[k])])

\* Init containers that need more than the containers of their pod.
HeavyInits(pod) ==
  \E k \in DOMAIN pod.inits : pod.inits[k] > Sum(0, pod.containers)

\* The usage of a node is what its unfinished pods need, pod by pod, as long as
\* no init container needs more than the containers of its pod, and otherwise at
\* most that, whatever the order of the pods.
UsageIsWhatPodsNeed ==
  \A n \in DOMAIN input.nodes :
    LET name == input.nodes[n].name
        usage == NodeUsage(name, input.pods) IN
    /\ usage <= Needed(name, input.pods)
    /\ (\A k \in DOMAIN input.pods : ~HeavyInits(input.pods[k])) =>
         usage = Needed(name, input.pods)

\* A pod that is over counts as little as one that is gone, and a pod that goes
\* never takes from a score, although the code mixes the pods of a node up.
PodsThatEndGiveBack ==
  \A k \in DOMAIN input.pods :
    LET rest == RemoveAt(input.pods, k)
        node == NodeScore(input.nodes, rest, MaxAmount)
        all  == ClusterScore(input.nodes, rest, MaxAmount) IN
    /\ output.node <= node /\ output.cluster <= all
    /\ input.pods[k].over => output.node = node /\ output.cluster = all

\* Unless a node that takes pods is overcommitted, the best node does not score
\* higher than the cluster that it is a part of.
NodeWithinCluster ==
  \/ output.node <= output.cluster
  \/ \E k \in DOMAIN input.nodes :
       LET n == input.nodes[k] IN
       ~n.unschedulable /\ Allocatable(n) < NodeUsage(n.name, input.pods)

\* Whatever was published, refused, or deleted before, two rounds of an agent
\* whose lister is up to date publish the scores of the second: the first may
\* only create the object, without them.
SecondRoundPublishes ==
  \A old, new \in {round.scores : round \in Rounds} :
    LET first == SyncScore(output.stored, output.stored # Absent, old) IN
    SyncScore(first, TRUE, new) = new

\* The scores count what the pods need, agree with each other, and reach the
\* hub.
ScoresFollowPods ==
  /\ Scored => UsageIsWhatPodsNeed /\ PodsThatEndGiveBack /\ NodeWithinCluster
  /\ task = "publish" => SecondRoundPublishes

\* A reading is published as the number it is, short of a fraction, or not at
\* all, with these exceptions, for the check of the range sees the number after
\* its conversion: one that even the widest type of its kind cannot hold, such
\* as an unsigned one for a signed type, or 1e19; one that is no number; and the
\* null of JSON, which is published as 0.
ReadingsAreKept ==
  task = "read" /\ output # Pending /\ output.value # Rejected =>
    \/ /\ HasValue(input.reading)
       /\ output.value = NumberIn(input.reading)
    \/ input.reading.go = "nil" /\ output.value = 0
    \/ input.reading.go = "nan"
    \/ /\ input.reading.go \in {"uint", "float"}
       /\ NumberIn(input.reading) \notin ValuesOf(Widest(input.type))

\* The registration at place i reached its end, and its cluster was not detached
\* since.
Registered(history, i) ==
  /\ history[i].failing = AllCreated /\ ~history[i].detached
  /\ \A j \in i+1..Len(history) :
       history[j].detached => history[j].cluster # history[i].cluster

\* Another cluster was the first whose registration got past the cluster binding
\* that all clusters share.
CameSecond(history, c) ==
  \E j \in DOMAIN history :
    /\ Binds(history[j]) /\ history[j].cluster # c
    /\ \A k \in 1..j-1 : ~Binds(history[k])

\* A cluster whose registration reached its end has its role and binding and the
\* cluster role, whatever calls failed before, whichever cluster came first, and
\* although another one was detached since.  Its agent, which lists all
\* namespaces (spoke.go:69), can work if the cluster binding is its own, and it
\* is unless another cluster came first: that one's stays, although it is
\* detached.
RegisteredAreGranted ==
  task = "register" =>
    \A i \in DOMAIN input :
      Registered(input, i) =>
        LET c == input[i].cluster IN
        /\ c \in output.grants.roles \cap output.grants.bindings
        /\ output.grants.clusterRole
        /\ output.grants.clusterBinding = c \/ CameSecond(input, c)

Ensured == task = "store" /\ output # Pending

\* Storage that is reported as ready is as the training asks: the claim of an
\* S3 bucket names the volume and the volume the claim, a volume that was bound
\* to it stays bound, and a later call finds nothing to write.  A call that
\* fails between the volume and its claim loses nothing: the next one ends
\* where a call without a failure would have ended.
StorageAsAsked ==
  Ensured =>
    LET s == input.storage
        volume == output.store.volume
        before == input.store.volume IN
    /\ output.ok =>
         /\ output.store.claim # Missing
         /\ s.type = "S3Bucket" =>
              /\ output.store.claim = DesiredClaim(s)
              /\ volume.claim.namespace = "n1"
              /\ [volume EXCEPT !.claim.bound = FALSE] = DesiredVolume(s)
              /\ before # Missing =>
                   (before.claim = [namespace |-> "n1", bound |-> TRUE]
                      => volume.claim.bound)
         /\ Ensure(s, output.store, "none") = output
    /\ Ensure(s, output.store, "none") = Ensure(s, input.store, "none")

\* The address that the server is given is the one that its clients are told,
\* unless an ingress has both an IP and a host name, or several nodes have an
\* internal address: then the code picks one for the server and another for
\* the clients.
EndpointsAgree ==
  task = "endpoint" /\ output # Pending =>
    \/ output.server = output.clients
    \/ /\ input.listener.type = "LoadBalancer"
       /\ Missing \notin {input.ingress[1].ip, input.ingress[1].hostname}
    \/ /\ input.listener.type # "LoadBalancer" /\ input.listener.ip = Missing
       /\ \E i, j \in WithInternalIP(input.nodes) : i # j

\* One call, or two for a Job that has to go first, bring an object to what the
\* manifest sets, and then it is left alone, whatever the API server fills in:
\* otherwise every Reconcile would write, or delete a running Job again.
DeployConverges ==
  task = "deploy" /\ output # Pending =>
    LET Again(object) ==
          Deploy(input.kind, input.skip, input.desired, object)
        object == IF output.object = Missing THEN Again(Missing)
                  ELSE output.object IN
    \/ input.found # Missing /\ input.skip
    \/ input.found # Missing /\ Refused(input.kind, input.desired, input.found)
    \/ /\ ~Differs(input.kind, input.desired, object)
       /\ Again(object) = object

=============================================================================
