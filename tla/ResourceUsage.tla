--------------------------- MODULE ResourceUsage ---------------------------
(***************************************************************************)
(* The scores that the resource usage agent computes for a cluster         *)
(* (calculate.go), for one resource at a time, and how it publishes them   *)
(* (agent.go).  Nodes and pods are sequences in the order of the listers.  *)
(*                                                                         *)
(* A node has a name, is schedulable or not, and has an allocatable amount *)
(* or Absent.  A pod has the name of its node, is over or not (succeeded,  *)
(* failed, or being deleted), and has the requests of its containers and   *)
(* of its init containers and its overhead, 0 where none is given.         *)
(***************************************************************************)
EXTENDS Integers, Sequences

CONSTANTS Absent, NoScores

Larger(a, b) == IF a < b THEN b ELSE a

\* A loop is the function of what it has computed after each k of its steps.
Sums(start, values) ==
  LET sum[k \in 0..Len(values)] ==
        IF k = 0 THEN start ELSE sum[k - 1] + values[k]
  IN sum

Sum(start, values) == Sums(start, values)[Len(values)]

Peaks(start, values) ==
  LET peak[k \in 0..Len(values)] ==
        IF k = 0 THEN start ELSE Larger(peak[k - 1], values[k])
  IN peak

Peak(start, values) == Peaks(start, values)[Len(values)]

Counts(pod, name) == pod.node = name /\ ~pod.over

\* Mutant of AddPod: an init container counts beside the containers.
AddPodInits(usage, pod) ==
  Sum(Sum(usage, pod.containers), pod.inits) + pod.overhead

\* The usage after one more pod.  The code compares an init container with
\* the usage of everything counted so far, not only with that of its own pod.
AddPod(usage, pod) ==
  Peak(Sum(usage, pod.containers), pod.inits) + pod.overhead

Usages(name, pods) ==
  LET usage[k \in 0..Len(pods)] ==
        IF k = 0 THEN 0
        ELSE IF Counts(pods[k], name) THEN AddPod(usage[k - 1], pods[k])
        ELSE usage[k - 1]
  IN usage

NodeUsage(name, pods) == Usages(name, pods)[Len(pods)]

Allocatable(node) == IF node.alloc = Absent THEN 0 ELSE node.alloc

\* The amount on the node that has most; 0 also when every node lacks some.
BestNodes(nodes, pods) ==
  LET best[k \in 0..Len(nodes)] ==
        IF k = 0 THEN 0
        ELSE IF nodes[k].unschedulable \/ nodes[k].alloc = Absent
        THEN best[k - 1]
        ELSE Larger(best[k - 1],
                    nodes[k].alloc - NodeUsage(nodes[k].name, pods))
  IN best

MaxAvailableNode(nodes, pods) == BestNodes(nodes, pods)[Len(nodes)]

\* A node that has none of the resource adds its usage all the same.
Available(nodes, pods) ==
  LET available[k \in 0..Len(nodes)] ==
        IF k = 0 THEN 0
        ELSE IF nodes[k].unschedulable THEN available[k - 1]
        ELSE available[k - 1] + Allocatable(nodes[k])
               - NodeUsage(nodes[k].name, pods)
  IN available

ClusterAvailable(nodes, pods) == Available(nodes, pods)[Len(nodes)]

\* The conversion to int32, of x / y.
Truncated(x, y) == IF x < 0 THEN -((-x) \div y) ELSE x \div y

\* The normalizer of the SDK, from 0 to max.
Normalize(value, max) ==
  IF value > max THEN 100 ELSE IF value <= 0 THEN -100
  ELSE Truncated(200 * value - 100 * max, max)

NodeScore(nodes, pods, max) == Normalize(MaxAvailableNode(nodes, pods), max)

ClusterScore(nodes, pods, max) ==
  Normalize(ClusterAvailable(nodes, pods), max)

----------------------------------------------------------------------------
\* The object that holds the scores at the hub: Absent, NoScores, or scores.

\* The API server keeps no status of an object that is created, and refuses a
\* second creation when the lister does not have the first yet.
SyncScore(stored, listed, scores) ==
  IF listed /\ stored # Absent THEN scores
  ELSE IF ~listed /\ stored = Absent THEN NoScores
  ELSE stored

=============================================================================
