------------------------- MODULE DeviceRegistration -------------------------
(***************************************************************************)
(* What the hub of the device addon grants an agent when its cluster       *)
(* registers (addonRBAC, device-addon/pkg/addon/hub/manager.go): a role    *)
(* and a binding in the namespace of the cluster, and a cluster role and   *)
(* its binding that all clusters share.  They are looked for and created   *)
(* one after the other by the one worker of the addon framework, which     *)
(* calls again after an error; what exists is not changed.                 *)
(***************************************************************************)
EXTENDS Naturals

CONSTANTS NoCluster

NoGrants == [clusterRole |-> FALSE, roles |-> {}, clusterBinding |-> NoCluster,
             bindings |-> {}]

\* The number of the first of the four objects, in the order of the code, whose
\* call fails, or one more.
AllCreated == 5

WithClusterRole(grants) == [grants EXCEPT !.clusterRole = TRUE]

WithRole(grants, c) == [grants EXCEPT !.roles = @ \cup {c}]

\* The binding of the cluster role names the group of the first cluster.
WithClusterBinding(grants, c) ==
  [grants EXCEPT !.clusterBinding = IF @ = NoCluster THEN c ELSE @]

WithBinding(grants, c) == [grants EXCEPT !.bindings = @ \cup {c}]

\* Mutant of AddonRBAC: a shared binding means that all is done.
AddonRBACOnce(grants, c, failing) ==
  IF failing = 1 THEN grants
  ELSE IF failing = 2 THEN WithClusterRole(grants)
  ELSE LET some == WithRole(WithClusterRole(grants), c) IN
       IF failing = 3 \/ grants.clusterBinding # NoCluster THEN some
       ELSE IF failing = 4 THEN WithClusterBinding(some, c)
       ELSE WithBinding(WithClusterBinding(some, c), c)

\* An error leaves what the calls before it created.
AddonRBAC(grants, c, failing) ==
  IF failing = 1 THEN grants
  ELSE IF failing = 2 THEN WithClusterRole(grants)
  ELSE LET some == WithRole(WithClusterRole(grants), c) IN
       IF failing = 3 THEN some
       ELSE IF failing = 4 THEN WithClusterBinding(some, c)
       ELSE WithBinding(WithClusterBinding(some, c), c)

\* The registration gets past the cluster binding.
Binds(e) == ~e.detached /\ e.failing > 3

\* A cluster that is detached takes its namespace along.
Detach(grants, c) ==
  [grants EXCEPT !.roles = @ \ {c}, !.bindings = @ \ {c}]

After(grants, e) ==
  IF e.detached THEN Detach(grants, e.cluster)
  ELSE AddonRBAC(grants, e.cluster, e.failing)

=============================================================================
