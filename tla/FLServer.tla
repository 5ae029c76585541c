------------------------------ MODULE FLServer ------------------------------
(***************************************************************************)
(* What federatedLearningServer makes of the objects it finds              *)
(* (federated-learning-controller/internal/controller): the volume and the *)
(* claim of the storage, the address of the server, and what the deployer  *)
(* does with a rendered manifest.                                          *)
(*                                                                         *)
(* Each call is a function of what is stored and of the call to the API    *)
(* server that fails, if one does.  A read from a cache that lags ends in  *)
(* a refused write, so it is one of the failing calls.  FederatedLearning  *)
(* puts the calls in their order.                                          *)
(***************************************************************************)
EXTENDS Naturals, Sequences, FiniteSetsExt

CONSTANTS
  Missing,        \* an object or a field that is not there
  Unparsable      \* a size that is not a quantity

----------------------------------------------------------------------------
\* Storage: one claim in the training's namespace "n1", and for S3 one volume,
\* which has no namespace and is named after the claim.

Result(store, ok) == [store |-> store, ok |-> ok]

StandardClaim(s) ==
  [modes |-> <<"Once">>, class |-> Missing, volume |-> Missing,
   request |-> s.size]

\* An existing claim is taken as it is; no volume is made.
EnsureStandardPVC(s, store, failing) ==
  IF s.size = Missing \/ failing = "claim" THEN Result(store, FALSE)
  ELSE IF store.claim # Missing THEN Result(store, TRUE)
  ELSE IF s.size = Unparsable THEN Result(store, FALSE)
  ELSE Result([store EXCEPT !.claim = StandardClaim(s)], TRUE)

DesiredVolume(s) ==
  [driver |-> "s3", bucket |-> s.bucket, modes |-> <<"Many">>,
   capacity |-> s.size, class |-> "", options |-> s.options,
   claim |-> [namespace |-> "n1", bound |-> FALSE]]

\* Mutant of PatchVolume: the reference to the claim is always replaced.
PatchVolumeUnbinding(s, volume) == DesiredVolume(s)

\* Every field that differs is set, but a reference that names the claim is
\* kept with what Kubernetes added when it bound the two.
PatchVolume(s, volume) ==
  IF volume = Missing \/ volume.claim = Missing \/ volume.claim.namespace # "n1"
  THEN DesiredVolume(s)
  ELSE [DesiredVolume(s) EXCEPT !.claim = volume.claim]

DesiredClaim(s) ==
  [modes |-> <<"Many">>, class |-> "", volume |-> "pv", request |-> s.size]

\* The API server keeps the source of a volume, and of a claim all but its size,
\* which may grow, and a volume not yet named.
VolumeAccepted(old, new) ==
  old # Missing => old.driver = new.driver /\ old.bucket = new.bucket

ClaimAccepted(old, new) ==
  old # Missing =>
    /\ old.modes = new.modes /\ old.class = new.class
    /\ old.volume \in {Missing, new.volume}
    /\ old.request <= new.request

\* Without a difference there is no call that could be refused.
Written(old, new, accepted) == old = new \/ accepted

\* The claim, after the volume.
EnsureClaim(s, store, volume, failing) ==
  IF /\ failing # "claim"
     /\ Written(store.claim, DesiredClaim(s),
                ClaimAccepted(store.claim, DesiredClaim(s)))
  THEN Result([volume |-> volume, claim |-> DesiredClaim(s)], TRUE)
  ELSE Result([store EXCEPT !.volume = volume], FALSE)

EnsureS3PVC(s, store, failing) ==
  LET volume == PatchVolume(s, store.volume) IN
  IF \/ s.size \in {Missing, Unparsable} \/ s.bucket = Missing
     \/ failing = "volume"
     \/ ~Written(store.volume, volume, VolumeAccepted(store.volume, volume))
  THEN Result(store, FALSE)
  ELSE EnsureClaim(s, store, volume, failing)

Ensure(s, store, failing) ==
  CASE s.type = "PVC"      -> EnsureStandardPVC(s, store, failing)
    [] s.type = "S3Bucket" -> EnsureS3PVC(s, store, failing)
    [] OTHER               -> Result(store, FALSE)

----------------------------------------------------------------------------
\* The address of the server.  A node is the sequence of its addresses, and the
\* Service that of its ingress, with an IP, a host name, both or neither.

\* The places of a node's internal addresses, and of the nodes that have one.
Internals(node) == {k \in DOMAIN node : node[k].internal}

WithInternalIP(nodes) == {i \in DOMAIN nodes : Internals(nodes[i]) # {}}

\* Both loops over the addresses of a node stop at the first internal one.
InternalIP(node) == node[Min(Internals(node))].address

\* waitForLoadBalancerIP; the Job is not deployed before.
IngressReady(ingress) ==
  ingress # <<>> /\ ~(ingress[1].ip = Missing /\ ingress[1].hostname = Missing)

\* Mutant of ListenerIP: any address of the node is taken.
ListenerIPAny(listener, nodes, ingress) ==
  IF listener.ip # Missing THEN listener.ip
  ELSE LET all == {i \in DOMAIN nodes : nodes[i] # <<>>} IN
       IF all = {} THEN Missing ELSE nodes[Min(all)][1].address

\* determineEndpointInfo, for the server itself: the IP before the host name,
\* and the address of the first node that has one.
ListenerIP(listener, nodes, ingress) ==
  IF listener.type = "LoadBalancer"
  THEN IF ~IngressReady(ingress) THEN Missing
       ELSE IF ingress[1].ip # Missing THEN ingress[1].ip
       ELSE ingress[1].hostname
  ELSE IF listener.ip # Missing THEN listener.ip
  ELSE LET some == WithInternalIP(nodes) IN
       IF some = {} THEN Missing ELSE InternalIP(nodes[Min(some)])

\* updateLB, for the clients: the host name before the IP.
PublishedLB(ingress) ==
  IF ~IngressReady(ingress) THEN Missing
  ELSE IF ingress[1].hostname # Missing THEN ingress[1].hostname
  ELSE ingress[1].ip

\* updateNP, for the clients: the loop over the nodes goes on to the last.
PublishedNP(listener, nodes) ==
  IF listener.ip # Missing THEN listener.ip
  ELSE LET some == WithInternalIP(nodes) IN
       IF some = {} THEN Missing ELSE InternalIP(nodes[Max(some)])

Published(listener, nodes, ingress) ==
  IF listener.type = "LoadBalancer" THEN PublishedLB(ingress)
  ELSE PublishedNP(listener, nodes)

----------------------------------------------------------------------------
\* The deployer.  An object is a record of parts, a part a sequence of values
\* of which 0 is not set; `extra' is the second part of the kinds with two and
\* `labels' stands for labels and annotations.

\* Mutant of Derivative: the parts have to be equal.
DerivativeEqual(desired, found) == desired = found

\* apiequality.Semantic.DeepDerivative: what is set in `desired' is as found; a
\* shorter part is taken for the beginning of a longer one.
Derivative(desired, found) ==
  /\ Len(desired) <= Len(found)
  /\ \A i \in DOMAIN desired : desired[i] \in {0, found[i]}

TwoParts == {"ServiceAccount", "RoleBinding", "ClusterRole",
             "ClusterRoleBinding"}

Compared(kind) ==
  {"main", "labels"} \cup (IF kind \in TwoParts THEN {"extra"} ELSE {})

Differs(kind, desired, found) ==
  \E part \in Compared(kind) : ~Derivative(desired[part], found[part])

\* The API server fills in what is not set, and refuses to change the role of a
\* binding.
Stored(desired) ==
  [part \in DOMAIN desired |->
    [i \in DOMAIN desired[part] |->
      IF desired[part][i] = 0 THEN 1 ELSE desired[part][i]]]

Refused(kind, desired, found) ==
  /\ kind \in {"RoleBinding", "ClusterRoleBinding"}
  /\ Stored(desired).extra # found.extra

\* A Job that differs goes; what an update does not set is gone.
Replace(kind, desired, found) ==
  IF kind = "Job" THEN Missing
  ELSE IF Refused(kind, desired, found) THEN found
  ELSE Stored(desired)

\* skip: the annotation skip-creation-if-exist.
Deploy(kind, skip, desired, found) ==
  IF found = Missing THEN Stored(desired)
  ELSE IF skip \/ ~Differs(kind, desired, found) THEN found
  ELSE Replace(kind, desired, found)

=============================================================================
