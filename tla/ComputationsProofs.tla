------------------------- MODULE ComputationsProofs -------------------------
(***************************************************************************)
(* What is proved about the pure computations: for every set of scorers,   *)
(* of readings, of stored volumes and claims, of nodes and ingresses, of   *)
(* manifests, and for every history of registrations.                      *)
(***************************************************************************)
EXTENDS Computations, SequenceTheorems, WellFoundedInduction, TLAPS

\* The inductive invariant of the tasks with one input: an output is what the
\* program makes of the input.
ComputedInv ==
  /\ task = "summarise" =>
       /\ input \in Scorers
       /\ output # Pending =>
            output = IF Summarised(input, Masked) THEN SummaryOf(input)
                                                  ELSE NoSummary
  /\ task = "score" =>
       /\ input \in [nodes : NodeLists, pods : PodLists]
       /\ output # Pending =>
            output = [node |-> NodeScore(input.nodes, input.pods, MaxAmount),
                      cluster |-> ClusterScore(input.nodes, input.pods,
                                               MaxAmount)]
  /\ task = "read" =>
       /\ input \in [type : Types, reading : Readings]
       /\ output # Pending =>
            \E v \in NewResults(input.type, input.reading) :
              output = [value |-> v]
  /\ task = "store" =>
       /\ input \in [storage : Storages, store : Stores,
                     failing : {"none", "volume", "claim"}]
       /\ output # Pending =>
            output = Ensure(input.storage, input.store, input.failing)
  /\ task = "endpoint" =>
       /\ input \in Endpoints
       /\ output # Pending =>
            output = [server  |-> ListenerIP(input.listener, input.nodes,
                                             input.ingress),
                      clients |-> Published(input.listener, input.nodes,
                                            input.ingress)]
  /\ task = "deploy" =>
       /\ input \in Manifests
       /\ output # Pending =>
            output = [object |-> Deploy(input.kind, input.skip, input.desired,
                                        input.found)]

LEMMA ComputedInvHolds == Spec => []ComputedInv
<1>1. Init => ComputedInv
  BY DEF Init, ComputedInv
<1>2. ComputedInv /\ [Next]_vars => ComputedInv'
  BY DEF ComputedInv, Next, vars, Summarise, Score, Read, Store, FindEndpoint,
         DeployManifest, Publish, Register
<1> QED
  BY <1>1, <1>2, PTL DEF Spec

-----------------------------------------------------------------------------
(* Summaries of scorers.                                                   *)

\* A number that a scorer has counts as a positive one, and is the one that its
\* API served if that is positive (getValidScoringInterval and the like).
LEMMA NumberIsPositive ==
  ASSUME NEW s \in Scorers, NEW f \in {"sourceRange", "interval"}
  PROVE  /\ HasNumber(s, f) => Number(s, f) > 0
         /\ HasSynced(s) /\ s.synced[f] > 0 => Number(s, f) = s.synced[f]
BY ScorersAssumption DEF HasNumber, Number, HasSynced, Positive

\* For every set of scorers, a summary that is distributed can be run by the
\* agent and in mode Full follows the API (dynamicscoringconfig_controller.go).
THEOREM SummariesAreValidAlways == Spec => []SummariesAreValid
<1>1. ComputedInv => SummariesAreValid
  <2> SUFFICES ASSUME ComputedInv, Distributed
               PROVE  CanRun /\ (input.mode = "Full" => FollowsApi)
    BY DEF SummariesAreValid
  <2>1. /\ input \in Scorers
        /\ Summarised(input, Masked)
        /\ output = SummaryOf(input)
    BY DEF ComputedInv, Distributed
  <2>2. /\ output.interval = Number(input, "interval")
        /\ output.sourceRange = Number(input, "sourceRange")
        /\ output.sourceType = Field(input, "sourceType")
        /\ output.sourceQuery = Field(input, "sourceQuery")
        /\ output.sourceHost = SourceHost(input)
        /\ output.scoreName = Field(input, "scoreName")
    BY <2>1 DEF SummaryOf, SourceQuery, ScoreName
  <2>3. CanRun
    BY <2>1, <2>2, NumberIsPositive
    DEF CanRun, Summarised, SourceValid, ScoringValid, SourceQuery
  <2>4. ASSUME input.mode = "Full"  PROVE FollowsApi
    <3>1. HasSynced(input)
      BY <2>1, <2>4 DEF Summarised
    <3>2. \A f \in {"sourceRange", "interval"} :
            input.synced[f] > 0 => output[f] = input.synced[f]
      BY <2>1, <2>2, <3>1, NumberIsPositive
    <3>3. \A f \in {"scoreName", "sourceType", "sourceHost", "sourceQuery"} :
            input.synced[f] # Unset => output[f] = input.synced[f]
      BY <2>2, <3>1 DEF Field, SourceHost
    <3> QED
      BY <3>2, <3>3 DEF FollowsApi
  <2> QED
    BY <2>3, <2>4
<1> QED
  BY <1>1, ComputedInvHolds, PTL

-----------------------------------------------------------------------------
(* Readings of devices.                                                    *)

\* A number that fits a signed type is not changed by the conversion to it, and
\* one that fits an unsigned type not by the remainder.
LEMMA FittingStays ==
  ASSUME NEW limit \in Nat \ {0}, NEW v \in Int
  PROVE  /\ v \in Signed(limit) => Wrapped(v, limit) = v
         /\ v \in Unsigned(limit) => v % (2 * limit) = v
<1> DEFINE m == 2 * limit
<1>1. m \in Nat \ {0}
  OBVIOUS
<1>2. ASSUME 0 <= v, v < m  PROVE v % m = v
  BY <1>1, <1>2
<1>3. ASSUME -m <= v, v < 0  PROVE v % m = v + m
  BY <1>1, <1>3
<1>4. CASE v >= 0
  BY <1>2, <1>4 DEF Signed, Unsigned, Wrapped
<1>5. CASE v < 0
  BY <1>3, <1>5 DEF Signed, Unsigned, Wrapped
<1> QED
  BY <1>4, <1>5

\* A conversion does not change what it can hold, and what a float that it
\* cannot hold becomes is in the type.
LEMMA ConvertedStays ==
  ASSUME NEW type, type.signed \in BOOLEAN, type.limit \in Nat \ {0},
         NEW r, HasValue(r), NumberIn(r) \in ValuesOf(type)
  PROVE  Converted(type, r) = {NumberIn(r)}
<1> DEFINE n == NumberIn(r)
<1>1. /\ n \in Int
      /\ type.signed => Wrapped(n, type.limit) = n
      /\ ~type.signed => n % (2 * type.limit) = n
  BY FittingStays DEF ValuesOf, Signed, Unsigned
<1> QED
  BY <1>1 DEF Converted, HasValue

\* For all types and readings, what NewResult publishes is the number that was
\* read, unless the widest type of its kind cannot hold it, or it is no number,
\* and of null it publishes 0 (validator.go, util.go of
\* device-addon/pkg/device/util).
THEOREM ReadingsAreKeptAlways == Spec => []ReadingsAreKept
<1>1. ComputedInv => ReadingsAreKept
  <2> DEFINE t == input.type
             r == input.reading
             n == NumberIn(r)
             v == output.value
  <2> SUFFICES ASSUME ComputedInv, task = "read", output # Pending,
                      v # Rejected, r.go # "nan"
               PROVE  \/ HasValue(r) /\ v = n
                      \/ r.go = "nil" /\ v = 0
                      \/ /\ r.go \in {"uint", "float"}
                         /\ n \notin ValuesOf(Widest(t))
    BY DEF ReadingsAreKept
  <2>1. /\ t \in Types /\ r \in Readings
        /\ v \in NewResults(t, r)
    BY DEF ComputedInv
  <2>2. PICK wide \in Widened(t, r) : wide \in ValuesOf(t) /\ v \in Cast(t, r)
    BY <2>1 DEF NewResults, InRange
  <2>3. /\ t.signed \in BOOLEAN /\ t.limit \in 1..Wide
        /\ Wide \in Nat /\ Wide > 1
        /\ Widest(t).signed = t.signed /\ Widest(t).limit = Wide
    BY <2>1, ReadingsAssumption, WideAssumption DEF Widest
  <2>4. /\ ~IsError(t, r) /\ r.go # "text"
        /\ v \in Converted(t, r) /\ wide \in Converted(Widest(t), r)
    BY <2>2 DEF Cast, Widened, IsError
  <2>5. CASE r.go = "nil"
    BY <2>4, <2>5 DEF Converted
  <2>6. CASE r.go # "nil" /\ n \in ValuesOf(Widest(t))
    <3>1. HasValue(r)
      BY <2>1, <2>4, <2>6, ReadingsAssumption DEF HasValue
    <3>2. wide = n
      BY <2>3, <2>4, <2>6, <3>1, ConvertedStays
    <3>3. v = n
      BY <2>2, <2>3, <2>4, <3>1, <3>2, ConvertedStays
    <3> QED
      BY <3>1, <3>3
  <2>7. CASE r.go # "nil" /\ n \notin ValuesOf(Widest(t))
    <3>1. r.go \notin {"int", "bool"}
      <4>1. ASSUME r.go = "bool"  PROVE n \in {0, 1}
        BY <4>1 DEF NumberIn
      <4>2. ASSUME r.go = "int"
            PROVE  n \in Signed(Wide) /\ (t.signed \/ n >= 0)
        BY <2>1, <2>3, <2>4, <4>2, ReadingsAssumption
        DEF NumberIn, IsError, IsNegative, Signed
      <4> QED
        BY <2>3, <2>7, <4>1, <4>2 DEF ValuesOf, Signed, Unsigned
    <3> QED
      BY <2>1, <2>4, <2>7, <3>1, ReadingsAssumption
  <2> QED
    BY <2>5, <2>6, <2>7
<1> QED
  BY <1>1, ComputedInvHolds, PTL

-----------------------------------------------------------------------------
(* Addresses of servers.                                                   *)

\* For all listeners, nodes and ingresses, the server is given the address that
\* its clients are told, unless there are both kinds of one at an ingress, or
\* several nodes with an internal one (federatedlearning_server.go).
THEOREM EndpointsAgreeAlways == Spec => []EndpointsAgree
<1>1. ComputedInv => EndpointsAgree
  <2> SUFFICES ASSUME ComputedInv, task = "endpoint", output # Pending,
                      output.server # output.clients
               PROVE  \/ /\ input.listener.type = "LoadBalancer"
                         /\ Missing \notin {input.ingress[1].ip,
                                            input.ingress[1].hostname}
                      \/ /\ input.listener.type # "LoadBalancer"
                         /\ input.listener.ip = Missing
                         /\ \E i, j \in WithInternalIP(input.nodes) : i # j
    BY DEF EndpointsAgree
  <2> DEFINE some == WithInternalIP(input.nodes)
  <2>1. /\ output.server =
             ListenerIP(input.listener, input.nodes, input.ingress)
        /\ output.clients =
             Published(input.listener, input.nodes, input.ingress)
    BY DEF ComputedInv
  <2>2. CASE input.listener.type = "LoadBalancer"
    BY <2>1, <2>2 DEF ListenerIP, Published, PublishedLB, IngressReady
  <2>3. CASE input.listener.type # "LoadBalancer"
    <3>1. /\ input.listener.ip = Missing
          /\ some # {}
          /\ Min(some) # Max(some)
      BY <2>1, <2>3 DEF ListenerIP, Published, PublishedNP
    <3>2. ASSUME NEW i \in some, some = {i}  PROVE FALSE
      <4>1. i \in Nat
        BY EndpointsAssumption DEF ComputedInv, WithInternalIP
      <4>2. Min({i}) = i /\ Max({i}) = i
        BY <4>1 DEF Min, Max
      <4> QED
        BY <3>1, <3>2, <4>2
    <3> QED
      BY <2>3, <3>1, <3>2
  <2> QED
    BY <2>2, <2>3
<1> QED
  BY <1>1, ComputedInvHolds, PTL

-----------------------------------------------------------------------------
(* The volume and the claim of a storage.                                  *)

\* The wanted volume, with a reference to a claim.
VolumeWith(s, claim) ==
  [driver |-> "s3", bucket |-> s.bucket, modes |-> <<"Many">>,
   capacity |-> s.size, class |-> "", options |-> s.options, claim |-> claim]

\* The provers need a name for each field to see what EXCEPT keeps.
LEMMA VolumeWithOther ==
  ASSUME NEW s, NEW old, NEW claim
  PROVE  [VolumeWith(s, old) EXCEPT !.claim = claim] = VolumeWith(s, claim)
<1>1. PICK d, b, m, z, e, o :
        /\ d = "s3" /\ b = s.bucket /\ m = <<"Many">>
        /\ z = s.size /\ e = "" /\ o = s.options
  OBVIOUS
<1>2. \A c : VolumeWith(s, c) =
        [driver |-> d, bucket |-> b, modes |-> m, capacity |-> z, class |-> e,
         options |-> o, claim |-> c]
  BY <1>1 DEF VolumeWith
<1>3. [[driver |-> d, bucket |-> b, modes |-> m, capacity |-> z, class |-> e,
        options |-> o, claim |-> old] EXCEPT !.claim = claim]
        = [driver |-> d, bucket |-> b, modes |-> m, capacity |-> z,
           class |-> e, options |-> o, claim |-> claim]
  OBVIOUS
<1> QED
  BY <1>2, <1>3

LEMMA DesiredIsWith ==
  \A s : DesiredVolume(s)
           = VolumeWith(s, [namespace |-> "n1", bound |-> FALSE])
BY DEF DesiredVolume, VolumeWith

LEMMA PatchedVolume ==
  ASSUME NEW s, NEW volume
  PROVE  PatchVolume(s, volume) =
           IF volume = Missing \/ volume.claim = Missing
                \/ volume.claim.namespace # "n1"
           THEN VolumeWith(s, [namespace |-> "n1", bound |-> FALSE])
           ELSE VolumeWith(s, volume.claim)
BY DesiredIsWith, VolumeWithOther DEF PatchVolume

\* A patched volume refers to the claim, and keeps the reference it had to it.
LEMMA PatchedClaim ==
  ASSUME NEW s \in Storages, NEW store \in Stores
  PROVE  \E claim :
           /\ PatchVolume(s, store.volume) = VolumeWith(s, claim)
           /\ claim # Missing /\ claim.namespace = "n1"
           /\ claim = [namespace |-> "n1", bound |-> claim.bound]
           /\ \/ claim = [namespace |-> "n1", bound |-> FALSE]
              \/ claim = store.volume.claim
           /\ /\ store.volume # Missing
              /\ store.volume.claim = [namespace |-> "n1", bound |-> TRUE]
              => claim.bound
<1> DEFINE old == store.volume
           free == [namespace |-> "n1", bound |-> FALSE]
           kept == ~(old = Missing \/ old.claim = Missing
                       \/ old.claim.namespace # "n1")
<1>1. CASE kept
  <2> DEFINE claim == old.claim
  <2>1. PatchVolume(s, old) = VolumeWith(s, claim)
    BY <1>1, PatchedVolume
  <2>2. claim = [namespace |-> "n1", bound |-> claim.bound]
    BY <1>1, StorageAssumption
  <2> QED
    BY <1>1, <2>1, <2>2
<1>2. CASE ~kept
  <2>1. PatchVolume(s, old) = VolumeWith(s, free)
    BY <1>2, PatchedVolume
  <2>2. free # Missing
    BY StorageAssumption
  <2>3. ASSUME old # Missing,
               old.claim = [namespace |-> "n1", bound |-> TRUE]
        PROVE  FALSE
    <3>1. Missing # [namespace |-> "n1", bound |-> TRUE]
      BY StorageAssumption
    <3>2. old.claim.namespace = "n1"
      BY <2>3
    <3> QED
      BY <1>2, <2>3, <3>1, <3>2
  <2> QED
    BY <2>1, <2>2, <2>3
<1> QED
  BY <1>1, <1>2

LEMMA VolumeClaim == \A s, claim : VolumeWith(s, claim).claim = claim
BY DEF VolumeWith

\* Patching a volume twice is patching it once: the reference to the claim that
\* was kept is kept again.
LEMMA PatchTwice ==
  ASSUME NEW s \in Storages, NEW store \in Stores
  PROVE  PatchVolume(s, PatchVolume(s, store.volume))
           = PatchVolume(s, store.volume)
<1>1. PICK new : new = PatchVolume(s, store.volume)
  OBVIOUS
<1>2. new # Missing
  BY <1>1, StorageAssumption
<1>3. PICK claim : new = VolumeWith(s, claim) /\ claim.namespace = "n1"
                     /\ claim # Missing
  BY <1>1, PatchedClaim
<1> QED
  BY <1>1, <1>2, <1>3, PatchedVolume, VolumeClaim

StoreOf(volume, claim) == [volume |-> volume, claim |-> claim]

LEMMA StoreParts ==
  /\ \A store \in Stores : \E v, c : store = StoreOf(v, c) /\ v = store.volume
  /\ \A v, c :
       /\ StoreOf(v, c).volume = v
       /\ StoreOf(v, c).claim = c
       /\ \A x : /\ [StoreOf(v, c) EXCEPT !.volume = x] = StoreOf(x, c)
                 /\ [StoreOf(v, c) EXCEPT !.claim = x] = StoreOf(v, x)
<1>1. \A store \in Stores : \E v, c : store = StoreOf(v, c) /\ v = store.volume
  BY StorageAssumption DEF StoreOf
<1>2. ASSUME NEW v, NEW c
      PROVE  /\ StoreOf(v, c).volume = v
             /\ StoreOf(v, c).claim = c
             /\ \A x : /\ [StoreOf(v, c) EXCEPT !.volume = x] = StoreOf(x, c)
                       /\ [StoreOf(v, c) EXCEPT !.claim = x] = StoreOf(v, x)
  BY DEF StoreOf
<1> QED
  BY <1>1, <1>2

\* The two results that a call can have for a store.
Ready(store) == Result(store, TRUE)
Unready(store) == Result(store, FALSE)

LEMMA ResultFields ==
  \A store :
    /\ Ready(store).store = store /\ Ready(store).ok
    /\ Unready(store).store = store /\ ~Unready(store).ok
BY DEF Result, Ready, Unready

\* What a call for a claim without a volume of its own comes to.
LEMMA StandardOutcome ==
  ASSUME NEW s \in Storages, s.type = "PVC", NEW v, NEW c, NEW failing
  PROVE  /\ s.size = Missing \/ failing = "claim"
              => Ensure(s, StoreOf(v, c), failing)
                        = Unready(StoreOf(v, c))
         /\ s.size # Missing /\ failing # "claim" =>
              /\ c # Missing => Ensure(s, StoreOf(v, c), failing)
                        = Ready(StoreOf(v, c))
              /\ c = Missing /\ s.size = Unparsable
                   => Ensure(s, StoreOf(v, c), failing)
                        = Unready(StoreOf(v, c))
              /\ c = Missing /\ s.size # Unparsable
                   => Ensure(s, StoreOf(v, c), failing)
                        = Ready(StoreOf(v, StandardClaim(s)))
<1>1. PICK store : store = StoreOf(v, c)
  OBVIOUS
<1>2. /\ store.claim = c
      /\ [store EXCEPT !.claim = StandardClaim(s)]
           = StoreOf(v, StandardClaim(s))
  BY <1>1, StoreParts
<1>3. Ensure(s, store, failing) = EnsureStandardPVC(s, store, failing)
  BY DEF Ensure
<1> QED
  BY <1>1, <1>2, <1>3 DEF EnsureStandardPVC, Ready, Unready

\* What a call for a claim of a bucket comes to: whether it can keep the volume,
\* and whether the claim fits.
Kept(s, v) ==
  /\ s.size \notin {Missing, Unparsable} /\ s.bucket # Missing
  /\ Written(v, PatchVolume(s, v), VolumeAccepted(v, PatchVolume(s, v)))

Fits(s, c) == Written(c, DesiredClaim(s), ClaimAccepted(c, DesiredClaim(s)))

LEMMA BucketOutcome ==
  ASSUME NEW s \in Storages, s.type = "S3Bucket", NEW v, NEW c, NEW failing
  PROVE  /\ ~Kept(s, v) \/ failing = "volume"
              => Ensure(s, StoreOf(v, c), failing)
                        = Unready(StoreOf(v, c))
         /\ Kept(s, v) /\ failing # "volume" =>
              /\ Fits(s, c) /\ failing # "claim"
                   => Ensure(s, StoreOf(v, c), failing)
                        = Ready(StoreOf(PatchVolume(s, v), DesiredClaim(s)))
              /\ ~Fits(s, c) \/ failing = "claim"
                   => Ensure(s, StoreOf(v, c), failing)
                        = Unready(StoreOf(PatchVolume(s, v), c))
<1>1. PICK store, new :
        store = StoreOf(v, c) /\ new = PatchVolume(s, v)
  OBVIOUS
<1>2. /\ store.volume = v /\ store.claim = c
      /\ [store EXCEPT !.volume = new] = StoreOf(new, c)
      /\ [volume |-> new, claim |-> DesiredClaim(s)]
           = StoreOf(new, DesiredClaim(s))
  BY <1>1, StoreParts DEF StoreOf
<1>3. Ensure(s, store, failing) = EnsureS3PVC(s, store, failing)
  BY DEF Ensure
<1> QED
  BY <1>1, <1>2, <1>3 DEF EnsureS3PVC, EnsureClaim, Kept, Fits,
                              Ready, Unready

\* A later call without a failure ends where it would have ended without the
\* earlier one, and after an earlier one that was ready finds nothing to write.
LEMMA EnsureAgain ==
  ASSUME NEW s \in Storages, NEW store \in Stores, NEW failing,
         NEW after, after = Ensure(s, store, failing)
  PROVE  /\ after.ok => Ensure(s, after.store, "none") = after
         /\ Ensure(s, after.store, "none") = Ensure(s, store, "none")
<1>1. PICK v, c : store = StoreOf(v, c) /\ v = store.volume
  BY StoreParts
<1>2. CASE s.type = "PVC"
  <2>1. PICK claim : claim = StandardClaim(s) /\ claim # Missing
    BY StorageAssumption
  <2>2. \/ after = Unready(StoreOf(v, c))
        \/ /\ s.size # Missing /\ c # Missing
           /\ after = Ready(StoreOf(v, c))
        \/ /\ s.size # Missing /\ c = Missing /\ s.size # Unparsable
           /\ after = Ready(StoreOf(v, claim))
    BY <1>1, <1>2, <2>1, StandardOutcome
  <2> QED
    BY <1>1, <1>2, <2>1, <2>2, StandardOutcome, ResultFields
<1>3. CASE s.type = "S3Bucket"
  <2>1. PICK new : new = PatchVolume(s, v) /\ new = PatchVolume(s, new)
    BY <1>1, PatchTwice
  <2>2. PICK claim : claim = DesiredClaim(s)
    OBVIOUS
  <2>3. Fits(s, claim) /\ (Kept(s, v) => Kept(s, new))
    BY <2>1, <2>2 DEF Fits, Kept, Written
  <2>4. \/ after = Unready(StoreOf(v, c))
        \/ /\ Kept(s, v) /\ Fits(s, c)
           /\ after = Ready(StoreOf(new, claim))
        \/ /\ Kept(s, v)
           /\ after = Unready(StoreOf(new, c))
    BY <1>1, <1>3, <2>1, <2>2, BucketOutcome
  <2> QED
    BY <1>1, <1>3, <2>1, <2>2, <2>3, <2>4, BucketOutcome, ResultFields
<1>4. CASE s.type # "PVC" /\ s.type # "S3Bucket"
  <2>1. \A d, f : Ensure(s, d, f) = Unready(d)
    BY <1>4 DEF Ensure, Unready
  <2> QED
    BY <2>1, ResultFields
<1> QED
  BY <1>2, <1>3, <1>4

\* What a call that reports the storage as ready has stored.
LEMMA ReadyMeans ==
  ASSUME NEW s \in Storages, NEW store \in Stores, NEW failing,
         NEW after, after = Ensure(s, store, failing), after.ok
  PROVE  /\ after.store.claim # Missing
         /\ s.type = "S3Bucket" =>
              /\ after.store.claim = DesiredClaim(s)
              /\ after.store.volume = PatchVolume(s, store.volume)
<1>1. PICK v, c : store = StoreOf(v, c) /\ v = store.volume
  BY StoreParts
<1>2. CASE s.type = "PVC"
  <2>1. \/ after = Unready(StoreOf(v, c))
        \/ c # Missing /\ after = Ready(StoreOf(v, c))
        \/ after = Ready(StoreOf(v, StandardClaim(s)))
    BY <1>1, <1>2, StandardOutcome
  <2> QED
    BY <1>2, <2>1, ResultFields, StoreParts, StorageAssumption
<1>3. CASE s.type = "S3Bucket"
  <2>1. \/ after = Unready(StoreOf(v, c))
        \/ after = Unready(StoreOf(PatchVolume(s, v), c))
        \/ after = Ready(StoreOf(PatchVolume(s, v), DesiredClaim(s)))
    BY <1>1, <1>3, BucketOutcome
  <2> QED
    BY <1>1, <2>1, ResultFields, StoreParts, StorageAssumption
<1>4. CASE s.type # "PVC" /\ s.type # "S3Bucket"
  BY <1>4, ResultFields DEF Ensure, Unready
<1> QED
  BY <1>2, <1>3, <1>4

\* For all storages and whatever is stored, storage that is reported as ready
\* is as the training asks, and a later call finds nothing to write or makes up
\* for one that failed (ensurePVC of federatedlearning_server.go).
THEOREM StorageAsAskedAlways == Spec => []StorageAsAsked
<1>1. ComputedInv => StorageAsAsked
  <2> SUFFICES ASSUME ComputedInv, Ensured
               PROVE  StorageAsAsked
    BY DEF StorageAsAsked
  <2>1. PICK s \in Storages, store \in Stores :
          /\ s = input.storage /\ store = input.store
          /\ output = Ensure(s, store, input.failing)
    BY DEF ComputedInv, Ensured
  <2>2. /\ output.ok => Ensure(s, output.store, "none") = output
        /\ Ensure(s, output.store, "none") = Ensure(s, store, "none")
    BY <2>1, EnsureAgain
  <2>3. output.ok => output.store.claim # Missing
    BY <2>1, ReadyMeans
  <2>4. ASSUME output.ok, s.type = "S3Bucket"
        PROVE  LET volume == output.store.volume
                   before == store.volume IN
               /\ output.store.claim = DesiredClaim(s)
               /\ volume.claim.namespace = "n1"
               /\ [volume EXCEPT !.claim.bound = FALSE] = DesiredVolume(s)
               /\ before # Missing =>
                    (before.claim = [namespace |-> "n1", bound |-> TRUE]
                       => volume.claim.bound)
    <3>1. /\ output.store.claim = DesiredClaim(s)
          /\ output.store.volume = PatchVolume(s, store.volume)
      BY <2>1, <2>4, ReadyMeans
    <3>2. PICK volume : volume = output.store.volume
      OBVIOUS
    <3>3. PICK claim :
            /\ volume = VolumeWith(s, claim) /\ claim.namespace = "n1"
            /\ claim = [namespace |-> "n1", bound |-> claim.bound]
            /\ /\ store.volume # Missing
               /\ store.volume.claim = [namespace |-> "n1", bound |-> TRUE]
               => claim.bound
      BY <3>1, <3>2, PatchedClaim
    <3>4. volume.claim = claim
      BY <3>3, VolumeClaim
    <3>5. PICK free : free = [claim EXCEPT !.bound = FALSE]
      OBVIOUS
    <3>6. [volume EXCEPT !.claim.bound = FALSE] = VolumeWith(s, free)
      <4>1. [volume EXCEPT !.claim.bound = FALSE] = [volume EXCEPT !.claim = free]
        BY <3>4, <3>5
      <4> QED
        BY <3>3, <4>1, VolumeWithOther
    <3>7. free = [namespace |-> "n1", bound |-> FALSE]
      <4>1. PICK n, b : n = "n1" /\ claim = [namespace |-> n, bound |-> b]
        BY <3>3
      <4> QED
        BY <3>5, <4>1
    <3>8. [volume EXCEPT !.claim.bound = FALSE] = DesiredVolume(s)
      BY <3>6, <3>7, DesiredIsWith
    <3> QED
      BY <3>1, <3>2, <3>3, <3>4, <3>8
  <2> QED
    BY <2>1, <2>2, <2>3, <2>4 DEF StorageAsAsked
<1> QED
  BY <1>1, ComputedInvHolds, PTL

-----------------------------------------------------------------------------
(* What the deployer makes of a manifest.                                  *)

\* What the API server stores of a manifest does not differ from it.
LEMMA StoredDoesNotDiffer ==
  ASSUME NEW m \in Manifests, NEW kind
  PROVE  ~Differs(kind, m.desired, Stored(m.desired))
<1>1. ASSUME NEW part \in Compared(kind)
      PROVE  Derivative(m.desired[part], Stored(m.desired)[part])
  <2>1. PICK wanted \in Seq(Nat) : wanted = m.desired[part]
    BY ManifestsAssumption DEF Compared
  <2>2. PICK found : found = [i \in DOMAIN wanted |->
                                IF wanted[i] = 0 THEN 1 ELSE wanted[i]]
    OBVIOUS
  <2>3. Stored(m.desired)[part] = found
    BY <2>1, <2>2, ManifestsAssumption DEF Stored, Compared
  <2>4. Len(wanted) = Len(found)
    BY <2>2
  <2>5. \A i \in DOMAIN wanted : wanted[i] \in {0, found[i]}
    BY <2>2
  <2> QED
    BY <2>1, <2>3, <2>4, <2>5 DEF Derivative
<1> QED
  BY <1>1 DEF Differs

\* For all manifests and stored objects, at most two calls bring the object to
\* what the manifest sets, and later ones leave it alone (deployer.go).
THEOREM DeployConvergesAlways == Spec => []DeployConverges
<1>1. ComputedInv => DeployConverges
  <2> SUFFICES ASSUME ComputedInv, task = "deploy", output # Pending
               PROVE  DeployConverges
    BY DEF DeployConverges
  <2>1. /\ input \in Manifests
        /\ output.object =
             Deploy(input.kind, input.skip, input.desired, input.found)
    BY DEF ComputedInv
  <2> DEFINE Again(object) ==
               Deploy(input.kind, input.skip, input.desired, object)
             new == Stored(input.desired)
  <2>2. ~Differs(input.kind, input.desired, new)
    BY <2>1, StoredDoesNotDiffer
  <2>3. Again(Missing) = new /\ Again(new) = new
    BY <2>2 DEF Deploy
  <2>4. CASE input.found = Missing \/ output.object \in {new, Missing}
    <3>1. output.object \in {new, Missing}
      BY <2>1, <2>3, <2>4
    <3> QED
      BY <2>2, <2>3, <3>1 DEF DeployConverges
  <2>5. CASE /\ input.found # Missing /\ ~input.skip
             /\ ~Refused(input.kind, input.desired, input.found)
             /\ output.object \notin {new, Missing}
    <3>1. /\ output.object = input.found
          /\ ~Differs(input.kind, input.desired, input.found)
      BY <2>1, <2>5 DEF Deploy, Replace
    <3>2. Again(input.found) = input.found
      BY <2>5, <3>1 DEF Deploy
    <3> QED
      BY <2>5, <3>1, <3>2 DEF DeployConverges
  <2> QED
    BY <2>4, <2>5 DEF DeployConverges
<1> QED
  BY <1>1, ComputedInvHolds, PTL

-----------------------------------------------------------------------------
(* Registrations of clusters.                                              *)

Clusters == {e.cluster : e \in Registrations}

GrantsType ==
  [clusterRole : BOOLEAN, roles : SUBSET Clusters,
   clusterBinding : Clusters \cup {NoCluster}, bindings : SUBSET Clusters]

\* A call takes nothing away.
Keeps(old, new) ==
  /\ new \in GrantsType
  /\ old.clusterRole => new.clusterRole
  /\ old.clusterBinding # NoCluster => new.clusterBinding # NoCluster
  /\ old.roles \subseteq new.roles /\ old.bindings \subseteq new.bindings

LEMMA CallsKeep ==
  ASSUME NEW grants \in GrantsType, NEW c \in Clusters
  PROVE  /\ Keeps(grants, grants)
         /\ Keeps(grants, WithClusterRole(grants))
         /\ WithClusterRole(grants).clusterRole
         /\ Keeps(grants, WithRole(grants, c))
         /\ c \in WithRole(grants, c).roles
         /\ Keeps(grants, WithClusterBinding(grants, c))
         /\ WithClusterBinding(grants, c).clusterBinding # NoCluster
         /\ Keeps(grants, WithBinding(grants, c))
         /\ c \in WithBinding(grants, c).bindings
<1>1. c # NoCluster
  BY RegistrationsAssumption DEF Clusters
<1>2. Keeps(grants, grants)
  BY DEF Keeps
<1>3. /\ Keeps(grants, WithClusterRole(grants))
      /\ WithClusterRole(grants).clusterRole
  BY DEF Keeps, GrantsType, WithClusterRole
<1>4. Keeps(grants, WithRole(grants, c)) /\ c \in WithRole(grants, c).roles
  BY DEF Keeps, GrantsType, WithRole
<1>5. /\ Keeps(grants, WithClusterBinding(grants, c))
      /\ WithClusterBinding(grants, c).clusterBinding # NoCluster
  BY <1>1 DEF Keeps, GrantsType, WithClusterBinding
<1>6. /\ Keeps(grants, WithBinding(grants, c))
      /\ c \in WithBinding(grants, c).bindings
  BY DEF Keeps, GrantsType, WithBinding
<1> QED
  BY <1>2, <1>3, <1>4, <1>5, <1>6

LEMMA KeepsIsTransitive ==
  ASSUME NEW a, NEW b, NEW c, Keeps(a, b), Keeps(b, c)
  PROVE  Keeps(a, c)
BY DEF Keeps

\* A registration takes nothing away, and gives everything when it reaches its
\* end.
LEMMA RegistrationKeeps ==
  ASSUME NEW grants \in GrantsType, NEW c \in Clusters, NEW failing,
         NEW after, after = AddonRBAC(grants, c, failing)
  PROVE  /\ Keeps(grants, after)
         /\ failing = AllCreated =>
              /\ c \in after.roles \cap after.bindings
              /\ after.clusterRole /\ after.clusterBinding # NoCluster
<1>1. PICK one : /\ one = WithClusterRole(grants) /\ one \in GrantsType
                 /\ Keeps(grants, one) /\ one.clusterRole
  BY CallsKeep DEF Keeps
<1>2. PICK two : /\ two = WithRole(one, c) /\ two \in GrantsType
                 /\ Keeps(one, two) /\ c \in two.roles
  <2>1. Keeps(one, WithRole(one, c)) /\ c \in WithRole(one, c).roles
    BY <1>1, CallsKeep
  <2> QED
    BY <2>1 DEF Keeps
<1>3. PICK three : /\ three = WithClusterBinding(two, c)
                   /\ three \in GrantsType /\ Keeps(two, three)
                   /\ three.clusterBinding # NoCluster
  <2>1. /\ Keeps(two, WithClusterBinding(two, c))
        /\ WithClusterBinding(two, c).clusterBinding # NoCluster
    BY <1>2, CallsKeep
  <2> QED
    BY <2>1 DEF Keeps
<1>4. PICK four : /\ four = WithBinding(three, c)
                  /\ Keeps(three, four) /\ c \in four.bindings
  BY <1>3, CallsKeep
<1>5. after \in {grants, one, two, three, four}
  BY <1>1, <1>2, <1>3, <1>4 DEF AddonRBAC
<1>6. failing = AllCreated => after = four
  BY <1>1, <1>2, <1>3, <1>4 DEF AddonRBAC, AllCreated
<1>7. /\ Keeps(grants, grants) /\ Keeps(grants, one) /\ Keeps(grants, two)
      /\ Keeps(grants, three) /\ Keeps(grants, four)
  BY <1>1, <1>2, <1>3, <1>4, CallsKeep, KeepsIsTransitive
<1>8. /\ c \in four.roles \cap four.bindings
      /\ four.clusterRole /\ four.clusterBinding # NoCluster
  BY <1>1, <1>2, <1>3, <1>4 DEF Keeps
<1> QED
  BY <1>5, <1>6, <1>7, <1>8

\* A cluster that is detached takes only its own.
LEMMA DetachKeeps ==
  ASSUME NEW grants \in GrantsType, NEW c,
         NEW after, after = Detach(grants, c)
  PROVE  /\ after \in GrantsType
         /\ after.clusterRole = grants.clusterRole
         /\ after.clusterBinding = grants.clusterBinding
         /\ after.roles = grants.roles \ {c}
         /\ after.bindings = grants.bindings \ {c}
BY DEF GrantsType, Detach

\* A cluster has all but, perhaps, the cluster binding.
IsGranted(grants, c) ==
  /\ c \in grants.roles \cap grants.bindings
  /\ grants.clusterRole /\ grants.clusterBinding # NoCluster

\* The cluster binding is that of the first cluster that got past it.
BoundToFirst(history, c) ==
  IF c = NoCluster THEN \A j \in DOMAIN history : ~Binds(history[j])
  ELSE \E j \in DOMAIN history :
         /\ Binds(history[j]) /\ history[j].cluster = c
         /\ \A k \in 1..j-1 : ~Binds(history[k])

\* The inductive invariant of the registrations: the input is their history.
RegisterInv ==
  task = "register" =>
    /\ input \in Seq(Registrations)
    /\ output.grants \in GrantsType
    /\ \A i \in DOMAIN input :
         Registered(input, i) => IsGranted(output.grants, input[i].cluster)
    /\ BoundToFirst(input, output.grants.clusterBinding)

LEMMA RegisterInvInit == Init => RegisterInv
<1> SUFFICES ASSUME Init, task = "register"  PROVE RegisterInv
  BY DEF RegisterInv
<1>1. input = <<>> /\ output = [grants |-> NoGrants]
  BY DEF Init
<1>2. NoGrants \in GrantsType /\ NoGrants.clusterBinding = NoCluster
  BY DEF NoGrants, GrantsType
<1> QED
  BY <1>1, <1>2 DEF RegisterInv, BoundToFirst

\* One more registration leaves those that were there and gives its own.
LEMMA OneMoreRegistration ==
  ASSUME NEW history \in Seq(Registrations), NEW grants \in GrantsType,
         NEW e \in Registrations,
         \A i \in DOMAIN history :
           Registered(history, i) => IsGranted(grants, history[i].cluster),
         NEW longer, longer = Append(history, e),
         NEW after, after = After(grants, e)
  PROVE  /\ after \in GrantsType
         /\ \A i \in DOMAIN longer :
              Registered(longer, i) => IsGranted(after, longer[i].cluster)
<1>1. PICK n \in Nat : n = Len(history)
  OBVIOUS
<1>2. /\ Len(longer) = n + 1 /\ longer[n + 1] = e
      /\ \A i \in 1..n : longer[i] = history[i]
      /\ DOMAIN longer = 1..(n + 1) /\ DOMAIN history = 1..n
  BY <1>1
<1>3. e.cluster \in Clusters
  BY DEF Clusters
<1>4. ASSUME NEW i \in 1..n, Registered(longer, i)
      PROVE  /\ IsGranted(grants, longer[i].cluster)
             /\ e.detached => e.cluster # longer[i].cluster
  <2>1. Registered(history, i)
    BY <1>1, <1>2, <1>4 DEF Registered
  <2>2. e.detached => e.cluster # longer[i].cluster
    BY <1>1, <1>2, <1>4 DEF Registered
  <2> QED
    BY <1>2, <2>1, <2>2
<1>5. CASE e.detached
  <2>1. after = Detach(grants, e.cluster)
    BY <1>5 DEF After
  <2>2. ~Registered(longer, n + 1)
    BY <1>2, <1>5 DEF Registered
  <2> QED
    BY <1>2, <1>4, <1>5, <2>1, <2>2, DetachKeeps DEF IsGranted
<1>6. CASE ~e.detached
  <2>1. after = AddonRBAC(grants, e.cluster, e.failing)
    BY <1>6 DEF After
  <2>2. /\ Keeps(grants, after)
        /\ e.failing = AllCreated => IsGranted(after, e.cluster)
    BY <1>3, <2>1, RegistrationKeeps DEF IsGranted
  <2>3. \A c : IsGranted(grants, c) => IsGranted(after, c)
    BY <2>2 DEF IsGranted, Keeps
  <2>4. Registered(longer, n + 1) => e.failing = AllCreated
    BY <1>2 DEF Registered
  <2> QED
    BY <1>2, <1>4, <2>2, <2>3, <2>4 DEF Keeps
<1> QED
  BY <1>5, <1>6

\* The cluster binding goes to the first that gets past it, and stays.
LEMMA BindingStaysFirst ==
  ASSUME NEW history \in Seq(Registrations), NEW grants \in GrantsType,
         NEW e \in Registrations, BoundToFirst(history, grants.clusterBinding),
         NEW longer, longer = Append(history, e),
         NEW after, after = After(grants, e)
  PROVE  BoundToFirst(longer, after.clusterBinding)
<1>1. PICK n \in Nat : n = Len(history)
  OBVIOUS
<1>2. /\ longer[n + 1] = e
      /\ \A i \in 1..n : longer[i] = history[i]
      /\ DOMAIN longer = 1..(n + 1) /\ DOMAIN history = 1..n
  BY <1>1
<1>3. /\ e.cluster \in Clusters /\ e.cluster # NoCluster
      /\ e.detached \in BOOLEAN /\ e.failing \in 1..5
  BY RegistrationsAssumption DEF Clusters, AllCreated
<1>4. after.clusterBinding =
        IF Binds(e) /\ grants.clusterBinding = NoCluster THEN e.cluster
        ELSE grants.clusterBinding
  <2>1. CASE e.detached
    BY <2>1, DetachKeeps DEF After, Binds
  <2>2. CASE ~e.detached
    <3> DEFINE c == e.cluster
               one == WithClusterRole(grants)
               two == WithRole(one, c)
               three == WithClusterBinding(two, c)
               four == WithBinding(three, c)
    <3>1. /\ one \in GrantsType /\ one.clusterBinding = grants.clusterBinding
          /\ two \in GrantsType /\ two.clusterBinding = one.clusterBinding
          /\ three \in GrantsType
          /\ three.clusterBinding = IF two.clusterBinding = NoCluster THEN c
                                    ELSE two.clusterBinding
          /\ four.clusterBinding = three.clusterBinding
      BY <1>3 DEF WithClusterRole, WithRole, WithClusterBinding, WithBinding,
                  GrantsType
    <3>2. after = AddonRBAC(grants, c, e.failing)
      BY <2>2 DEF After
    <3>3. /\ e.failing = 1 => after = grants
          /\ e.failing = 2 => after = one
          /\ e.failing = 3 => after = two
          /\ e.failing = 4 => after = three
          /\ e.failing = 5 => after = four
      BY <3>2 DEF AddonRBAC
    <3>4. Binds(e) <=> e.failing \in {4, 5}
      BY <1>3, <2>2 DEF Binds
    <3> HIDE DEF c, one, two, three, four
    <3> QED
      BY <1>3, <3>1, <3>3, <3>4 DEF c
  <2> QED
    BY <2>1, <2>2
<1>5. CASE grants.clusterBinding = NoCluster
  <2>1. \A j \in 1..n : ~Binds(longer[j])
    BY <1>2, <1>5 DEF BoundToFirst
  <2>2. CASE Binds(e)
    <3>1. n + 1 \in DOMAIN longer /\ n + 1 - 1 = n
      BY <1>2
    <3> QED
      BY <1>2, <1>3, <1>4, <1>5, <2>1, <2>2, <3>1 DEF BoundToFirst
  <2>3. CASE ~Binds(e)
    BY <1>2, <1>4, <1>5, <2>1, <2>3 DEF BoundToFirst
  <2> QED
    BY <2>2, <2>3
<1>6. CASE grants.clusterBinding # NoCluster
  <2>1. PICK j \in 1..n :
          /\ Binds(history[j]) /\ history[j].cluster = grants.clusterBinding
          /\ \A k \in 1..j-1 : ~Binds(history[k])
    BY <1>2, <1>6 DEF BoundToFirst
  <2>2. \A k \in 1..j-1 : k \in 1..n
    BY <2>1
  <2> QED
    BY <1>2, <1>4, <1>6, <2>1, <2>2 DEF BoundToFirst
<1> QED
  BY <1>5, <1>6

\* Whatever is registered, interrupted by failing calls and detached, and in
\* whatever order, a cluster whose last registration reached its end has its
\* role, its binding and the cluster role, and the cluster binding is its own
\* unless another cluster came first (addonRBAC of
\* device-addon/pkg/addon/hub/manager.go).
THEOREM RegisteredAreGrantedAlways == Spec => []RegisteredAreGranted
<1>1. RegisterInv /\ [Next]_vars => RegisterInv'
  <2> SUFFICES ASSUME RegisterInv, [Next]_vars, task' = "register"
               PROVE  RegisterInv'
    BY DEF RegisterInv
  <2>1. CASE Register
    <3>1. PICK e \in Registrations :
            /\ input' = Append(input, e) /\ task = "register"
            /\ output' = [grants |-> After(output.grants, e)]
      BY <2>1 DEF Register
    <3>2. output'.grants = After(output.grants, e)
      BY <3>1
    <3>3. /\ input \in Seq(Registrations) /\ output.grants \in GrantsType
          /\ \A i \in DOMAIN input :
               Registered(input, i)
                 => IsGranted(output.grants, input[i].cluster)
          /\ BoundToFirst(input, output.grants.clusterBinding)
      BY <3>1 DEF RegisterInv
    <3>4. /\ output'.grants \in GrantsType
          /\ \A i \in DOMAIN input' :
               Registered(input', i)
                 => IsGranted(output'.grants, input'[i].cluster)
      BY <3>1, <3>2, <3>3, OneMoreRegistration
    <3>5. BoundToFirst(input', output'.grants.clusterBinding)
      BY <3>1, <3>2, <3>3, BindingStaysFirst
    <3> QED
      BY <3>1, <3>3, <3>4, <3>5 DEF RegisterInv
  <2>2. CASE UNCHANGED vars
    BY <2>2 DEF vars, RegisterInv
  <2>3. task # "register" \/ Register \/ UNCHANGED vars
    BY DEF Next, vars, Summarise, Score, Read, Store, FindEndpoint,
           DeployManifest, Publish
  <2>4. task = task'
    BY DEF Next, vars, Summarise, Score, Read, Store, FindEndpoint,
           DeployManifest, Publish, Register
  <2> QED
    BY <2>1, <2>2, <2>3, <2>4
<1>2. RegisterInv => RegisteredAreGranted
  <2> SUFFICES ASSUME RegisterInv, task = "register",
                      NEW i \in DOMAIN input, Registered(input, i),
                      NEW b, b = output.grants.clusterBinding
               PROVE  LET c == input[i].cluster IN
                      /\ c \in output.grants.roles \cap output.grants.bindings
                      /\ output.grants.clusterRole
                      /\ b = c \/ CameSecond(input, c)
    BY DEF RegisteredAreGranted
  <2>1. /\ IsGranted(output.grants, input[i].cluster)
        /\ BoundToFirst(input, b)
    BY DEF RegisterInv
  <2>2. b # NoCluster
    BY <2>1 DEF IsGranted
  <2>3. b = input[i].cluster \/ CameSecond(input, input[i].cluster)
    BY <2>1, <2>2 DEF BoundToFirst, CameSecond
  <2> QED
    BY <2>1, <2>3 DEF IsGranted
<1> QED
  BY <1>1, <1>2, RegisterInvInit, PTL DEF Spec

-----------------------------------------------------------------------------
(* Scores of nodes and pods.  A loop is a recursive function.  That it     *)
(* satisfies its equation is shown by induction over its steps, and the    *)
(* induction rests on the least element of a set of natural numbers.       *)

Below == {p \in Nat \X Nat : p[1] < p[2]}

\* A set of natural numbers has a least one: the induction below rests on it.
LEMMA Least ==
  ASSUME NEW T \in SUBSET Nat, T # {}
  PROVE  \E m \in T : \A k \in T : m <= k
<1>1. IsWellFoundedOn(Below, Nat)
  BY NatLessThanWellFounded, Zenon DEF Below, OpToRel
<1>2. PICK m \in T : \A k \in T : <<k, m>> \notin Below
  BY <1>1, WFMin
<1>3. \A k \in T : ~(k < m)
  BY <1>2 DEF Below
<1> QED
  BY <1>3

\* Induction over the steps of a loop: S is the set of those after which what is
\* to be shown holds.
LEMMA LoopInduction ==
  ASSUME NEW n \in Nat, NEW S, 0 \in S,
         \A k \in 1..n : k - 1 \in S => k \in S
  PROVE  \A k \in 0..n : k \in S
<1> SUFFICES ASSUME (0..n) \ S # {}  PROVE FALSE
  OBVIOUS
<1> DEFINE T == (0..n) \ S
<1>0. T \subseteq Nat /\ T # {}
  OBVIOUS
<1>1. PICK m \in T : \A k \in T : m <= k
  <2> HIDE DEF T
  <2> QED
    BY <1>0, Least
<1>2. m \in 1..n /\ m - 1 \in S
  BY <1>1
<1> QED
  BY <1>1, <1>2

\* A loop of n steps over the set S, and what it has computed after each.
Steps(n, S) == [1..n -> [S -> S]]

Runs(f, n, S, start, step) ==
  /\ f \in [0..n -> S]
  /\ f[0] = start
  /\ \A k \in 1..n : f[k] = step[k][f[k - 1]]

LEMMA LoopExists ==
  ASSUME NEW n \in Nat, NEW S, NEW start \in S, NEW step \in Steps(n, S)
  PROVE  \E f : Runs(f, n, S, start, step)
<1> DEFINE Loop(m) ==
      {f \in [0..m -> S] : Runs(f, m, S, start, step)}
           D == {m \in 0..n : Loop(m) # {}}
<1>1. 0 \in D
  <2>1. [k \in 0..0 |-> start] \in Loop(0)
    BY DEF Runs
  <2> QED
    BY <2>1
<1>2. ASSUME NEW m \in 1..n, m - 1 \in D  PROVE m \in D
  <2>1. PICK f : f \in Loop(m - 1)
    BY <1>2
  <2>2. /\ f \in [0..(m - 1) -> S] /\ f[0] = start
        /\ \A k \in 1..(m - 1) : f[k] = step[k][f[k - 1]]
    BY <2>1 DEF Runs
  <2> DEFINE g == [k \in 0..m |-> IF k = m THEN step[m][f[m - 1]] ELSE f[k]]
  <2>3. g \in [0..m -> S]
    BY <2>2 DEF Steps
  <2>4. g[0] = start
    BY <2>2
  <2>5. ASSUME NEW k \in 1..m  PROVE g[k] = step[k][g[k - 1]]
    BY <2>2
  <2>6. g \in Loop(m)
    BY <2>3, <2>4, <2>5 DEF Runs
  <2> QED
    BY <2>6
<1> HIDE DEF D
<1>3. \A m \in 0..n : m \in D
  BY <1>1, <1>2, LoopInduction
<1>4. n \in D
  BY <1>3
<1> QED
  BY <1>4 DEF D

\* What a loop computes stays in the set that its steps stay in.
LEMMA LoopStays ==
  ASSUME NEW n \in Nat, NEW S, NEW f, f = [k \in 0..n |-> f[k]],
         f[0] \in S, \A k \in 1..n : f[k - 1] \in S => f[k] \in S
  PROVE  f \in [0..n -> S]
<1> DEFINE D == {k \in 0..n : f[k] \in S}
<1>1. 0 \in D
  OBVIOUS
<1>2. ASSUME NEW k \in 1..n, k - 1 \in D  PROVE k \in D
  BY <1>2
<1> HIDE DEF D
<1>3. \A k \in 0..n : k \in D
  BY <1>1, <1>2, LoopInduction
<1> QED
  BY <1>3 DEF D

-----------------------------------------------------------------------------
\* The totals of a sequence.
LEMMA SumsFacts ==
  ASSUME NEW start \in Int, NEW values \in Seq(Int)
  PROVE  LET f == Sums(start, values) IN
         /\ f \in [0..Len(values) -> Int]
         /\ f[0] = start
         /\ \A k \in 1..Len(values) :
              f[k] = f[k - 1] + values[k]
<1> DEFINE n == Len(values)
           Step(k, t) == t + values[k]
           step == [k \in 1..n |-> [t \in Int |-> Step(k, t)]]
           Is(g) == g = [k \in 0..n |-> IF k = 0 THEN start
                                        ELSE Step(k, g[k - 1])]
           f == CHOOSE g : Is(g)
<1>1. n \in Nat /\ start \in Int
  OBVIOUS
<1>2. \A k \in 1..n : \A t \in Int : Step(k, t) \in Int
  OBVIOUS
<1>3. f = Sums(start, values)
  BY DEF n, Sums
<1> HIDE DEF n, Step
<1>4. PICK g : Runs(g, n, Int, start, step)
  <2> DEFINE Z == Int
  <2>1. start \in Z /\ step \in Steps(n, Z)
    BY <1>1, <1>2, Zenon DEF Steps
  <2> HIDE DEF step, Z
  <2>2. \E g : Runs(g, n, Z, start, step)
    BY <1>1, <2>1, LoopExists
  <2> QED
    BY <2>2 DEF Z
<1>5. Is(g)
  <2>1. \A k \in 1..n : g[k - 1] \in Int /\ g[k] = step[k][g[k - 1]]
    <3> HIDE DEF step
    <3> QED
      BY <1>1, <1>4 DEF Runs
  <2>2. \A k \in 1..n : g[k] = Step(k, g[k - 1])
    BY <2>1
  <2> QED
    BY <1>1, <1>4, <2>2 DEF Runs
<1>6. Is(f)
  <2> HIDE DEF Is
  <2> QED
    BY <1>5
<1> HIDE DEF f
<1>7. f = [k \in 0..n |-> f[k]] /\ f[0] = start
  BY <1>1, <1>6
<1>8. \A k \in 1..n : f[k] = Step(k, f[k - 1])
  BY <1>1, <1>6
<1>9. f \in [0..n -> Int]
  <2> DEFINE Z == Int
  <2>1. f[0] \in Z /\ \A k \in 1..n : f[k - 1] \in Z => f[k] \in Z
    BY <1>1, <1>2, <1>7, <1>8
  <2> HIDE DEF Z
  <2>2. f \in [0..n -> Z]
    BY <1>1, <1>7, <2>1, LoopStays
  <2> QED
    BY <2>2 DEF Z
<1> QED
  BY <1>3, <1>7, <1>8, <1>9 DEF n, Step

\* The running maximum of a sequence.
LEMMA PeaksFacts ==
  ASSUME NEW start \in Int, NEW values \in Seq(Int)
  PROVE  LET f == Peaks(start, values) IN
         /\ f \in [0..Len(values) -> Int]
         /\ f[0] = start
         /\ \A k \in 1..Len(values) :
              f[k] = Larger(f[k - 1], values[k])
<1> DEFINE n == Len(values)
           Step(k, t) == Larger(t, values[k])
           step == [k \in 1..n |-> [t \in Int |-> Step(k, t)]]
           Is(g) == g = [k \in 0..n |-> IF k = 0 THEN start
                                        ELSE Step(k, g[k - 1])]
           f == CHOOSE g : Is(g)
<1>1. n \in Nat /\ start \in Int
  OBVIOUS
<1>2. \A k \in 1..n : \A t \in Int : Step(k, t) \in Int
  BY DEF Larger
<1>3. f = Peaks(start, values)
  BY DEF n, Peaks
<1> HIDE DEF n, Step
<1>4. PICK g : Runs(g, n, Int, start, step)
  <2> DEFINE Z == Int
  <2>1. start \in Z /\ step \in Steps(n, Z)
    BY <1>1, <1>2, Zenon DEF Steps
  <2> HIDE DEF step, Z
  <2>2. \E g : Runs(g, n, Z, start, step)
    BY <1>1, <2>1, LoopExists
  <2> QED
    BY <2>2 DEF Z
<1>5. Is(g)
  <2>1. \A k \in 1..n : g[k - 1] \in Int /\ g[k] = step[k][g[k - 1]]
    <3> HIDE DEF step
    <3> QED
      BY <1>1, <1>4 DEF Runs
  <2>2. \A k \in 1..n : g[k] = Step(k, g[k - 1])
    BY <2>1
  <2> QED
    BY <1>1, <1>4, <2>2 DEF Runs
<1>6. Is(f)
  <2> HIDE DEF Is
  <2> QED
    BY <1>5
<1> HIDE DEF f
<1>7. f = [k \in 0..n |-> f[k]] /\ f[0] = start
  BY <1>1, <1>6
<1>8. \A k \in 1..n : f[k] = Step(k, f[k - 1])
  BY <1>1, <1>6
<1>9. f \in [0..n -> Int]
  <2> DEFINE Z == Int
  <2>1. f[0] \in Z /\ \A k \in 1..n : f[k - 1] \in Z => f[k] \in Z
    BY <1>1, <1>2, <1>7, <1>8
  <2> HIDE DEF Z
  <2>2. f \in [0..n -> Z]
    BY <1>1, <1>7, <2>1, LoopStays
  <2> QED
    BY <2>2 DEF Z
<1> QED
  BY <1>3, <1>7, <1>8, <1>9 DEF n, Step

-----------------------------------------------------------------------------
\* A total is its start and the total of the values.
LEMMA SumFromZero ==
  ASSUME NEW start \in Int, NEW values \in Seq(Nat)
  PROVE  /\ Sum(start, values) = start + Sum(0, values)
         /\ Sum(0, values) \in Nat
<1> DEFINE n == Len(values)
           f == Sums(start, values)
           g == Sums(0, values)
           D == {k \in 0..n : g[k] \in Nat /\ f[k] = start + g[k]}
<1>1. n \in Nat /\ values \in Seq(Int) /\ \A k \in 1..n : values[k] \in Nat
  OBVIOUS
<1>2. /\ f[0] = start /\ g[0] = 0
      /\ \A k \in 1..n : f[k] = f[k - 1] + values[k]
      /\ \A k \in 1..n : g[k] = g[k - 1] + values[k]
  BY <1>1, SumsFacts
<1> HIDE DEF f, g, n
<1>3. 0 \in D
  BY <1>1, <1>2
<1>4. ASSUME NEW k \in 1..n, k - 1 \in D  PROVE k \in D
  <2>1. g[k - 1] \in Nat /\ f[k - 1] = start + g[k - 1] /\ values[k] \in Nat
    BY <1>1, <1>4
  <2> QED
    BY <1>1, <1>2, <2>1
<1> HIDE DEF D
<1>5. \A k \in 0..n : k \in D
  BY <1>1, <1>3, <1>4, LoopInduction
<1>6. n \in D
  BY <1>1, <1>5
<1> QED
  BY <1>6 DEF D, Sum, f, g, n

\* What a greater start makes of a maximum.
Grows(start, more, values) ==
  LET low == Peak(start, values)
      high == Peak(start + more, values) IN
  /\ low \in Int /\ high \in Int
  /\ start <= low /\ low <= high /\ high <= low + more
  /\ (\A k \in 1..Len(values) : values[k] <= start)
       => low = start /\ high = start + more

\* The greater of two integers, and what a greater one makes of it.
LEMMA LargerFacts ==
  ASSUME NEW a \in Int, NEW b \in Int, NEW v \in Int, NEW more \in Nat
  PROVE  /\ Larger(a, v) \in Int
         /\ a <= Larger(a, v) /\ v <= Larger(a, v)
         /\ v <= a => Larger(a, v) = a
         /\ a <= b => Larger(a, v) <= Larger(b, v)
         /\ b <= a + more => Larger(b, v) <= Larger(a, v) + more
BY DEF Larger

LEMMA PeakGrows ==
  ASSUME NEW start \in Int, NEW more \in Nat, NEW values \in Seq(Nat)
  PROVE  Grows(start, more, values)
<1> DEFINE n == Len(values)
           f == Peaks(start, values)
           g == Peaks(start + more, values)
           Small == \A k \in 1..n : values[k] <= start
           D == {k \in 0..n : /\ f[k] \in Int /\ g[k] \in Int
                              /\ start <= f[k] /\ f[k] <= g[k]
                              /\ g[k] <= f[k] + more
                              /\ Small => f[k] = start /\ g[k] = start + more}
<1>1. n \in Nat /\ values \in Seq(Int) /\ \A k \in 1..n : values[k] \in Nat
  OBVIOUS
<1>2. /\ f[0] = start /\ g[0] = start + more
      /\ \A k \in 1..n : f[k] = Larger(f[k - 1], values[k])
      /\ \A k \in 1..n : g[k] = Larger(g[k - 1], values[k])
  <2>1. start + more \in Int
    OBVIOUS
  <2> QED
    BY <1>1, <2>1, PeaksFacts
<1> HIDE DEF f, g, n
<1>3. 0 \in D
  BY <1>1, <1>2
<1>4. ASSUME NEW k \in 1..n, k - 1 \in D  PROVE k \in D
  <2>1. /\ f[k - 1] \in Int /\ g[k - 1] \in Int
        /\ start <= f[k - 1] /\ f[k - 1] <= g[k - 1]
        /\ g[k - 1] <= f[k - 1] + more
    BY <1>4
  <2>2. values[k] \in Nat /\ k \in 0..n
    BY <1>1
  <2>3. /\ f[k] = Larger(f[k - 1], values[k])
        /\ g[k] = Larger(g[k - 1], values[k])
    BY <1>2
  <2>4. /\ f[k] \in Int /\ g[k] \in Int /\ start <= f[k] /\ f[k] <= g[k]
        /\ g[k] <= f[k] + more
    <3> DEFINE a == f[k - 1]
               b == g[k - 1]
               v == values[k]
    <3>1. /\ a \in Int /\ b \in Int /\ v \in Int
          /\ start <= a /\ a <= b /\ b <= a + more
      BY <2>1, <2>2
    <3>2. f[k] = Larger(a, v) /\ g[k] = Larger(b, v)
      BY <2>3
    <3> HIDE DEF a, b, v
    <3>3. /\ Larger(a, v) \in Int /\ Larger(b, v) \in Int
          /\ a <= Larger(a, v) /\ Larger(a, v) <= Larger(b, v)
          /\ Larger(b, v) <= Larger(a, v) + more
      BY <3>1, LargerFacts
    <3>4. start <= Larger(a, v)
      BY <3>1, <3>3
    <3> QED
      BY <3>2, <3>3, <3>4
  <2>5. ASSUME Small  PROVE f[k] = start /\ g[k] = start + more
    <3>1. f[k - 1] = start /\ g[k - 1] = start + more /\ values[k] <= start
      BY <1>4, <2>5
    <3> QED
      BY <2>2, <2>3, <3>1 DEF Larger
  <2> QED
    BY <2>2, <2>4, <2>5
<1> HIDE DEF D
<1>5. \A k \in 0..n : k \in D
  BY <1>1, <1>3, <1>4, LoopInduction
<1>6. n \in D
  BY <1>1, <1>5
<1> QED
  BY <1>6 DEF D, Grows, Peak, f, g, n

-----------------------------------------------------------------------------
IsPod(pod) ==
  /\ pod.over \in BOOLEAN /\ pod.overhead \in Nat
  /\ pod.containers \in Seq(Nat) /\ pod.inits \in Seq(Nat)

\* What a pod needs by itself.
Own(pod) == Peak(Sum(0, pod.containers), pod.inits) + pod.overhead

\* A pod adds at most what it needs, and not less to more.
LEMMA AddPodFacts ==
  ASSUME NEW pod, IsPod(pod), NEW usage \in Nat, NEW more \in Nat
  PROVE  /\ AddPod(usage, pod) \in Nat
         /\ usage <= AddPod(usage, pod)
         /\ AddPod(usage, pod) <= AddPod(usage + more, pod)
         /\ Own(pod) \in Nat
         /\ AddPod(usage, pod) <= usage + Own(pod)
         /\ ~HeavyInits(pod) => AddPod(usage, pod) = usage + Own(pod)
<1>1. /\ pod.overhead \in Nat
      /\ pod.containers \in Seq(Nat) /\ pod.inits \in Seq(Nat)
  BY DEF IsPod
<1> DEFINE own == Sum(0, pod.containers)
<1>2. /\ own \in Nat
      /\ Sum(usage, pod.containers) = own + usage
      /\ Sum(usage + more, pod.containers) = own + usage + more
  <2>1. usage \in Int /\ usage + more \in Int
    OBVIOUS
  <2>2. /\ own \in Nat
        /\ Sum(usage, pod.containers) = usage + own
        /\ Sum(usage + more, pod.containers) = usage + more + own
    BY <1>1, <2>1, SumFromZero
  <2> HIDE DEF own
  <2> QED
    BY <2>2
<1> HIDE DEF own
<1>3. /\ Peak(own, pod.inits) \in Int /\ Peak(own + usage, pod.inits) \in Int
      /\ own <= Peak(own, pod.inits)
      /\ Peak(own + usage, pod.inits) <= Peak(own, pod.inits) + usage
  <2>1. Grows(own, usage, pod.inits)
    BY <1>1, <1>2, PeakGrows
  <2> QED
    BY <2>1 DEF Grows
<1>4. /\ own + usage <= Peak(own + usage, pod.inits)
      /\ Peak(own + usage, pod.inits) <= Peak(own + usage + more, pod.inits)
      /\ Peak(own + usage + more, pod.inits) \in Int
  <2>1. Grows(own + usage, more, pod.inits)
    BY <1>1, <1>2, PeakGrows
  <2> QED
    BY <2>1 DEF Grows
<1>5. ASSUME ~HeavyInits(pod)
      PROVE  /\ Peak(own, pod.inits) = own
             /\ Peak(own + usage, pod.inits) = own + usage
  <2>1. /\ DOMAIN pod.inits = 1..Len(pod.inits)
        /\ \A k \in 1..Len(pod.inits) : pod.inits[k] \in Nat
    BY <1>1
  <2>2. \A k \in 1..Len(pod.inits) : pod.inits[k] <= own
    BY <1>2, <1>5, <2>1 DEF HeavyInits, own
  <2>3. Grows(own, usage, pod.inits)
    BY <1>1, <1>2, PeakGrows
  <2> QED
    BY <2>2, <2>3 DEF Grows
<1>6. /\ AddPod(usage, pod) = Peak(own + usage, pod.inits) + pod.overhead
      /\ AddPod(usage + more, pod)
           = Peak(own + usage + more, pod.inits) + pod.overhead
      /\ Own(pod) = Peak(own, pod.inits) + pod.overhead
  BY <1>2 DEF AddPod, Own, own
<1>7. /\ AddPod(usage, pod) \in Nat /\ usage <= AddPod(usage, pod)
      /\ AddPod(usage, pod) <= AddPod(usage + more, pod)
  <2>1. ASSUME NEW p \in Int, NEW q \in Int, NEW h \in Nat, NEW o \in Nat,
               o + usage <= p, p <= q
        PROVE  p + h \in Nat /\ usage <= p + h /\ p + h <= q + h
    BY <2>1
  <2> QED
    BY <1>1, <1>2, <1>3, <1>4, <1>6, <2>1
<1>8. /\ Own(pod) \in Nat /\ AddPod(usage, pod) <= usage + Own(pod)
  BY <1>1, <1>2, <1>3, <1>6
<1>9. ASSUME ~HeavyInits(pod)  PROVE AddPod(usage, pod) = usage + Own(pod)
  BY <1>1, <1>2, <1>5, <1>6, <1>9
<1> QED
  BY <1>7, <1>8, <1>9

\* The usage of a node after each of the pods.
LEMMA UsagesFacts ==
  ASSUME NEW name, NEW P, \A p \in P : IsPod(p), NEW pods \in Seq(P)
  PROVE  LET f == Usages(name, pods) IN
         /\ f \in [0..Len(pods) -> Nat]
         /\ f[0] = 0
         /\ \A k \in 1..Len(pods) :
              f[k] = IF Counts(pods[k], name) THEN AddPod(f[k - 1], pods[k])
                     ELSE f[k - 1]
<1> DEFINE n == Len(pods)
           Step(k, t) == IF Counts(pods[k], name) THEN AddPod(t, pods[k])
                         ELSE t
           step == [k \in 1..n |-> [t \in Nat |-> Step(k, t)]]
           Is(g) == g = [k \in 0..n |-> IF k = 0 THEN 0
                                        ELSE Step(k, g[k - 1])]
           f == CHOOSE g : Is(g)
<1>1. n \in Nat /\ 0 \in Nat
  OBVIOUS
<1>2. \A k \in 1..n : \A t \in Nat : Step(k, t) \in Nat
  <2> SUFFICES ASSUME NEW k \in 1..n, NEW t \in Nat
               PROVE  AddPod(t, pods[k]) \in Nat
    OBVIOUS
  <2>1. IsPod(pods[k]) /\ 0 \in Nat
    OBVIOUS
  <2> QED
    BY <2>1, AddPodFacts
<1>3. f = Usages(name, pods)
  BY DEF n, Usages
<1> HIDE DEF n, Step
<1>4. PICK g : Runs(g, n, Nat, 0, step)
  <2> DEFINE Z == Nat
  <2>1. 0 \in Z /\ step \in Steps(n, Z)
    BY <1>1, <1>2, Zenon DEF Steps
  <2> HIDE DEF step, Z
  <2>2. \E g : Runs(g, n, Z, 0, step)
    BY <1>1, <2>1, LoopExists
  <2> QED
    BY <2>2 DEF Z
<1>5. Is(g)
  <2>1. \A k \in 1..n : g[k - 1] \in Nat /\ g[k] = step[k][g[k - 1]]
    <3> HIDE DEF step
    <3> QED
      BY <1>1, <1>4 DEF Runs
  <2>2. \A k \in 1..n : g[k] = Step(k, g[k - 1])
    BY <2>1
  <2> QED
    BY <1>1, <1>4, <2>2 DEF Runs
<1>6. Is(f)
  <2> HIDE DEF Is
  <2> QED
    BY <1>5
<1> HIDE DEF f
<1>7. f = [k \in 0..n |-> f[k]] /\ f[0] = 0
  BY <1>1, <1>6
<1>8. \A k \in 1..n : f[k] = Step(k, f[k - 1])
  BY <1>1, <1>6
<1>9. f \in [0..n -> Nat]
  <2> DEFINE Z == Nat
  <2>1. f[0] \in Z /\ \A k \in 1..n : f[k - 1] \in Z => f[k] \in Z
    BY <1>1, <1>2, <1>7, <1>8
  <2> HIDE DEF Z
  <2>2. f \in [0..n -> Z]
    BY <1>1, <1>7, <2>1, LoopStays
  <2> QED
    BY <2>2 DEF Z
<1> QED
  BY <1>3, <1>7, <1>8, <1>9 DEF n, Step

\* Usage is what the pods need, or less when init containers are heavy.
LEMMA UsageNeeded ==
  ASSUME NEW name, NEW P, \A p \in P : IsPod(p), NEW pods \in Seq(P)
  PROVE  /\ NodeUsage(name, pods) \in Nat
         /\ NodeUsage(name, pods) <= Needed(name, pods)
         /\ (\A k \in 1..Len(pods) : ~HeavyInits(pods[k])) =>
              NodeUsage(name, pods) = Needed(name, pods)
<1> DEFINE n == Len(pods)
           f == Usages(name, pods)
           needs == [k \in 1..n |-> Need(name, pods[k])]
           g == Sums(0, needs)
           Light == \A k \in 1..n : ~HeavyInits(pods[k])
           D == {k \in 0..n : f[k] <= g[k] /\ (Light => f[k] = g[k])}
<1>1. n \in Nat /\ \A k \in 1..n : IsPod(pods[k])
  OBVIOUS
<1>2. /\ f \in [0..n -> Nat] /\ f[0] = 0
      /\ \A k \in 1..n : f[k] = IF Counts(pods[k], name)
                                THEN AddPod(f[k - 1], pods[k]) ELSE f[k - 1]
  BY UsagesFacts
<1>3. \A k \in 1..n :
        Need(name, pods[k])
          = IF Counts(pods[k], name) THEN Own(pods[k]) ELSE 0
  BY DEF Need, Own
<1>4. \A k \in 1..n : Own(pods[k]) \in Nat
  <2> SUFFICES ASSUME NEW k \in 1..n  PROVE Own(pods[k]) \in Nat
    OBVIOUS
  <2>1. 0 \in Nat
    OBVIOUS
  <2> QED
    BY <1>1, <2>1, AddPodFacts
<1>5. needs \in Seq(Int) /\ Len(needs) = n
  <2>1. \A k \in 1..n : Need(name, pods[k]) \in Int
    BY <1>3, <1>4
  <2> QED
    BY <1>1, <2>1
<1>6. /\ g \in [0..n -> Int] /\ g[0] = 0
      /\ \A k \in 1..n : g[k] = g[k - 1] + Need(name, pods[k])
  <2>1. 0 \in Int
    OBVIOUS
  <2> HIDE DEF needs
  <2>2. /\ g \in [0..n -> Int] /\ g[0] = 0
        /\ \A k \in 1..n : g[k] = g[k - 1] + needs[k]
    BY <1>5, <2>1, SumsFacts
  <2> QED
    BY <2>2 DEF needs
<1>7. NodeUsage(name, pods) = f[n] /\ Needed(name, pods) = g[n]
  <2>1. Needed(name, pods) = Sum(0, needs)
    BY DEF Needed
  <2> HIDE DEF needs
  <2> QED
    BY <1>5, <2>1 DEF NodeUsage, Sum
<1> HIDE DEF n, f, g
<1>8. 0 \in D
  BY <1>1, <1>2, <1>6
<1>9. ASSUME NEW k \in 1..n, k - 1 \in D  PROVE k \in D
  <2> DEFINE p == pods[k]
             u == f[k - 1]
             v == g[k - 1]
  <2>1. /\ u \in Nat /\ v \in Int /\ u <= v /\ (Light => u = v)
        /\ IsPod(p) /\ k \in 0..n
    BY <1>1, <1>2, <1>6, <1>9
  <2>2. /\ f[k] = IF Counts(p, name) THEN AddPod(u, p) ELSE u
        /\ g[k] = v + IF Counts(p, name) THEN Own(p) ELSE 0
    BY <1>2, <1>3, <1>6
  <2>3. Light => ~HeavyInits(p)
    BY <1>1
  <2> HIDE DEF p, u, v, Light
  <2>4. /\ AddPod(u, p) \in Nat /\ Own(p) \in Nat
        /\ AddPod(u, p) <= u + Own(p)
        /\ Light => AddPod(u, p) = u + Own(p)
    BY <2>1, <2>3, AddPodFacts
  <2>5. f[k] <= g[k] /\ (Light => f[k] = g[k])
    <3>1. CASE Counts(p, name)
      BY <2>1, <2>2, <2>4, <3>1
    <3>2. CASE ~Counts(p, name)
      BY <2>1, <2>2, <3>2
    <3> QED
      BY <3>1, <3>2
  <2> QED
    BY <2>1, <2>5
<1> HIDE DEF D
<1>10. \A k \in 0..n : k \in D
  BY <1>1, <1>8, <1>9, LoopInduction
<1>11. n \in D
  BY <1>1, <1>10
<1> QED
  BY <1>1, <1>2, <1>7, <1>11 DEF D, n

-----------------------------------------------------------------------------
\* What is left of a sequence without one of its elements.
LEMMA RestFacts ==
  ASSUME NEW P, NEW pods \in Seq(P), NEW i \in 1..Len(pods)
  PROVE  /\ RemoveAt(pods, i) \in Seq(P)
         /\ Len(RemoveAt(pods, i)) = Len(pods) - 1
         /\ \A j \in 1..i - 1 : RemoveAt(pods, i)[j] = pods[j]
         /\ \A j \in i..Len(pods) - 1 : RemoveAt(pods, i)[j] = pods[j + 1]
<1> DEFINE n == Len(pods)
           low == SubSeq(pods, 1, i - 1)
           high == SubSeq(pods, i + 1, n)
<1>1. n \in Nat /\ i \in 1..n /\ pods \in [1..n -> P]
  OBVIOUS
<1>2. /\ low \in Seq(P) /\ Len(low) = i - 1
      /\ \A j \in 1..i - 1 : low[j] = pods[j]
  BY <1>1
<1>3. /\ high \in Seq(P) /\ Len(high) = n - i
      /\ \A j \in 1..n - i : high[j] = pods[i + j]
  <2>1. i + 1 \in Int /\ n \in Int /\ \A k \in i + 1..n : pods[k] \in P
    BY <1>1
  <2>2. /\ high \in Seq(P)
        /\ Len(high) = IF i + 1 <= n THEN n - (i + 1) + 1 ELSE 0
        /\ \A j \in 1..n - (i + 1) + 1 : high[j] = pods[i + 1 + j - 1]
    BY <2>1, SubSeqProperties
  <2> HIDE DEF high
  <2>3. Len(high) = n - i
    <3> HIDE DEF n
    <3>1. CASE i + 1 <= n
      <4>1. n - (i + 1) + 1 = n - i
        BY <1>1
      <4> QED
        BY <2>2, <3>1, <4>1
    <3>2. CASE ~(i + 1 <= n)
      <4>1. n - i = 0
        BY <1>1, <3>2
      <4> QED
        BY <2>2, <3>2, <4>1
    <3> QED
      BY <3>1, <3>2
  <2>4. ASSUME NEW j \in 1..n - i  PROVE high[j] = pods[i + j]
    <3>1. j \in 1..n - (i + 1) + 1 /\ i + 1 + j - 1 = i + j
      BY <1>1
    <3> QED
      BY <2>2, <3>1
  <2> QED
    BY <2>2, <2>3, <2>4
<1>4. RemoveAt(pods, i) = low \o high
  BY DEF RemoveAt
<1> HIDE DEF low, high
<1>5. /\ low \o high \in Seq(P) /\ Len(low \o high) = n - 1
      /\ \A j \in 1..i - 1 : (low \o high)[j] = low[j]
      /\ \A j \in i..n - 1 : (low \o high)[j] = high[j - (i - 1)]
  <2>1. /\ low \o high \in Seq(P) /\ Len(low \o high) = Len(low) + Len(high)
        /\ \A j \in 1..Len(low) + Len(high) :
             (low \o high)[j] = IF j <= Len(low) THEN low[j]
                                ELSE high[j - Len(low)]
    BY <1>2, <1>3, ConcatProperties
  <2>2. Len(low) + Len(high) = n - 1 /\ Len(low) = i - 1
    BY <1>1, <1>2, <1>3
  <2>3. ASSUME NEW j \in 1..i - 1  PROVE (low \o high)[j] = low[j]
    <3>1. j \in 1..n - 1 /\ j <= i - 1
      BY <1>1
    <3> QED
      BY <2>1, <2>2, <3>1
  <2>4. ASSUME NEW j \in i..n - 1
        PROVE  (low \o high)[j] = high[j - (i - 1)]
    <3>1. j \in 1..n - 1 /\ ~(j <= i - 1)
      BY <1>1
    <3> QED
      BY <2>1, <2>2, <3>1
  <2> QED
    BY <2>1, <2>2, <2>3, <2>4
<1>6. \A j \in i..n - 1 : high[j - (i - 1)] = pods[j + 1]
  BY <1>1, <1>3
<1> QED
  BY <1>2, <1>4, <1>5, <1>6

\* A pod that goes takes usage from every node or leaves it, and leaves it
\* when the pod is over.
LEMMA LessUsage ==
  ASSUME NEW name, NEW P, \A p \in P : IsPod(p), NEW pods \in Seq(P),
         NEW i \in 1..Len(pods)
  PROVE  LET rest == RemoveAt(pods, i) IN
         /\ NodeUsage(name, pods) \in Nat /\ NodeUsage(name, rest) \in Nat
         /\ NodeUsage(name, rest) <= NodeUsage(name, pods)
         /\ pods[i].over => NodeUsage(name, rest) = NodeUsage(name, pods)
<1> DEFINE n == Len(pods)
           rest == RemoveAt(pods, i)
           f == Usages(name, pods)
           g == Usages(name, rest)
           D == {k \in 0..n - 1 :
                   /\ k < i => g[k] = f[k]
                   /\ k >= i => /\ g[k] <= f[k + 1]
                                /\ pods[i].over => g[k] = f[k + 1]}
<1>1. n \in Nat /\ i \in 1..n /\ \A k \in 1..n : IsPod(pods[k])
  OBVIOUS
<1>2. /\ rest \in Seq(P) /\ Len(rest) = n - 1
      /\ \A k \in 1..i - 1 : rest[k] = pods[k]
      /\ \A k \in i..n - 1 : rest[k] = pods[k + 1]
  BY RestFacts
<1>3. /\ f \in [0..n -> Nat] /\ f[0] = 0
      /\ \A k \in 1..n : f[k] = IF Counts(pods[k], name)
                                THEN AddPod(f[k - 1], pods[k]) ELSE f[k - 1]
  BY UsagesFacts
<1> HIDE DEF rest
<1>4. /\ g \in [0..n - 1 -> Nat] /\ g[0] = 0
      /\ \A k \in 1..n - 1 : g[k] = IF Counts(rest[k], name)
                                    THEN AddPod(g[k - 1], rest[k])
                                    ELSE g[k - 1]
  <2>1. /\ g \in [0..Len(rest) -> Nat] /\ g[0] = 0
        /\ \A k \in 1..Len(rest) : g[k] = IF Counts(rest[k], name)
                                          THEN AddPod(g[k - 1], rest[k])
                                          ELSE g[k - 1]
    <3>1. rest \in Seq(P)
      BY <1>2
    <3> QED
      BY <3>1, UsagesFacts
  <2> HIDE DEF g
  <2> QED
    BY <1>2, <2>1
<1>5. NodeUsage(name, pods) = f[n] /\ NodeUsage(name, rest) = g[n - 1]
  BY <1>2 DEF NodeUsage
<1> HIDE DEF n, f, g
<1>6. 0 \in D
  BY <1>1, <1>3, <1>4
<1>7. f[i - 1] <= f[i] /\ (pods[i].over => f[i] = f[i - 1])
  <2>1. f[i - 1] \in Nat /\ IsPod(pods[i])
    BY <1>1, <1>3
  <2>2. f[i - 1] <= AddPod(f[i - 1], pods[i])
    <3>1. 0 \in Nat
      OBVIOUS
    <3> QED
      BY <2>1, <3>1, AddPodFacts
  <2>3. f[i] = IF Counts(pods[i], name)
               THEN AddPod(f[i - 1], pods[i]) ELSE f[i - 1]
    BY <1>1, <1>3
  <2>4. pods[i].over => ~Counts(pods[i], name)
    BY DEF Counts
  <2> QED
    BY <2>1, <2>2, <2>3, <2>4
<1>8. ASSUME NEW k \in 1..n - 1, k - 1 \in D  PROVE k \in D
  <2>1. k \in 1..n /\ k + 1 \in 1..n /\ k \in 0..n - 1 /\ k - 1 \in 0..n - 1
    BY <1>1
  <2>2. CASE k < i
    <3>1. g[k - 1] = f[k - 1] /\ rest[k] = pods[k]
      BY <1>1, <1>2, <1>8, <2>1, <2>2
    <3>2. g[k] = f[k]
      BY <1>3, <1>4, <2>1, <3>1
    <3> QED
      BY <1>1, <2>1, <2>2, <3>2
  <2>3. CASE k >= i
    <3> DEFINE p == pods[k + 1]
               u == f[k]
               v == g[k - 1]
    <3>1. IsPod(p) /\ u \in Nat /\ v \in Nat
      BY <1>1, <1>3, <1>4, <2>1
    <3>2. v <= u /\ (pods[i].over => v = u)
      <4>1. CASE k = i
        <5>1. g[i - 1] = f[i - 1]
          BY <1>1, <1>8, <2>1, <4>1
        <5> QED
          BY <1>7, <4>1, <5>1
      <4>2. CASE k > i
        <5>1. k - 1 >= i /\ k - 1 + 1 = k
          BY <1>1, <4>2
        <5> QED
          BY <1>8, <5>1
      <4> QED
        BY <1>1, <2>3, <4>1, <4>2
    <3>3. rest[k] = p
      BY <1>1, <1>2, <2>1, <2>3
    <3>4. f[k + 1] = IF Counts(p, name) THEN AddPod(u, p) ELSE u
      <4>1. k + 1 - 1 = k
        BY <1>1
      <4> QED
        BY <1>3, <2>1, <4>1
    <3>5. g[k] = IF Counts(p, name) THEN AddPod(v, p) ELSE v
      BY <1>4, <3>3
    <3> HIDE DEF p, u, v
    <3>6. AddPod(v, p) <= AddPod(u, p)
      <4>1. PICK more \in Nat : u = v + more
        <5>1. u - v \in Nat /\ u = v + (u - v)
          BY <3>1, <3>2
        <5> QED
          BY <5>1
      <4> QED
        BY <3>1, <4>1, AddPodFacts
    <3>7. g[k] <= f[k + 1] /\ (pods[i].over => g[k] = f[k + 1])
      BY <3>2, <3>4, <3>5, <3>6
    <3> QED
      BY <1>1, <2>1, <2>3, <3>7
  <2> QED
    BY <1>1, <2>1, <2>2, <2>3
<1>9. n - 1 \in Nat
  BY <1>1
<1> HIDE DEF D
<1>10. \A k \in 0..n - 1 : k \in D
  BY <1>6, <1>8, <1>9, LoopInduction
<1>11. n - 1 \in D /\ n - 1 + 1 = n
  <2>1. n - 1 \in 0..n - 1 /\ n - 1 + 1 = n
    BY <1>1
  <2> QED
    BY <1>10, <2>1
<1>12. g[n - 1] <= f[n] /\ (pods[i].over => g[n - 1] = f[n])
  <2>1. CASE n - 1 < i
    <3>1. i = n
      BY <1>1, <2>1
    <3>2. g[n - 1] = f[n - 1]
      BY <1>11, <2>1 DEF D
    <3> QED
      BY <1>7, <3>1, <3>2
  <2>2. CASE n - 1 >= i
    BY <1>11, <2>2 DEF D
  <2> QED
    BY <1>1, <2>1, <2>2
<1> QED
  BY <1>1, <1>3, <1>4, <1>5, <1>9, <1>12 DEF rest

-----------------------------------------------------------------------------
IsNode(node) ==
  node.unschedulable \in BOOLEAN /\ node.alloc \in Nat \cup {Absent}

\* The usages by the pods are natural numbers.
Uses(pods) == \A name : NodeUsage(name, pods) \in Nat

\* The most that any of the nodes so far has.
LEMMA BestFacts ==
  ASSUME NEW N, \A x \in N : IsNode(x), NEW nodes \in Seq(N),
         NEW pods, Uses(pods)
  PROVE  LET f == BestNodes(nodes, pods) IN
         /\ f \in [0..Len(nodes) -> Int]
         /\ f[0] = 0
         /\ \A k \in 1..Len(nodes) :
              f[k] = IF nodes[k].unschedulable \/ nodes[k].alloc = Absent
                     THEN f[k - 1]
                     ELSE Larger(f[k - 1],
                                 nodes[k].alloc
                                   - NodeUsage(nodes[k].name, pods))
<1> DEFINE n == Len(nodes)
           Step(k, t) == IF nodes[k].unschedulable \/ nodes[k].alloc = Absent
                         THEN t
                         ELSE Larger(t,
                                     nodes[k].alloc
                                       - NodeUsage(nodes[k].name, pods))
           step == [k \in 1..n |-> [t \in Int |-> Step(k, t)]]
           Is(g) == g = [k \in 0..n |-> IF k = 0 THEN 0
                                        ELSE Step(k, g[k - 1])]
           f == CHOOSE g : Is(g)
<1>1. n \in Nat /\ 0 \in Int
  OBVIOUS
<1>2. \A k \in 1..n : \A t \in Int : Step(k, t) \in Int
  <2>1. \A k \in 1..n : /\ IsNode(nodes[k])
                        /\ NodeUsage(nodes[k].name, pods) \in Nat
    BY DEF Uses
  <2> QED
    BY <2>1 DEF IsNode, Larger
<1>3. f = BestNodes(nodes, pods)
  BY DEF n, BestNodes
<1> HIDE DEF n, Step
<1>4. PICK g : Runs(g, n, Int, 0, step)
  <2> DEFINE Z == Int
  <2>1. 0 \in Z /\ step \in Steps(n, Z)
    BY <1>1, <1>2, Zenon DEF Steps
  <2> HIDE DEF step, Z
  <2>2. \E g : Runs(g, n, Z, 0, step)
    BY <1>1, <2>1, LoopExists
  <2> QED
    BY <2>2 DEF Z
<1>5. Is(g)
  <2>1. \A k \in 1..n : g[k - 1] \in Int /\ g[k] = step[k][g[k - 1]]
    <3> HIDE DEF step
    <3> QED
      BY <1>1, <1>4 DEF Runs
  <2>2. \A k \in 1..n : g[k] = Step(k, g[k - 1])
    BY <2>1
  <2> QED
    BY <1>1, <1>4, <2>2 DEF Runs
<1>6. Is(f)
  <2> HIDE DEF Is
  <2> QED
    BY <1>5
<1> HIDE DEF f
<1>7. f = [k \in 0..n |-> f[k]] /\ f[0] = 0
  BY <1>1, <1>6
<1>8. \A k \in 1..n : f[k] = Step(k, f[k - 1])
  BY <1>1, <1>6
<1>9. f \in [0..n -> Int]
  <2> DEFINE Z == Int
  <2>1. f[0] \in Z /\ \A k \in 1..n : f[k - 1] \in Z => f[k] \in Z
    BY <1>1, <1>2, <1>7, <1>8
  <2> HIDE DEF Z
  <2>2. f \in [0..n -> Z]
    BY <1>1, <1>7, <2>1, LoopStays
  <2> QED
    BY <2>2 DEF Z
<1> QED
  BY <1>3, <1>7, <1>8, <1>9 DEF n, Step

\* What the nodes so far have.
LEMMA AvailableFacts ==
  ASSUME NEW N, \A x \in N : IsNode(x), NEW nodes \in Seq(N),
         NEW pods, Uses(pods)
  PROVE  LET f == Available(nodes, pods) IN
         /\ f \in [0..Len(nodes) -> Int]
         /\ f[0] = 0
         /\ \A k \in 1..Len(nodes) :
              f[k] = IF nodes[k].unschedulable THEN f[k - 1]
                     ELSE f[k - 1] + Allocatable(nodes[k])
                            - NodeUsage(nodes[k].name, pods)
<1> DEFINE n == Len(nodes)
           Step(k, t) == IF nodes[k].unschedulable THEN t
                         ELSE t + Allocatable(nodes[k])
                                - NodeUsage(nodes[k].name, pods)
           step == [k \in 1..n |-> [t \in Int |-> Step(k, t)]]
           Is(g) == g = [k \in 0..n |-> IF k = 0 THEN 0
                                        ELSE Step(k, g[k - 1])]
           f == CHOOSE g : Is(g)
<1>1. n \in Nat /\ 0 \in Int
  OBVIOUS
<1>2. \A k \in 1..n : \A t \in Int : Step(k, t) \in Int
  <2>1. \A k \in 1..n : /\ IsNode(nodes[k])
                        /\ NodeUsage(nodes[k].name, pods) \in Nat
    BY DEF Uses
  <2> QED
    BY <2>1 DEF IsNode, Allocatable
<1>3. f = Available(nodes, pods)
  BY DEF n, Available
<1> HIDE DEF n, Step
<1>4. PICK g : Runs(g, n, Int, 0, step)
  <2> DEFINE Z == Int
  <2>1. 0 \in Z /\ step \in Steps(n, Z)
    BY <1>1, <1>2, Zenon DEF Steps
  <2> HIDE DEF step, Z
  <2>2. \E g : Runs(g, n, Z, 0, step)
    BY <1>1, <2>1, LoopExists
  <2> QED
    BY <2>2 DEF Z
<1>5. Is(g)
  <2>1. \A k \in 1..n : g[k - 1] \in Int /\ g[k] = step[k][g[k - 1]]
    <3> HIDE DEF step
    <3> QED
      BY <1>1, <1>4 DEF Runs
  <2>2. \A k \in 1..n : g[k] = Step(k, g[k - 1])
    BY <2>1
  <2> QED
    BY <1>1, <1>4, <2>2 DEF Runs
<1>6. Is(f)
  <2> HIDE DEF Is
  <2> QED
    BY <1>5
<1> HIDE DEF f
<1>7. f = [k \in 0..n |-> f[k]] /\ f[0] = 0
  BY <1>1, <1>6
<1>8. \A k \in 1..n : f[k] = Step(k, f[k - 1])
  BY <1>1, <1>6
<1>9. f \in [0..n -> Int]
  <2> DEFINE Z == Int
  <2>1. f[0] \in Z /\ \A k \in 1..n : f[k - 1] \in Z => f[k] \in Z
    BY <1>1, <1>2, <1>7, <1>8
  <2> HIDE DEF Z
  <2>2. f \in [0..n -> Z]
    BY <1>1, <1>7, <2>1, LoopStays
  <2> QED
    BY <2>2 DEF Z
<1> QED
  BY <1>3, <1>7, <1>8, <1>9 DEF n, Step

\* Where each node uses at most as much, each has at least as much left.
LEMMA LessTaken ==
  ASSUME NEW N, \A x \in N : IsNode(x), NEW nodes \in Seq(N),
         NEW pods, Uses(pods), NEW rest, Uses(rest),
         \A name : NodeUsage(name, rest) <= NodeUsage(name, pods)
  PROVE  /\ MaxAvailableNode(nodes, pods) \in Int
         /\ MaxAvailableNode(nodes, rest) \in Int
         /\ MaxAvailableNode(nodes, pods) <= MaxAvailableNode(nodes, rest)
         /\ ClusterAvailable(nodes, pods) \in Int
         /\ ClusterAvailable(nodes, rest) \in Int
         /\ ClusterAvailable(nodes, pods) <= ClusterAvailable(nodes, rest)
<1> DEFINE n == Len(nodes)
           a == BestNodes(nodes, pods)
           b == BestNodes(nodes, rest)
           c == Available(nodes, pods)
           d == Available(nodes, rest)
           D == {k \in 0..n : a[k] <= b[k] /\ c[k] <= d[k]}
           Less(x) == NodeUsage(x.name, rest) <= NodeUsage(x.name, pods)
<1>1. n \in Nat /\ \A k \in 1..n : IsNode(nodes[k])
  OBVIOUS
<1>2. \A x : /\ Less(x) /\ NodeUsage(x.name, rest) \in Nat
             /\ NodeUsage(x.name, pods) \in Nat
  BY DEF Uses
<1>3. /\ a \in [0..n -> Int] /\ a[0] = 0
      /\ \A k \in 1..n :
           a[k] = IF nodes[k].unschedulable \/ nodes[k].alloc = Absent
                  THEN a[k - 1]
                  ELSE Larger(a[k - 1], nodes[k].alloc
                                          - NodeUsage(nodes[k].name, pods))
  BY BestFacts
<1>4. /\ b \in [0..n -> Int] /\ b[0] = 0
      /\ \A k \in 1..n :
           b[k] = IF nodes[k].unschedulable \/ nodes[k].alloc = Absent
                  THEN b[k - 1]
                  ELSE Larger(b[k - 1], nodes[k].alloc
                                          - NodeUsage(nodes[k].name, rest))
  BY BestFacts
<1>5. /\ c \in [0..n -> Int] /\ c[0] = 0
      /\ \A k \in 1..n :
           c[k] = IF nodes[k].unschedulable THEN c[k - 1]
                  ELSE c[k - 1] + Allocatable(nodes[k])
                         - NodeUsage(nodes[k].name, pods)
  BY AvailableFacts
<1>6. /\ d \in [0..n -> Int] /\ d[0] = 0
      /\ \A k \in 1..n :
           d[k] = IF nodes[k].unschedulable THEN d[k - 1]
                  ELSE d[k - 1] + Allocatable(nodes[k])
                         - NodeUsage(nodes[k].name, rest)
  BY AvailableFacts
<1>7. /\ MaxAvailableNode(nodes, pods) = a[n]
      /\ MaxAvailableNode(nodes, rest) = b[n]
      /\ ClusterAvailable(nodes, pods) = c[n]
      /\ ClusterAvailable(nodes, rest) = d[n]
  BY DEF MaxAvailableNode, ClusterAvailable
<1> HIDE DEF n, a, b, c, d
<1>8. 0 \in D
  BY <1>1, <1>3, <1>4, <1>5, <1>6
<1>9. ASSUME NEW k \in 1..n, k - 1 \in D  PROVE k \in D
  <2> DEFINE x == nodes[k]
             p == NodeUsage(x.name, pods)
             r == NodeUsage(x.name, rest)
             all == Allocatable(x)
  <2>1. /\ a[k - 1] \in Int /\ b[k - 1] \in Int /\ a[k - 1] <= b[k - 1]
        /\ c[k - 1] \in Int /\ d[k - 1] \in Int /\ c[k - 1] <= d[k - 1]
        /\ k \in 0..n /\ IsNode(x)
    BY <1>1, <1>3, <1>4, <1>5, <1>6, <1>9
  <2>2. p \in Nat /\ r \in Nat /\ r <= p
    BY <1>2
  <2>3. all \in Nat /\ (x.alloc # Absent => all = x.alloc)
    BY <2>1 DEF IsNode, Allocatable
  <2>4. /\ a[k] = IF x.unschedulable \/ x.alloc = Absent THEN a[k - 1]
                  ELSE Larger(a[k - 1], all - p)
        /\ b[k] = IF x.unschedulable \/ x.alloc = Absent THEN b[k - 1]
                  ELSE Larger(b[k - 1], all - r)
        /\ c[k] = IF x.unschedulable THEN c[k - 1] ELSE c[k - 1] + all - p
        /\ d[k] = IF x.unschedulable THEN d[k - 1] ELSE d[k - 1] + all - r
    BY <1>3, <1>4, <1>5, <1>6, <2>3
  <2> HIDE DEF x, p, r, all
  <2>5. Larger(a[k - 1], all - p) <= Larger(b[k - 1], all - r)
    <3>1. ASSUME NEW s \in Int, NEW t \in Int, s <= t
          PROVE  Larger(s, all - p) <= Larger(t, all - r)
      BY <2>2, <2>3, <3>1 DEF Larger
    <3> QED
      BY <2>1, <3>1
  <2>6. a[k] <= b[k]
    BY <2>1, <2>4, <2>5
  <2>7. c[k] <= d[k]
    <3>1. ASSUME NEW s \in Int, NEW t \in Int, s <= t
          PROVE  s + all - p <= t + all - r
      BY <2>2, <2>3, <3>1
    <3> QED
      BY <2>1, <2>4, <3>1
  <2> QED
    BY <2>1, <2>6, <2>7
<1> HIDE DEF D
<1>10. \A k \in 0..n : k \in D
  BY <1>1, <1>8, <1>9, LoopInduction
<1>11. n \in D /\ n \in 0..n
  BY <1>1, <1>10
<1> QED
  BY <1>3, <1>4, <1>5, <1>6, <1>7, <1>11 DEF D

\* A node that takes pods is overcommitted.
Overcommitted(nodes, pods) ==
  \E k \in 1..Len(nodes) :
    /\ ~nodes[k].unschedulable
    /\ Allocatable(nodes[k]) < NodeUsage(nodes[k].name, pods)

\* Otherwise the best node has no more than the cluster.
LEMMA BestWithinCluster ==
  ASSUME NEW N, \A x \in N : IsNode(x), NEW nodes \in Seq(N),
         NEW pods, Uses(pods), ~Overcommitted(nodes, pods)
  PROVE  MaxAvailableNode(nodes, pods) <= ClusterAvailable(nodes, pods)
<1> DEFINE n == Len(nodes)
           a == BestNodes(nodes, pods)
           c == Available(nodes, pods)
           D == {k \in 0..n : 0 <= a[k] /\ a[k] <= c[k]}
<1>1. n \in Nat /\ \A k \in 1..n : IsNode(nodes[k])
  OBVIOUS
<1>2. \A k \in 1..n :
        /\ NodeUsage(nodes[k].name, pods) \in Nat
        /\ nodes[k].unschedulable
             \/ ~(Allocatable(nodes[k]) < NodeUsage(nodes[k].name, pods))
  BY DEF Uses, Overcommitted
<1>3. /\ a \in [0..n -> Int] /\ a[0] = 0
      /\ \A k \in 1..n :
           a[k] = IF nodes[k].unschedulable \/ nodes[k].alloc = Absent
                  THEN a[k - 1]
                  ELSE Larger(a[k - 1], nodes[k].alloc
                                          - NodeUsage(nodes[k].name, pods))
  BY BestFacts
<1>4. /\ c \in [0..n -> Int] /\ c[0] = 0
      /\ \A k \in 1..n :
           c[k] = IF nodes[k].unschedulable THEN c[k - 1]
                  ELSE c[k - 1] + Allocatable(nodes[k])
                         - NodeUsage(nodes[k].name, pods)
  BY AvailableFacts
<1>5. /\ MaxAvailableNode(nodes, pods) = a[n]
      /\ ClusterAvailable(nodes, pods) = c[n]
  BY DEF MaxAvailableNode, ClusterAvailable
<1> HIDE DEF n, a, c
<1>6. 0 \in D
  BY <1>1, <1>3, <1>4
<1>7. ASSUME NEW k \in 1..n, k - 1 \in D  PROVE k \in D
  <2> DEFINE x == nodes[k]
             p == NodeUsage(x.name, pods)
             all == Allocatable(x)
  <2>1. /\ a[k - 1] \in Int /\ c[k - 1] \in Int
        /\ 0 <= a[k - 1] /\ a[k - 1] <= c[k - 1]
        /\ k \in 0..n /\ IsNode(x)
    BY <1>1, <1>3, <1>4, <1>7
  <2>2. p \in Nat /\ (x.unschedulable \/ ~(all < p))
    BY <1>2
  <2>3. all \in Nat /\ (x.alloc # Absent => all = x.alloc)
    BY <2>1 DEF IsNode, Allocatable
  <2>4. /\ a[k] = IF x.unschedulable \/ x.alloc = Absent THEN a[k - 1]
                  ELSE Larger(a[k - 1], all - p)
        /\ c[k] = IF x.unschedulable THEN c[k - 1] ELSE c[k - 1] + all - p
    BY <1>3, <1>4, <2>3
  <2> HIDE DEF x, p, all
  <2>5. CASE x.unschedulable
    BY <2>1, <2>4, <2>5
  <2>6. CASE ~x.unschedulable
    <3>1. ASSUME NEW s \in Int, NEW t \in Int, 0 <= s, s <= t
          PROVE  /\ 0 <= Larger(s, all - p)
                 /\ s <= t + all - p /\ Larger(s, all - p) <= t + all - p
      BY <2>2, <2>3, <2>6, <3>1 DEF Larger
    <3> QED
      BY <2>1, <2>4, <2>6, <3>1
  <2> QED
    BY <2>5, <2>6
<1> HIDE DEF D
<1>8. \A k \in 0..n : k \in D
  BY <1>1, <1>6, <1>7, LoopInduction
<1>9. n \in D
  BY <1>1, <1>8
<1> QED
  BY <1>5, <1>9 DEF D

-----------------------------------------------------------------------------
\* Rounding down keeps the order.
LEMMA DivMonotone ==
  ASSUME NEW a \in Int, NEW b \in Int, NEW m \in Nat \ {0}, a <= b
  PROVE  a \div m \in Int /\ b \div m \in Int /\ a \div m <= b \div m
<1>1. /\ a \div m \in Int /\ b \div m \in Int
      /\ m * (a \div m) <= a /\ b < m * (b \div m) + m
  OBVIOUS
<1>2. ASSUME NEW p \in Int, NEW q \in Int, m * p < m * q + m
      PROVE  p <= q
  <2>1. ASSUME p >= q + 1  PROVE m * p >= m * q + m
    BY <2>1
  <2> QED
    BY <1>2, <2>1
<1>3. m * (a \div m) \in Int /\ m * (b \div m) \in Int
  BY <1>1
<1>4. m * (a \div m) < m * (b \div m) + m
  BY <1>1, <1>3
<1> QED
  BY <1>1, <1>2, <1>4

\* So does cutting the fraction off.
LEMMA TruncatedMonotone ==
  ASSUME NEW a \in Int, NEW b \in Int, NEW m \in Nat \ {0}, a <= b
  PROVE  /\ Truncated(a, m) \in Int /\ Truncated(b, m) \in Int
         /\ Truncated(a, m) <= Truncated(b, m)
<1>1. CASE a >= 0
  BY <1>1, DivMonotone DEF Truncated
<1>2. CASE b < 0
  <2>1. /\ (-b) \div m \in Int /\ (-a) \div m \in Int
        /\ (-b) \div m <= (-a) \div m
    <3>1. -b \in Int /\ -a \in Int /\ -b <= -a
      OBVIOUS
    <3> QED
      BY <3>1, DivMonotone
  <2>2. Truncated(a, m) = -((-a) \div m) /\ Truncated(b, m) = -((-b) \div m)
    BY <1>2 DEF Truncated
  <2> QED
    BY <2>1, <2>2
<1>3. CASE a < 0 /\ b >= 0
  <2>1. 0 \div m = 0
    OBVIOUS
  <2>2. (-a) \div m \in Int /\ 0 <= (-a) \div m
    <3>1. 0 \in Int /\ -a \in Int /\ 0 <= -a
      BY <1>3
    <3> QED
      BY <2>1, <3>1, DivMonotone
  <2>3. b \div m \in Int /\ 0 <= b \div m
    <3>1. 0 \in Int /\ 0 <= b
      BY <1>3
    <3> QED
      BY <2>1, <3>1, DivMonotone
  <2>4. Truncated(a, m) = -((-a) \div m) /\ Truncated(b, m) = b \div m
    BY <1>3 DEF Truncated
  <2> QED
    BY <2>2, <2>3, <2>4
<1> QED
  BY <1>1, <1>2, <1>3

\* A greater amount does not score less, and scores are from -100 to 100.
LEMMA NormalizeMonotone ==
  ASSUME NEW x \in Int, NEW y \in Int, NEW max \in Nat \ {0}, x <= y
  PROVE  /\ Normalize(x, max) \in -100..100 /\ Normalize(y, max) \in -100..100
         /\ Normalize(x, max) <= Normalize(y, max)
<1> DEFINE At(v) == Truncated(200 * v - 100 * max, max)
<1>1. /\ Truncated(-100 * max, max) = -100
      /\ Truncated(100 * max, max) = 100
  <2>1. (100 * max) \div max = 100
    OBVIOUS
  <2>2. -(-100 * max) = 100 * max /\ -100 * max < 0 /\ ~(100 * max < 0)
    OBVIOUS
  <2> QED
    BY <2>1, <2>2 DEF Truncated
<1>2. ASSUME NEW v \in Int, 0 < v, v <= max  PROVE At(v) \in -100..100
  <2> DEFINE low == -100 * max
             high == 100 * max
             mid == 200 * v - 100 * max
  <2>1. /\ low \in Int /\ mid \in Int /\ high \in Int
        /\ low <= mid /\ mid <= high
    BY <1>2
  <2>2. /\ Truncated(low, max) = -100 /\ Truncated(high, max) = 100
        /\ At(v) = Truncated(mid, max)
    BY <1>1
  <2> HIDE DEF low, mid, high, At
  <2>3. /\ Truncated(mid, max) \in Int
        /\ Truncated(low, max) <= Truncated(mid, max)
        /\ Truncated(mid, max) <= Truncated(high, max)
    BY <2>1, TruncatedMonotone
  <2> QED
    BY <2>2, <2>3
<1>3. ASSUME NEW v \in Int, NEW w \in Int, v <= w  PROVE At(v) <= At(w)
  <2>1. /\ 200 * v - 100 * max \in Int /\ 200 * w - 100 * max \in Int
        /\ 200 * v - 100 * max <= 200 * w - 100 * max
    BY <1>3
  <2> QED
    BY <2>1, TruncatedMonotone
<1>4. \A v \in Int : Normalize(v, max) = IF v > max THEN 100
                                        ELSE IF v <= 0 THEN -100 ELSE At(v)
  BY DEF Normalize
<1> HIDE DEF At
<1>5. At(x) <= At(y)
  BY <1>3
<1>6. \A v \in {x, y} : 0 < v /\ v <= max => At(v) \in -100..100
  BY <1>2
<1> QED
  BY <1>4, <1>5, <1>6

-----------------------------------------------------------------------------
\* The input of a task "score" has nodes and pods.
LEMMA NodesAndPods ==
  ASSUME NEW nodes \in NodeLists, NEW pods \in PodLists
  PROVE  \E N, P : /\ \A x \in N : IsNode(x)
                   /\ \A p \in P : IsPod(p)
                   /\ nodes \in Seq(N) /\ pods \in Seq(P)
<1> DEFINE N == {nodes[k] : k \in DOMAIN nodes}
           P == {pods[k] : k \in DOMAIN pods}
<1>1. nodes \in Seq(N) /\ pods \in Seq(P)
  BY PodsAssumption
<1>2. \A x \in N : IsNode(x)
  BY PodsAssumption DEF IsNode
<1>3. \A p \in P : IsPod(p)
  BY PodsAssumption DEF IsPod
<1> HIDE DEF N, P
<1> QED
  BY <1>1, <1>2, <1>3

\* For all nodes and pods, in any number and order, usage counts what the pods
\* need, pods that end or go give back what they used, and no best node scores
\* higher than a cluster that is not overcommitted (calculate.go); and for every
\* history of an object the second of two rounds with a current lister publishes
\* its scores (sync of agent.go).
THEOREM ScoresFollowPodsAlways == Spec => []ScoresFollowPods
<1>1. ASSUME ComputedInv, Scored
      PROVE  UsageIsWhatPodsNeed /\ PodsThatEndGiveBack /\ NodeWithinCluster
  <2> DEFINE nodes == input.nodes
             pods == input.pods
  <2>1. /\ nodes \in NodeLists /\ pods \in PodLists
        /\ output.node = NodeScore(nodes, pods, MaxAmount)
        /\ output.cluster = ClusterScore(nodes, pods, MaxAmount)
        /\ MaxAmount \in Nat \ {0}
    BY <1>1, PodsAssumption DEF ComputedInv, Scored
  <2> HIDE DEF nodes, pods
  <2>2. PICK N, P : /\ \A x \in N : IsNode(x)
                    /\ \A p \in P : IsPod(p)
                    /\ nodes \in Seq(N) /\ pods \in Seq(P)
    BY <2>1, NodesAndPods
  <2>3. /\ DOMAIN nodes = 1..Len(nodes)
        /\ DOMAIN pods = 1..Len(pods)
    BY <2>2
  <2>4. \A name : /\ NodeUsage(name, pods) \in Nat
                  /\ NodeUsage(name, pods) <= Needed(name, pods)
                  /\ (\A k \in 1..Len(pods) : ~HeavyInits(pods[k])) =>
                       NodeUsage(name, pods) = Needed(name, pods)
    BY <2>2, UsageNeeded
  <2>5. Uses(pods)
    BY <2>4 DEF Uses
  <2>6. UsageIsWhatPodsNeed
    BY <2>3, <2>4 DEF UsageIsWhatPodsNeed, nodes, pods
  <2>7. ASSUME NEW k \in 1..Len(pods)
        PROVE  LET rest == RemoveAt(pods, k)
                   node == NodeScore(nodes, rest, MaxAmount)
                   all == ClusterScore(nodes, rest, MaxAmount) IN
               /\ output.node <= node /\ output.cluster <= all
               /\ pods[k].over => output.node = node /\ output.cluster = all
    <3> DEFINE rest == RemoveAt(pods, k)
    <3>1. \A name :
            /\ NodeUsage(name, pods) \in Nat /\ NodeUsage(name, rest) \in Nat
            /\ NodeUsage(name, rest) <= NodeUsage(name, pods)
            /\ pods[k].over => NodeUsage(name, rest) = NodeUsage(name, pods)
      BY <2>2, LessUsage
    <3> HIDE DEF rest
    <3>2. Uses(rest)
      BY <3>1 DEF Uses
    <3>3. /\ MaxAvailableNode(nodes, pods) \in Int
          /\ MaxAvailableNode(nodes, rest) \in Int
          /\ MaxAvailableNode(nodes, pods) <= MaxAvailableNode(nodes, rest)
          /\ ClusterAvailable(nodes, pods) \in Int
          /\ ClusterAvailable(nodes, rest) \in Int
          /\ ClusterAvailable(nodes, pods) <= ClusterAvailable(nodes, rest)
      BY <2>2, <2>5, <3>1, <3>2, LessTaken
    <3>4. /\ output.node <= NodeScore(nodes, rest, MaxAmount)
          /\ output.cluster <= ClusterScore(nodes, rest, MaxAmount)
      BY <2>1, <3>3, NormalizeMonotone DEF NodeScore, ClusterScore
    <3>5. ASSUME pods[k].over
          PROVE  /\ output.node = NodeScore(nodes, rest, MaxAmount)
                 /\ output.cluster = ClusterScore(nodes, rest, MaxAmount)
      <4>1. \A name : NodeUsage(name, pods) <= NodeUsage(name, rest)
        BY <3>1, <3>5
      <4>2. /\ MaxAvailableNode(nodes, rest) <= MaxAvailableNode(nodes, pods)
            /\ ClusterAvailable(nodes, rest) <= ClusterAvailable(nodes, pods)
        BY <2>2, <2>5, <3>2, <4>1, LessTaken
      <4>3. /\ MaxAvailableNode(nodes, rest) = MaxAvailableNode(nodes, pods)
            /\ ClusterAvailable(nodes, rest) = ClusterAvailable(nodes, pods)
        BY <3>3, <4>2
      <4> QED
        BY <2>1, <4>3 DEF NodeScore, ClusterScore
    <3> QED
      BY <3>4, <3>5 DEF rest
  <2>8. PodsThatEndGiveBack
    BY <2>3, <2>7 DEF PodsThatEndGiveBack, nodes, pods
  <2>9. NodeWithinCluster
    <3>1. CASE Overcommitted(nodes, pods)
      BY <2>3, <3>1 DEF Overcommitted, NodeWithinCluster, nodes, pods
    <3>2. CASE ~Overcommitted(nodes, pods)
      <4>1. /\ MaxAvailableNode(nodes, pods) \in Int
            /\ ClusterAvailable(nodes, pods) \in Int
        <5>1. \A name : NodeUsage(name, pods) <= NodeUsage(name, pods)
          BY <2>4
        <5> QED
          BY <2>2, <2>5, <5>1, LessTaken
      <4>2. MaxAvailableNode(nodes, pods) <= ClusterAvailable(nodes, pods)
        BY <2>2, <2>5, <3>2, BestWithinCluster
      <4>3. output.node <= output.cluster
        BY <2>1, <4>1, <4>2, NormalizeMonotone DEF NodeScore, ClusterScore
      <4> QED
        BY <4>3 DEF NodeWithinCluster
    <3> QED
      BY <3>1, <3>2
  <2> QED
    BY <2>6, <2>8, <2>9
<1>2. SecondRoundPublishes
  BY RoundsAssumption DEF SecondRoundPublishes, SyncScore
<1>3. ComputedInv => ScoresFollowPods
  BY <1>1, <1>2 DEF ScoresFollowPods
<1> QED
  BY <1>3, ComputedInvHolds, PTL

=============================================================================
