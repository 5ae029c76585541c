----------------------- MODULE KueueCredentialsProofs -----------------------
(***************************************************************************)
(* Proofs about KueueCredentials, for every value of its constants: any    *)
(* clusters, URLs, edits, failures and restarts, in each of the modes.     *)
(***************************************************************************)
EXTENDS KueueCredentials, TLAPS

\* The steps that each mode has; a worker at a step has a key.
ModeInv ==
  /\ (genPc = "idle") <=> (genKey = NoKey)
  /\ (copyPc = "idle") <=> (copyKey = NoKey)
  /\ impersonation => genPc \notin {"account", "cleanAccount"}
  /\ impersonation => copyPc # "check"
  /\ profiles => copyPc \in {"idle", "cluster", "deleteCluster"}
  /\ copyPc = "apply" => copied # NoSecret

\* A cache differs from the objects only while there is a notice, and a notice
\* always queues the cluster.
SeenInv ==
  /\ notices \subseteq Clusters \X Watched
  /\ \A c \in Clusters :
       /\ <<c, "permission">> \notin notices
            => permissionSeen[c] = permission[c]
       /\ profiles /\ <<c, "profile">> \notin notices
            => profileSeen[c] = profile[c]
       /\ profiles /\ <<c, "synced">> \notin notices
            => syncedSeen[c] = synced[c]

\* No event is on its way to the generator.
GenQuiet(c) ==
  c \notin genQueue /\ <<c, "permission">> \notin notices
    /\ <<c, "account">> \notin notices

\* What the generator has made of the ManagedCluster in its cache.
GenDone(c) ==
  /\ permission[c] <=> ~clusterSeen[c].deleting
  /\ account[c] <=> (~clusterSeen[c].deleting /\ ~impersonation)

\* What holds on the way there.
GenStep(c) ==
  /\ genPc \in {"permission", "account"} => ~clusterSeen[c].deleting
  /\ genPc \in {"clean", "cleanAccount"} => clusterSeen[c].deleting
  /\ genPc = "account" => permission[c]
  /\ genPc = "cleanAccount" => ~permission[c]

GenInv ==
  \A c \in Clusters : clusterSeen[c] # NoCluster /\ GenQuiet(c) =>
    /\ genKey = c => GenStep(c)
    /\ genKey # c => GenDone(c)

\* No event is on its way to the copier.
CopyQuiet(c) ==
  /\ c \notin copyQueue
  /\ \A kind \in Kinds \ {"account"} : <<c, kind>> \notin notices

\* MultiKueue is to have cluster c.
Needed(c) ==
  /\ permission[c]
  /\ profiles => profile[c] # "none" /\ synced[c]
  /\ ~profiles => CurrentToken(c) # 0

HasToken(c) == kubeconfig[c] # NoSecret /\ kubeconfig[c].token = CurrentToken(c)

CopyDone(c) ==
  /\ Needed(c) => mkcluster[c] = Source /\ (~profiles => HasToken(c))
  /\ ~Needed(c) => /\ mkcluster[c] = "none"
                   /\ c \notin orphaned => kubeconfig[c] = NoSecret

\* What the copier has found out at a step still holds.
CopyStep(c) ==
  /\ copyPc \in {"check", "read", "apply"} => permission[c]
  /\ copyPc = "apply" => copied.token = CurrentToken(c)
  /\ copyPc = "cluster" => Needed(c) /\ (~profiles => HasToken(c))
  /\ copyPc \in {"deleteSecret", "deleteCluster"} => ~Needed(c)
  /\ copyPc = "deleteCluster" => kubeconfig[c] = NoSecret

CopyInv ==
  \A c \in Clusters : CopyQuiet(c) =>
    /\ copyKey = c => CopyStep(c)
    /\ copyKey # c => CopyDone(c)

IInv == TypeOK /\ ModeInv /\ SeenInv /\ GenInv /\ CopyInv

-----------------------------------------------------------------------------
LEMMA InitIInv == Init => IInv
<1> SUFFICES ASSUME Init PROVE IInv
  OBVIOUS
<1>1. TypeOK
  <2>1. edits \in 0..MaxEdits /\ failures \in 0..MaxFailures
    <3>1. edits = 0 /\ failures = 0
      BY DEF Init
    <3>2. QED BY <3>1, BoundsAssumption
  <2>2. token \in [Clusters -> 0..(MaxEdits + 2)]
    <3>1. 0 \in 0..(MaxEdits + 2)
      BY BoundsAssumption
    <3>2. QED BY <3>1 DEF Init
  <2>3. QED BY <2>1, <2>2 DEF Init, TypeOK, Sources
<1>2. ModeInv /\ SeenInv
  BY DEF Init, ModeInv, SeenInv
<1>3. GenInv
  BY DEF Init, GenInv
<1>4. CopyInv
  <2> SUFFICES ASSUME NEW c \in Clusters PROVE copyKey # c /\ CopyDone(c)
    BY DEF CopyInv
  <2>1. copyKey # c
    BY SentinelAssumption DEF Init
  <2>2. ~Needed(c) /\ mkcluster[c] = "none" /\ kubeconfig[c] = NoSecret
    BY DEF Init, Needed
  <2>3. QED BY <2>1, <2>2 DEF CopyDone
<1>5. QED BY <1>1, <1>2, <1>3, <1>4 DEF IInv

-----------------------------------------------------------------------------
(***************************************************************************)
(* What the parts of the invariant do not speak of.                        *)
(***************************************************************************)

\* An event for a cluster is on its way to whom it concerns.
LEMMA NotifyFacts ==
  ASSUME NEW c \in Clusters, NEW kind \in Kinds, NEW changed \in BOOLEAN,
         Notify(c, kind, changed),
         notices \subseteq Clusters \X Watched, notices \subseteq Clusters \X Kinds
  PROVE  /\ notices \subseteq notices'
         /\ notices' \subseteq Clusters \X Watched
         /\ notices' \subseteq Clusters \X Kinds
         /\ notices' \subseteq notices \cup {<<c, kind>>}
         /\ changed /\ kind \in Watched => <<c, kind>> \in notices'
BY DEF Notify

LEMMA GenFrame ==
  ASSUME GenInv, UNCHANGED <<genPc, genKey, impersonation>>,
         \A c \in Clusters : GenQuiet(c)' =>
           /\ GenQuiet(c) /\ clusterSeen'[c] = clusterSeen[c]
           /\ permission'[c] = permission[c] /\ account'[c] = account[c]
  PROVE  GenInv'
BY DEF GenInv, GenStep, GenDone

LEMMA CopyFrame ==
  ASSUME ModeInv, CopyInv,
         UNCHANGED <<copyPc, copyKey, copied, impersonation, profiles,
                     orphaned, kubeconfig>>,
         \A c \in Clusters : CopyQuiet(c)' =>
           /\ CopyQuiet(c) /\ permission'[c] = permission[c]
           /\ ~profiles /\ ~impersonation => token'[c] = token[c]
           /\ mkcluster'[c] = mkcluster[c]
           /\ profiles => profile'[c] = profile[c] /\ synced'[c] = synced[c]
  PROVE  CopyInv'
<1> SUFFICES ASSUME NEW c \in Clusters, CopyQuiet(c)'
             PROVE  /\ copyKey' = c => CopyStep(c)'
                    /\ copyKey' # c => CopyDone(c)'
  BY DEF CopyInv
<1>1. /\ CopyQuiet(c) /\ permission'[c] = permission[c]
      /\ ~profiles /\ ~impersonation => token'[c] = token[c]
      /\ mkcluster'[c] = mkcluster[c]
      /\ profiles => profile'[c] = profile[c] /\ synced'[c] = synced[c]
  OBVIOUS
<1>2. ~profiles => CurrentToken(c)' = CurrentToken(c)
  BY <1>1 DEF CurrentToken
<1>3. Needed(c)' <=> Needed(c)
  BY <1>1, <1>2 DEF Needed
<1>4. ~profiles => (HasToken(c)' <=> HasToken(c))
  BY <1>2 DEF HasToken
<1>5. (copyKey = c => CopyStep(c)) /\ (copyKey # c => CopyDone(c))
  BY <1>1 DEF CopyInv
<1>6. copyPc = "apply" => ~profiles
  BY DEF ModeInv
<1>7. QED BY <1>1, <1>2, <1>3, <1>4, <1>5, <1>6 DEF CopyStep, CopyDone, Source

\* A change of an object that the environment makes, or an event: the workers
\* are where they were, and who is concerned is told.
Outside ==
  UNCHANGED <<impersonation, profiles, orphaned, kubeconfig, genPc, genKey,
              copyPc, copyKey, copied>>

LEMMA OutsideIInv ==
  ASSUME IInv, TypeOK', SeenInv', Outside,
         \A c \in Clusters : GenQuiet(c)' =>
           /\ GenQuiet(c) /\ clusterSeen'[c] = clusterSeen[c]
           /\ permission'[c] = permission[c] /\ account'[c] = account[c],
         \A c \in Clusters : CopyQuiet(c)' =>
           /\ CopyQuiet(c) /\ permission'[c] = permission[c]
           /\ ~profiles /\ ~impersonation => token'[c] = token[c]
           /\ mkcluster'[c] = mkcluster[c]
           /\ profiles => profile'[c] = profile[c] /\ synced'[c] = synced[c]
  PROVE  IInv'
<1>1. ModeInv'
  BY DEF Outside, IInv, ModeInv
<1>2. GenInv'
  BY GenFrame DEF Outside, IInv
<1>3. CopyInv'
  BY CopyFrame DEF Outside, IInv
<1>4. QED BY <1>1, <1>2, <1>3 DEF IInv

\* The caches are as they were, and an event comes with every change.
LEMMA SeenFrame ==
  ASSUME SeenInv, notices \subseteq notices', notices' \subseteq Clusters \X Watched,
         UNCHANGED <<impersonation, profiles, permissionSeen, profileSeen,
                     syncedSeen>>,
         \A c \in Clusters :
           /\ <<c, "permission">> \notin notices' => permission'[c] = permission[c]
           /\ profiles /\ <<c, "profile">> \notin notices'
                => profile'[c] = profile[c]
           /\ profiles /\ <<c, "synced">> \notin notices'
                => synced'[c] = synced[c]
  PROVE  SeenInv'
<1>1. Watched' = Watched
  BY DEF Watched, CopyWatches
<1>2. QED BY <1>1 DEF SeenInv

-----------------------------------------------------------------------------
(***************************************************************************)
(* The environment.                                                        *)
(***************************************************************************)
LEMMA EditClusterIInv ==
  ASSUME IInv, NEW c \in Clusters, EditCluster(c) \/ ClusterGone(c)
  PROVE  IInv'
<1> USE DEF copies, generated, profiled, caches, seenVars, modeVars, genVars,
            copyVars
<1>1. cluster' \in [Clusters -> ManagedCluster \cup {NoCluster}]
  <2>1. cluster \in [Clusters -> ManagedCluster \cup {NoCluster}]
    BY DEF IInv, TypeOK
  <2>2. CASE EditCluster(c)
    <3>1. CASE \E u \in UrlsRead :
                 cluster' = [cluster EXCEPT ![c] = [deleting |-> FALSE, url |-> u]]
      BY <2>1, <3>1 DEF UrlsRead, ManagedCluster
    <3>2. CASE /\ cluster[c] # NoCluster
               /\ \E u \in Urls : cluster' = [cluster EXCEPT ![c].url = u]
      BY <2>1, <3>2 DEF ManagedCluster
    <3>3. CASE /\ cluster[c] # NoCluster
               /\ cluster' = [cluster EXCEPT ![c].deleting = TRUE]
      BY <2>1, <3>3 DEF ManagedCluster
    <3>4. QED
      BY <2>2, <3>1, <3>2, <3>3 DEF EditCluster, FirstUrls, UrlsRead
  <2>3. CASE ClusterGone(c)
    BY <2>1, <2>3 DEF ClusterGone
  <2>4. QED BY <2>2, <2>3
<1>2. edits' \in 0..MaxEdits
  BY BoundsAssumption DEF EditCluster, ClusterGone, Edit, IInv, TypeOK
<1>3. UNCHANGED <<generated, copies, mkcluster, profiled, caches, genVars,
                  copyVars, failures>>
  BY DEF EditCluster, ClusterGone
<1>4. TypeOK'
  BY <1>1, <1>2, <1>3 DEF IInv, TypeOK
<1>5. SeenInv'
  BY <1>3 DEF IInv, SeenInv, Watched, CopyWatches
<1>6. Outside
  BY <1>3 DEF Outside
<1>7. QED BY <1>3, <1>4, <1>5, <1>6, OutsideIInv DEF GenQuiet, CopyQuiet

\* One object of cluster c changes, with an event.
LEMMA ChangeIInv ==
  ASSUME IInv, TypeOK', Outside, NEW c \in Clusters, NEW kind \in Kinds,
         Notify(c, kind, TRUE),
         UNCHANGED <<clusterSeen, permissionSeen, profileSeen, syncedSeen,
                     genQueue, copyQueue>>,
         \A d \in Clusters :
           /\ d # c \/ kind # "permission" => permission'[d] = permission[d]
           /\ d # c \/ kind # "account" => account'[d] = account[d]
           /\ d # c \/ kind # "token" => token'[d] = token[d]
           /\ d # c \/ kind # "mkcluster" => mkcluster'[d] = mkcluster[d]
           /\ d # c \/ kind # "profile" => profile'[d] = profile[d]
           /\ d # c \/ kind # "synced" => synced'[d] = synced[d]
  PROVE  IInv'
<1>1. /\ notices \subseteq notices'
      /\ notices' \subseteq Clusters \X Watched
      /\ kind \in Watched => <<c, kind>> \in notices'
  BY NotifyFacts DEF IInv, SeenInv, TypeOK
<1>2. /\ {"permission", "account", "mkcluster"} \subseteq Watched
      /\ profiles => {"profile", "synced"} \subseteq Watched
      /\ ~profiles /\ ~impersonation => "token" \in Watched
  BY DEF Watched, CopyWatches
<1>3. SeenInv'
  <2>1. \A d \in Clusters :
          /\ <<d, "permission">> \notin notices' => permission'[d] = permission[d]
          /\ profiles /\ <<d, "profile">> \notin notices'
               => profile'[d] = profile[d]
          /\ profiles /\ <<d, "synced">> \notin notices'
               => synced'[d] = synced[d]
    BY <1>1, <1>2
  <2>2. QED BY <1>1, <2>1, SeenFrame DEF IInv, Outside
<1>4. ASSUME NEW d \in Clusters, GenQuiet(d)'
      PROVE  /\ GenQuiet(d) /\ clusterSeen'[d] = clusterSeen[d]
             /\ permission'[d] = permission[d] /\ account'[d] = account[d]
  BY <1>1, <1>2, <1>4 DEF GenQuiet
<1>5. ASSUME NEW d \in Clusters, CopyQuiet(d)'
      PROVE  /\ CopyQuiet(d) /\ permission'[d] = permission[d]
             /\ ~profiles /\ ~impersonation => token'[d] = token[d]
             /\ mkcluster'[d] = mkcluster[d]
             /\ profiles => profile'[d] = profile[d] /\ synced'[d] = synced[d]
  <2>1. CopyQuiet(d)
    BY <1>1, <1>5 DEF CopyQuiet
  <2>2. \A k \in Kinds \ {"account"} : <<d, k>> \notin notices'
    BY <1>5 DEF CopyQuiet
  <2>3. d = c => kind \notin Watched \/ kind = "account"
    BY <1>1, <2>2
  <2>4. QED BY <1>2, <2>1, <2>3
<1>6. QED BY <1>3, <1>4, <1>5, OutsideIInv

LEMMA TamperIInv == ASSUME IInv, NEW c \in Clusters, Tamper(c) PROVE IInv'
<1> USE DEF copies, profiled, seenVars, modeVars, genVars, copyVars
<1>1. /\ UNCHANGED <<cluster, token, copies, profiled, seenVars, genVars,
                     copyVars, failures>>
      /\ edits' \in 0..MaxEdits
  BY BoundsAssumption DEF Tamper, Edit, IInv, TypeOK
<1>2. PICK kind \in {"permission", "account", "mkcluster"} :
        /\ Notify(c, kind, TRUE)
        /\ IF kind = "permission"
           THEN permission' = [permission EXCEPT ![c] = FALSE]
           ELSE permission' = permission
        /\ IF kind = "account" THEN account' = [account EXCEPT ![c] = FALSE]
                               ELSE account' = account
        /\ IF kind = "mkcluster"
           THEN \E to \in Sources \cup {"none"} :
                  mkcluster' = [mkcluster EXCEPT ![c] = to]
           ELSE mkcluster' = mkcluster
  <2>1. CASE /\ permission' = [permission EXCEPT ![c] = FALSE]
             /\ Notify(c, "permission", TRUE) /\ UNCHANGED <<account, mkcluster>>
    BY <2>1
  <2>2. CASE /\ account' = [account EXCEPT ![c] = FALSE]
             /\ Notify(c, "account", TRUE)
             /\ UNCHANGED <<permission, mkcluster>>
    BY <2>2
  <2>3. CASE /\ \E to \in (Sources \cup {"none"}) \ {mkcluster[c]} :
                  mkcluster' = [mkcluster EXCEPT ![c] = to]
             /\ Notify(c, "mkcluster", TRUE)
             /\ UNCHANGED <<permission, account>>
    BY <2>3
  <2>4. QED BY <2>1, <2>2, <2>3 DEF Tamper
<1>3. kind \in Kinds
  BY DEF Kinds
<1>4. /\ permission \in [Clusters -> BOOLEAN] /\ account \in [Clusters -> BOOLEAN]
      /\ mkcluster \in [Clusters -> Sources \cup {"none"}]
  BY DEF IInv, TypeOK
<1>5. /\ permission' \in [Clusters -> BOOLEAN] /\ account' \in [Clusters -> BOOLEAN]
      /\ mkcluster' \in [Clusters -> Sources \cup {"none"}]
  BY <1>2, <1>4
<1>6. notices' \subseteq Clusters \X Kinds
  BY <1>2, <1>3, NotifyFacts DEF IInv, SeenInv, TypeOK
<1>7. impersonation => \A d \in Clusters : ~account'[d]
  BY <1>2, <1>4 DEF IInv, TypeOK
<1>8. TypeOK'
  BY <1>1, <1>5, <1>6, <1>7 DEF IInv, TypeOK
<1>9. Outside
  BY <1>1 DEF Outside
<1>10. \A d \in Clusters :
         /\ d # c \/ kind # "permission" => permission'[d] = permission[d]
         /\ d # c \/ kind # "account" => account'[d] = account[d]
         /\ d # c \/ kind # "mkcluster" => mkcluster'[d] = mkcluster[d]
  BY <1>2, <1>4
<1>11. QED BY <1>1, <1>2, <1>3, <1>8, <1>9, <1>10, ChangeIInv

LEMMA TokenBound ==
  ASSUME NEW n \in 0..MaxEdits
  PROVE  {0, 1, n + 1} \subseteq 0..(MaxEdits + 2)
<1>1. MaxEdits \in Nat /\ n \in Nat /\ n <= MaxEdits
  BY BoundsAssumption
<1>2. n + 1 \in 0..(MaxEdits + 2)
  BY <1>1
<1>3. 0 \in 0..(MaxEdits + 2) /\ 1 \in 0..(MaxEdits + 2)
  BY <1>1
<1>4. QED BY <1>2, <1>3

LEMMA TokenIInv ==
  ASSUME IInv, NEW c \in Clusters, IssueToken(c) \/ RotateToken(c)
  PROVE  IInv'
<1> USE DEF copies, profiled, seenVars, modeVars, genVars, copyVars
<1>1. /\ UNCHANGED <<cluster, permission, account, copies, mkcluster,
                     profiled, seenVars, genVars, copyVars, failures>>
      /\ Notify(c, "token", TRUE)
  BY DEF IssueToken, RotateToken
<1>2. edits' \in 0..MaxEdits
  <2>1. edits \in 0..MaxEdits
    BY DEF IInv, TypeOK
  <2>2. edits' = edits \/ (edits < MaxEdits /\ edits' = edits + 1)
    BY DEF IssueToken, RotateToken, Edit
  <2>3. QED BY <2>1, <2>2, BoundsAssumption
<1>3. PICK t \in 0..(MaxEdits + 2) : token' = [token EXCEPT ![c] = t]
  <2>1. {0, 1, edits + 1, edits' + 1} \subseteq 0..(MaxEdits + 2)
    BY <1>2, TokenBound DEF IInv, TypeOK
  <2>2. CASE IssueToken(c)
    BY <2>1, <2>2 DEF IssueToken
  <2>3. CASE RotateToken(c)
    BY <2>1, <2>3 DEF RotateToken
  <2>4. QED BY <2>2, <2>3
<1>4. token \in [Clusters -> 0..(MaxEdits + 2)]
  BY DEF IInv, TypeOK
<1>5. "token" \in Kinds
  BY DEF Kinds
<1>6. notices' \subseteq Clusters \X Kinds
  BY <1>1, <1>5, NotifyFacts DEF IInv, SeenInv, TypeOK
<1>7. TypeOK'
  BY <1>1, <1>2, <1>3, <1>4, <1>6 DEF IInv, TypeOK
<1>8. Outside
  BY <1>1 DEF Outside
<1>9. \A d \in Clusters : d # c => token'[d] = token[d]
  BY <1>3, <1>4
<1>10. QED BY <1>1, <1>5, <1>7, <1>8, <1>9, ChangeIInv

LEMMA SyncProfileIInv ==
  ASSUME IInv, NEW c \in Clusters, SyncProfile(c) PROVE IInv'
<1> USE DEF copies, generated, seenVars, modeVars, genVars, copyVars
<1>1. /\ UNCHANGED <<cluster, generated, copies, mkcluster, synced,
                     seenVars, genVars, copyVars, edits, failures>>
      /\ Notify(c, "profile", TRUE)
  BY DEF SyncProfile
<1>2. profile \in [Clusters -> {"none", "incomplete", "complete"}]
  BY DEF IInv, TypeOK
<1>3. /\ profile' \in [Clusters -> {"none", "incomplete", "complete"}]
      /\ \A d \in Clusters : d # c => profile'[d] = profile[d]
  BY <1>2 DEF SyncProfile
<1>4. "profile" \in Kinds
  BY DEF Kinds
<1>5. notices' \subseteq Clusters \X Kinds
  BY <1>1, <1>4, NotifyFacts DEF IInv, SeenInv, TypeOK
<1>6. TypeOK'
  BY <1>1, <1>3, <1>5 DEF IInv, TypeOK
<1>7. Outside
  BY <1>1 DEF Outside
<1>8. QED BY <1>1, <1>3, <1>4, <1>6, <1>7, ChangeIInv

LEMMA SyncSecretIInv ==
  ASSUME IInv, NEW c \in Clusters, SyncSecret(c) PROVE IInv'
<1> USE DEF copies, generated, seenVars, modeVars, genVars, copyVars
<1>1. /\ UNCHANGED <<cluster, generated, copies, mkcluster, profile,
                     seenVars, genVars, copyVars, edits, failures>>
      /\ Notify(c, "synced", TRUE)
  BY DEF SyncSecret
<1>2. synced \in [Clusters -> BOOLEAN]
  BY DEF IInv, TypeOK
<1>3. PICK b \in BOOLEAN : synced' = [synced EXCEPT ![c] = b]
  <2>1. (profile[c] # "none" /\ token[c] # 0) \in BOOLEAN
    OBVIOUS
  <2>2. QED BY <2>1 DEF SyncSecret
<1>4. /\ synced' \in [Clusters -> BOOLEAN]
      /\ \A d \in Clusters : d # c => synced'[d] = synced[d]
  BY <1>2, <1>3
<1>5. "synced" \in Kinds
  BY DEF Kinds
<1>6. notices' \subseteq Clusters \X Kinds
  BY <1>1, <1>5, NotifyFacts DEF IInv, SeenInv, TypeOK
<1>7. TypeOK'
  BY <1>1, <1>4, <1>6 DEF IInv, TypeOK
<1>8. Outside
  BY <1>1 DEF Outside
<1>9. QED BY <1>1, <1>4, <1>5, <1>7, <1>8, ChangeIInv

\* The informers.
LEMMA ObserveClusterIInv ==
  ASSUME IInv, NEW c \in Clusters, ObserveCluster(c) PROVE IInv'
<1> USE DEF objects, copies, generated, profiled, modeVars, copyVars
<1>1. /\ clusterSeen' = [clusterSeen EXCEPT ![c] = cluster[c]]
      /\ genQueue' = genQueue \cup {c}
      /\ UNCHANGED <<objects, modeVars, permissionSeen, profileSeen, syncedSeen,
                     notices, genPc, genKey, copyVars, edits, failures>>
  BY DEF ObserveCluster
<1>2. /\ clusterSeen \in [Clusters -> ManagedCluster \cup {NoCluster}]
      /\ clusterSeen' \in [Clusters -> ManagedCluster \cup {NoCluster}]
  BY <1>1 DEF IInv, TypeOK
<1>3. TypeOK'
  BY <1>1, <1>2 DEF IInv, TypeOK
<1>4. SeenInv'
  BY <1>1 DEF IInv, SeenInv, Watched, CopyWatches
<1>5. Outside
  BY <1>1 DEF Outside
<1>6. \A d \in Clusters : GenQuiet(d)' =>
        GenQuiet(d) /\ clusterSeen'[d] = clusterSeen[d]
  BY <1>1, <1>2 DEF GenQuiet
<1>7. \A d \in Clusters : CopyQuiet(d)' => CopyQuiet(d)
  BY <1>1 DEF CopyQuiet
<1>8. QED BY <1>1, <1>3, <1>4, <1>5, <1>6, <1>7, OutsideIInv

LEMMA ObservePermissionIInv ==
  ASSUME IInv, NEW c \in Clusters, ObservePermission(c) PROVE IInv'
<1> USE DEF objects, copies, generated, profiled, modeVars
<1>1. /\ notices' = notices \ {<<c, "permission">>}
      /\ permissionSeen' = [permissionSeen EXCEPT ![c] = permission[c]]
      /\ genQueue' = genQueue \cup {c} /\ copyQueue' = copyQueue \cup {c}
      /\ UNCHANGED <<objects, modeVars, clusterSeen, profileSeen, syncedSeen,
                     genPc, genKey, copyPc, copyKey, copied, edits, failures>>
  BY DEF ObservePermission
<1>2. /\ permissionSeen \in [Clusters -> BOOLEAN]
      /\ permissionSeen' \in [Clusters -> BOOLEAN]
  BY <1>1 DEF IInv, TypeOK
<1>3. TypeOK'
  BY <1>1, <1>2 DEF IInv, TypeOK
<1>4. SeenInv'
  <2>1. Watched' = Watched
    BY <1>1 DEF Watched, CopyWatches
  <2>2. QED BY <1>1, <1>2, <2>1 DEF IInv, SeenInv
<1>5. Outside
  BY <1>1 DEF Outside
<1>6. \A d \in Clusters : GenQuiet(d)' => GenQuiet(d)
  BY <1>1 DEF GenQuiet
<1>7. \A d \in Clusters : CopyQuiet(d)' => CopyQuiet(d)
  BY <1>1 DEF CopyQuiet
<1>8. QED BY <1>1, <1>3, <1>4, <1>5, <1>6, <1>7, OutsideIInv

LEMMA ObserveOtherIInv ==
  ASSUME IInv, NEW c \in Clusters, NEW kind \in Kinds \ {"permission"},
         ObserveOther(c, kind)
  PROVE  IInv'
<1> USE DEF objects, copies, generated, profiled, modeVars
<1>1. /\ <<c, kind>> \in notices
      /\ notices' = notices \ {<<c, kind>>}
      /\ UNCHANGED <<objects, modeVars, clusterSeen, permissionSeen, genPc,
                     genKey, copyPc, copyKey, copied, edits, failures>>
  BY DEF ObserveOther
<1>2. /\ genQueue' = IF kind = "account" THEN genQueue \cup {c} ELSE genQueue
      /\ copyQueue' = IF kind \in CopyWatches THEN copyQueue \cup {c}
                                               ELSE copyQueue
  BY DEF ObserveOther
<1>3. /\ profileSeen \in [Clusters -> {"none", "incomplete", "complete"}]
      /\ syncedSeen \in [Clusters -> BOOLEAN]
      /\ profile \in [Clusters -> {"none", "incomplete", "complete"}]
      /\ synced \in [Clusters -> BOOLEAN]
  BY DEF IInv, TypeOK
<1>4. /\ profileSeen' \in [Clusters -> {"none", "incomplete", "complete"}]
      /\ syncedSeen' \in [Clusters -> BOOLEAN]
  BY <1>3 DEF ObserveOther
<1>5. \A d \in Clusters :
        /\ profileSeen'[d] = IF d = c /\ kind = "profile" THEN profile[d]
                                                          ELSE profileSeen[d]
        /\ syncedSeen'[d] = IF d = c /\ kind = "synced" THEN synced[d]
                                                        ELSE syncedSeen[d]
  BY <1>3 DEF ObserveOther
<1>6. TypeOK'
  BY <1>1, <1>2, <1>4 DEF IInv, TypeOK
<1>7. SeenInv'
  <2>1. Watched' = Watched
    BY <1>1 DEF Watched, CopyWatches
  <2>2. QED BY <1>1, <1>5, <2>1 DEF IInv, SeenInv
<1>8. Outside
  BY <1>1 DEF Outside
<1>9. \A d \in Clusters : GenQuiet(d)' => GenQuiet(d)
  BY <1>1, <1>2 DEF GenQuiet
<1>10. kind \in CopyWatches \cup {"account"}
  BY <1>1 DEF IInv, SeenInv, Watched
<1>11. \A d \in Clusters : CopyQuiet(d)' => CopyQuiet(d)
  BY <1>1, <1>2, <1>10 DEF CopyQuiet
<1>12. QED BY <1>1, <1>6, <1>7, <1>8, <1>9, <1>11, OutsideIInv

LEMMA ResyncIInv ==
  ASSUME IInv, NEW c \in Clusters, ResyncGen(c) \/ ResyncCopy(c)
  PROVE  IInv'
<1> USE DEF objects, copies, generated, profiled, caches, seenVars, modeVars,
            genVars,
            copyVars
<1>1. /\ genQueue' \in {genQueue, genQueue \cup {c}}
      /\ copyQueue' \in {copyQueue, copyQueue \cup {c}}
      /\ UNCHANGED <<objects, caches, genPc, genKey, copyPc, copyKey, copied,
                     edits, failures>>
  BY DEF ResyncGen, ResyncCopy
<1>2. TypeOK'
  BY <1>1 DEF IInv, TypeOK
<1>3. SeenInv'
  BY <1>1 DEF IInv, SeenInv, Watched, CopyWatches
<1>4. Outside
  BY <1>1 DEF Outside
<1>5. \A d \in Clusters : GenQuiet(d)' => GenQuiet(d)
  BY <1>1 DEF GenQuiet
<1>6. \A d \in Clusters : CopyQuiet(d)' => CopyQuiet(d)
  BY <1>1 DEF CopyQuiet
<1>7. QED BY <1>1, <1>2, <1>3, <1>4, <1>5, <1>6, OutsideIInv

LEMMA FailureTyped ==
  ASSUME TypeOK, Failure \/ UNCHANGED failures PROVE failures' \in 0..MaxFailures
<1>1. failures \in 0..MaxFailures
  BY DEF TypeOK
<1>2. failures' = failures \/ (failures < MaxFailures /\ failures' = failures + 1)
  BY DEF Failure
<1>3. QED BY <1>1, <1>2, BoundsAssumption

LEMMA RestartIInv == ASSUME IInv, Restart PROVE IInv'
<1> USE DEF objects, copies, generated, profiled
<1>1. /\ clusterSeen' = cluster /\ permissionSeen' = permission
      /\ profileSeen' = profile /\ syncedSeen' = synced
      /\ notices' = {}
      /\ genPc' = "idle" /\ genKey' = NoKey
      /\ copyPc' = "idle" /\ copyKey' = NoKey /\ copied' = NoSecret
      /\ UNCHANGED <<cluster, generated, kubeconfig, mkcluster, profiled,
                     impersonation, proxy, profiles, edits>>
  BY DEF Restart, modeVars
<1>2. /\ genQueue' = {c \in Clusters :
                       cluster[c] # NoCluster \/ permission[c] \/ account[c]}
      /\ copyQueue' = {c \in Clusters : HasWatched(c)}
      /\ orphaned' = orphaned \cup
           {c \in Clusters : kubeconfig[c] # NoSecret /\ ~HasWatched(c)}
  BY DEF Restart
<1>3. failures' \in 0..MaxFailures
  BY FailureTyped DEF Restart, IInv
<1>4. /\ genQueue' \subseteq Clusters /\ copyQueue' \subseteq Clusters
      /\ orphaned' \subseteq Clusters
  BY <1>2 DEF IInv, TypeOK
<1>5. TypeOK'
  BY <1>1, <1>3, <1>4 DEF IInv, TypeOK
<1>6. ModeInv' /\ SeenInv'
  BY <1>1 DEF ModeInv, SeenInv
<1>7. GenInv'
  BY <1>1, <1>2 DEF GenInv, GenQuiet
<1>8. CopyInv'
  <2> SUFFICES ASSUME NEW c \in Clusters, ~HasWatched(c)
               PROVE  copyKey' # c /\ CopyDone(c)'
    BY <1>2 DEF CopyInv, CopyQuiet
  <2>1. copyKey' # c
    BY <1>1, SentinelAssumption
  <2>2. ~permission[c] /\ mkcluster[c] = "none"
    BY DEF HasWatched
  <2>3. ~Needed(c)' /\ mkcluster'[c] = "none"
    BY <1>1, <2>2 DEF Needed
  <2>4. c \notin orphaned' => kubeconfig'[c] = NoSecret
    BY <1>1, <1>2
  <2>5. QED BY <2>1, <2>3, <2>4 DEF CopyDone
<1>9. QED BY <1>5, <1>6, <1>7, <1>8 DEF IInv

-----------------------------------------------------------------------------
(***************************************************************************)
(* The secret generator.                                                   *)
(***************************************************************************)
LEMMA GenBeginIInv == ASSUME IInv, NEW c \in Clusters, GenBegin(c) PROVE IInv'
<1> USE DEF objects, copies, generated, profiled, caches, seenVars, modeVars,
            copyVars
<1>1. /\ genPc = "idle" /\ genKey = NoKey /\ genQueue' = genQueue \ {c}
      /\ UNCHANGED <<objects, caches, copyVars, edits, failures>>
  BY DEF GenBegin, IInv, ModeInv
<1>2. \/ clusterSeen[c] = NoCluster /\ genPc' = "idle" /\ genKey' = NoKey
      \/ /\ clusterSeen[c] # NoCluster /\ genKey' = c
         /\ genPc' = IF clusterSeen[c].deleting THEN "clean" ELSE "permission"
  BY <1>1 DEF GenBegin, Leaving
<1>3. /\ genPc' \in {"idle", "clean", "permission"}
      /\ genKey' \in Clusters \cup {NoKey}
      /\ (genPc' = "idle") <=> (genKey' = NoKey)
      /\ genKey' \in {c, NoKey}
  BY <1>2, SentinelAssumption
<1>4. TypeOK'
  BY <1>1, <1>3 DEF IInv, TypeOK
<1>5. ModeInv'
  BY <1>1, <1>3 DEF IInv, ModeInv
<1>6. SeenInv'
  BY <1>1 DEF IInv, SeenInv, Watched, CopyWatches
<1>7. GenInv'
  <2> SUFFICES ASSUME NEW d \in Clusters, clusterSeen[d] # NoCluster, GenQuiet(d)'
               PROVE  /\ genKey' = d => GenStep(d)'
                      /\ genKey' # d => GenDone(d)'
    BY <1>1 DEF GenInv
  <2>1. CASE d = c
    <3>1. /\ genKey' = c
          /\ genPc' = IF clusterSeen[c].deleting THEN "clean" ELSE "permission"
      BY <1>2, <2>1
    <3>2. GenStep(d)'
      BY <1>1, <2>1, <3>1 DEF GenStep
    <3>3. QED BY <2>1, <3>1, <3>2
  <2>2. CASE d # c
    <3>1. GenQuiet(d) /\ genKey # d /\ genKey' # d
      BY <1>1, <1>3, <2>2, SentinelAssumption DEF GenQuiet
    <3>2. GenDone(d)
      BY <3>1 DEF IInv, GenInv
    <3>3. QED BY <1>1, <3>1, <3>2 DEF GenDone
  <2>3. QED BY <2>1, <2>2
<1>8. CopyInv'
  BY <1>1, CopyFrame DEF IInv, CopyQuiet
<1>9. QED BY <1>4, <1>5, <1>6, <1>7, <1>8 DEF IInv

\* A call that failed puts the key back, and everything is as it was.
LEMMA GenFailsIInv ==
  ASSUME IInv, genPc # "idle", Failure, GenFinish(TRUE),
         UNCHANGED <<objects, caches, copyVars, edits>>
  PROVE  IInv'
<1> USE DEF objects, copies, generated, profiled, caches, seenVars, modeVars,
            copyVars
<1>1. /\ genPc' = "idle" /\ genKey' = NoKey /\ genQueue' = genQueue \cup {genKey}
      /\ genKey \in Clusters
  BY DEF GenFinish, IInv, ModeInv, TypeOK
<1>2. TypeOK'
  BY <1>1, FailureTyped DEF IInv, TypeOK
<1>3. ModeInv'
  BY <1>1 DEF IInv, ModeInv
<1>4. SeenInv'
  BY DEF IInv, SeenInv, Watched, CopyWatches
<1>5. GenInv'
  <2> SUFFICES ASSUME NEW d \in Clusters, clusterSeen[d] # NoCluster, GenQuiet(d)'
               PROVE  genKey' # d /\ GenDone(d)'
    BY DEF GenInv
  <2>1. d # genKey /\ GenQuiet(d) /\ genKey' # d
    BY <1>1, SentinelAssumption DEF GenQuiet
  <2>2. GenDone(d)
    BY <2>1 DEF IInv, GenInv
  <2>3. QED BY <2>1, <2>2 DEF GenDone
<1>6. CopyInv'
  BY CopyFrame DEF IInv, CopyQuiet
<1>7. QED BY <1>2, <1>3, <1>4, <1>5, <1>6 DEF IInv

LEMMA GenPermissionIInv == ASSUME IInv, GenPermission PROVE IInv'
<1> USE DEF copies, generated, profiled, seenVars, modeVars, copyVars
<1>1. /\ genPc \in {"permission", "clean"} /\ genKey \in Clusters
      /\ genKey # NoKey
  BY SentinelAssumption DEF GenPermission, IInv, ModeInv, TypeOK
<1>2. CASE Failure /\ GenFinish(TRUE) /\ UNCHANGED <<permission, notices>>
  BY <1>1, <1>2, GenFailsIInv DEF GenPermission, objects, caches
<1>3. CASE /\ permission' = [permission EXCEPT ![genKey] = (genPc = "permission")]
           /\ IF EndsHere THEN GenFinish(FALSE)
              ELSE /\ genPc' = IF genPc = "clean" THEN "cleanAccount"
                                                  ELSE "account"
                   /\ UNCHANGED <<genQueue, genKey>>
           /\ Notify(genKey, "permission", permission' # permission)
           /\ UNCHANGED failures
  <2>1. UNCHANGED <<cluster, account, token, copies, mkcluster, profiled,
                    seenVars, copyVars, edits, failures, genQueue>>
    BY <1>3 DEF GenPermission, GenFinish
  <2>2. \/ impersonation /\ genPc' = "idle" /\ genKey' = NoKey
        \/ /\ ~impersonation /\ genKey' = genKey
           /\ genPc' = IF genPc = "clean" THEN "cleanAccount" ELSE "account"
    BY <1>3 DEF GenFinish, EndsHere, IInv, TypeOK
  <2>3. /\ permission \in [Clusters -> BOOLEAN]
        /\ permission' \in [Clusters -> BOOLEAN]
        /\ \A d \in Clusters : d # genKey => permission'[d] = permission[d]
    <3>1. permission \in [Clusters -> BOOLEAN]
      BY DEF IInv, TypeOK
    <3>2. (genPc = "permission") \in BOOLEAN
      OBVIOUS
    <3>3. QED BY <1>3, <3>1, <3>2
  <2>4. permission'[genKey] <=> (genPc = "permission")
    BY <1>1, <1>3, <2>3
  <2>5. /\ "permission" \in Kinds /\ "permission" \in Watched
        /\ (permission' # permission) \in BOOLEAN
    BY DEF Kinds, Watched
  <2>6. /\ notices \subseteq notices'
        /\ notices' \subseteq Clusters \X Watched
        /\ notices' \subseteq Clusters \X Kinds
        /\ permission' # permission => <<genKey, "permission">> \in notices'
    BY <1>1, <1>3, <2>5, NotifyFacts DEF IInv, SeenInv, TypeOK
  <2>7. \A d \in Clusters :
          <<d, "permission">> \notin notices' => permission'[d] = permission[d]
    BY <2>3, <2>6
  <2>8. /\ genPc' \in {"idle", "account", "cleanAccount"}
        /\ genKey' \in {genKey, NoKey}
        /\ (genPc' = "idle") <=> (genKey' = NoKey)
        /\ impersonation => genPc' = "idle"
    BY <1>1, <2>2
  <2>9. TypeOK'
    BY <1>1, <2>1, <2>3, <2>6, <2>8 DEF IInv, TypeOK
  <2>10. ModeInv'
    BY <2>1, <2>8 DEF IInv, ModeInv
  <2>11. SeenInv'
    BY <2>1, <2>6, <2>7, SeenFrame DEF IInv
  <2>12. GenInv'
    <3> SUFFICES ASSUME NEW d \in Clusters, clusterSeen[d] # NoCluster,
                        GenQuiet(d)'
                 PROVE  /\ genKey' = d => GenStep(d)'
                        /\ genKey' # d => GenDone(d)'
      BY <2>1 DEF GenInv
    <3>1. GenQuiet(d) /\ permission'[d] = permission[d]
      BY <2>1, <2>6, <2>7 DEF GenQuiet
    <3>2. CASE d # genKey
      <4>1. genKey' # d
        BY <2>8, <3>2, SentinelAssumption
      <4>2. GenDone(d)
        BY <3>1, <3>2 DEF IInv, GenInv
      <4>3. QED BY <2>1, <3>1, <4>1, <4>2 DEF GenDone
    <3>3. CASE d = genKey
      <4>1. /\ genPc = "permission" => ~clusterSeen[d].deleting
            /\ genPc = "clean" => clusterSeen[d].deleting
        BY <3>1, <3>3 DEF IInv, GenInv, GenStep
      <4>2. permission'[d] <=> ~clusterSeen[d].deleting
        BY <1>1, <2>4, <3>3, <4>1
      <4>3. CASE impersonation
        <5>1. genKey' # d /\ ~account[d]
          BY <1>1, <2>2, <3>3, <4>3 DEF IInv, TypeOK
        <5>2. QED BY <2>1, <4>2, <4>3, <5>1 DEF GenDone
      <4>4. CASE ~impersonation
        <5>1. /\ genKey' = d
              /\ genPc' = IF genPc = "clean" THEN "cleanAccount" ELSE "account"
          BY <2>2, <3>3, <4>4
        <5>2. GenStep(d)'
          BY <1>1, <2>1, <4>1, <4>2, <5>1 DEF GenStep
        <5>3. QED BY <5>1, <5>2
      <4>5. QED BY <4>3, <4>4 DEF IInv, TypeOK
    <3>4. QED BY <3>2, <3>3
  <2>13. CopyInv'
    <3>1. \A d \in Clusters : CopyQuiet(d)' =>
            CopyQuiet(d) /\ permission'[d] = permission[d]
      BY <2>1, <2>6, <2>7 DEF CopyQuiet, Kinds
    <3>2. QED BY <2>1, <3>1, CopyFrame DEF IInv
  <2>14. QED BY <2>9, <2>10, <2>11, <2>12, <2>13 DEF IInv
<1>4. QED BY <1>2, <1>3 DEF GenPermission

LEMMA GenAccountIInv == ASSUME IInv, GenAccount PROVE IInv'
<1> USE DEF copies, generated, profiled, seenVars, modeVars, copyVars
<1>1. /\ genPc \in {"account", "cleanAccount"} /\ genKey \in Clusters
      /\ genKey # NoKey /\ ~impersonation
  BY SentinelAssumption DEF GenAccount, IInv, ModeInv, TypeOK
<1>2. CASE Failure /\ GenFinish(TRUE) /\ UNCHANGED <<account, notices>>
  BY <1>1, <1>2, GenFailsIInv DEF GenAccount, objects, caches
<1>3. CASE /\ account' = [account EXCEPT ![genKey] = (genPc = "account")]
           /\ Notify(genKey, "account", account' # account)
           /\ GenFinish(FALSE) /\ UNCHANGED failures
  <2>1. /\ UNCHANGED <<cluster, permission, token, copies, mkcluster,
                       profiled, seenVars, copyVars, edits, failures, genQueue>>
        /\ genPc' = "idle" /\ genKey' = NoKey
    BY <1>3 DEF GenAccount, GenFinish
  <2>2. /\ account \in [Clusters -> BOOLEAN]
        /\ account' \in [Clusters -> BOOLEAN]
        /\ \A d \in Clusters : d # genKey => account'[d] = account[d]
    <3>1. account \in [Clusters -> BOOLEAN]
      BY DEF IInv, TypeOK
    <3>2. (genPc = "account") \in BOOLEAN
      OBVIOUS
    <3>3. QED BY <1>3, <3>1, <3>2
  <2>3. account'[genKey] <=> (genPc = "account")
    BY <1>1, <1>3, <2>2
  <2>4. /\ "account" \in Kinds /\ "account" \in Watched
        /\ (account' # account) \in BOOLEAN
    BY DEF Kinds, Watched
  <2>5. /\ notices \subseteq notices'
        /\ notices' \subseteq Clusters \X Watched
        /\ notices' \subseteq Clusters \X Kinds
        /\ account' # account => <<genKey, "account">> \in notices'
    BY <1>1, <1>3, <2>4, NotifyFacts DEF IInv, SeenInv, TypeOK
  <2>6. \A d \in Clusters :
          <<d, "account">> \notin notices' => account'[d] = account[d]
    BY <2>2, <2>5
  <2>7. TypeOK'
    BY <1>1, <2>1, <2>2, <2>5 DEF IInv, TypeOK
  <2>8. ModeInv'
    BY <2>1 DEF IInv, ModeInv
  <2>9. SeenInv'
    BY <2>1, <2>5, SeenFrame DEF IInv
  <2>10. GenInv'
    <3> SUFFICES ASSUME NEW d \in Clusters, clusterSeen[d] # NoCluster,
                        GenQuiet(d)'
                 PROVE  genKey' # d /\ GenDone(d)'
      BY <2>1 DEF GenInv
    <3>1. GenQuiet(d) /\ account'[d] = account[d] /\ genKey' # d
      BY <2>1, <2>5, <2>6, SentinelAssumption DEF GenQuiet
    <3>2. CASE d # genKey
      BY <2>1, <3>1, <3>2 DEF IInv, GenInv, GenDone
    <3>3. CASE d = genKey
      <4>1. GenStep(d)
        BY <3>1, <3>3 DEF IInv, GenInv
      <4>2. QED BY <1>1, <2>1, <2>3, <3>1, <3>3, <4>1 DEF GenStep, GenDone
    <3>4. QED BY <3>2, <3>3
  <2>11. CopyInv'
    <3>1. \A d \in Clusters : CopyQuiet(d)' => CopyQuiet(d)
      BY <2>1, <2>5 DEF CopyQuiet
    <3>2. QED BY <2>1, <3>1, CopyFrame DEF IInv
  <2>12. QED BY <2>7, <2>8, <2>9, <2>10, <2>11 DEF IInv
<1>4. QED BY <1>2, <1>3 DEF GenAccount

-----------------------------------------------------------------------------
(***************************************************************************)
(* The secret copier.                                                      *)
(***************************************************************************)

\* A step of the copier at cluster k leaves the other clusters and the
\* generator alone.
CopierStep(k) ==
  /\ copyKey \in {k, NoKey} /\ copyKey' \in {k, NoKey}
  /\ UNCHANGED <<cluster, permission, account, token, profile, synced,
                 impersonation, proxy, profiles, clusterSeen, permissionSeen,
                 profileSeen, syncedSeen, genQueue, genPc, genKey, edits>>
  /\ notices \subseteq notices'
  /\ notices' \subseteq Clusters \X Watched
  /\ notices' \subseteq Clusters \X Kinds
  /\ copyQueue \ {k} \subseteq copyQueue' /\ copyQueue' \subseteq copyQueue \cup {k}
  /\ failures' \in 0..MaxFailures
  /\ kubeconfig' \in [Clusters -> Kubeconfig \cup {NoSecret}]
  /\ mkcluster' \in [Clusters -> Sources \cup {"none"}]
  /\ orphaned' \in {orphaned, orphaned \ {k}}
  /\ \A d \in Clusters :
       d # k => mkcluster'[d] = mkcluster[d] /\ kubeconfig'[d] = kubeconfig[d]

LEMMA CopierIInv ==
  ASSUME IInv, NEW k \in Clusters, CopierStep(k), ModeInv',
         copyPc' \in {"idle", "check", "read", "apply", "cluster",
                     "deleteSecret", "deleteCluster"},
         copied' \in Kubeconfig \cup {NoSecret},
         profiles => kubeconfig'[k] = NoSecret,
         CopyQuiet(k)' => /\ copyKey' = k => CopyStep(k)'
                          /\ copyKey' # k => CopyDone(k)'
  PROVE  IInv'
<1> USE DEF CopierStep
<1>1. profiles => \A d \in Clusters : kubeconfig'[d] = NoSecret
  BY DEF IInv, TypeOK
<1>2. /\ copyKey' \in Clusters \cup {NoKey} /\ copyQueue' \subseteq Clusters
      /\ orphaned' \subseteq Clusters
  BY DEF IInv, TypeOK
<1>3. TypeOK'
  BY <1>1, <1>2 DEF IInv, TypeOK
<1>4. SeenInv'
  BY SeenFrame DEF IInv
<1>5. GenInv'
  BY GenFrame DEF IInv, GenQuiet
<1>6. CopyInv'
  <2> SUFFICES ASSUME NEW d \in Clusters, CopyQuiet(d)', d # k
               PROVE  copyKey' # d /\ CopyDone(d)'
    BY DEF CopyInv
  <2>1. CopyQuiet(d) /\ copyKey # d /\ copyKey' # d
    BY SentinelAssumption DEF CopyQuiet
  <2>2. CopyDone(d)
    BY <2>1 DEF IInv, CopyInv
  <2>3. mkcluster'[d] = mkcluster[d] /\ kubeconfig'[d] = kubeconfig[d]
    OBVIOUS
  <2>4. CurrentToken(d)' = CurrentToken(d)
    BY DEF CurrentToken
  <2>5. Needed(d)' <=> Needed(d)
    BY <2>4 DEF Needed
  <2>6. HasToken(d)' <=> HasToken(d)
    BY <2>3, <2>4 DEF HasToken
  <2>7. d \in orphaned' <=> d \in orphaned
    OBVIOUS
  <2>8. QED BY <2>1, <2>2, <2>3, <2>5, <2>6, <2>7 DEF CopyDone, Source
<1>7. QED BY <1>3, <1>4, <1>5, <1>6 DEF IInv

\* The copier stops, and takes the key again when a call has failed.
LEMMA CopyFailsIInv ==
  ASSUME IInv, copyPc # "idle", CopyFinish(TRUE),
         Failure \/ UNCHANGED failures,
         UNCHANGED <<objects, caches, genVars, edits>>
  PROVE  IInv'
<1> USE DEF objects, copies, generated, profiled, caches, seenVars, modeVars,
            genVars
<1>1. PICK k \in Clusters : copyKey = k
  BY DEF IInv, ModeInv, TypeOK
<1>2. /\ copyPc' = "idle" /\ copyKey' = NoKey /\ copied' = NoSecret
      /\ copyQueue' = copyQueue \cup {k}
  BY <1>1 DEF CopyFinish
<1>3. failures' \in 0..MaxFailures
  BY FailureTyped DEF IInv
<1>4. CopierStep(k)
  BY <1>1, <1>2, <1>3 DEF CopierStep, IInv, TypeOK, SeenInv
<1>5. ModeInv'
  BY <1>2 DEF IInv, ModeInv
<1>6. ~CopyQuiet(k)'
  BY <1>2 DEF CopyQuiet
<1>7. profiles => kubeconfig'[k] = NoSecret
  BY DEF IInv, TypeOK
<1>8. QED BY <1>2, <1>4, <1>5, <1>6, <1>7, CopierIInv

\* The copier goes on to another step, or starts with one; no object changes.
LEMMA CopyGoesOnIInv ==
  ASSUME IInv, NEW k \in Clusters, copyKey \in {k, NoKey}, copyKey' = k,
         copyPc' \in {"check", "read", "apply", "cluster", "deleteSecret",
                     "deleteCluster"},
         copied' \in Kubeconfig \cup {NoSecret}, ModeInv',
         copyQueue' \in {copyQueue, copyQueue \ {k}},
         Failure \/ UNCHANGED failures,
         UNCHANGED <<objects, caches, genVars, edits>>,
         CopyQuiet(k)' => CopyStep(k)'
  PROVE  IInv'
<1> USE DEF objects, copies, generated, profiled, caches, seenVars, modeVars,
            genVars
<1>1. failures' \in 0..MaxFailures
  BY FailureTyped DEF IInv
<1>2. CopierStep(k)
  BY <1>1 DEF CopierStep, IInv, TypeOK, SeenInv
<1>3. profiles => kubeconfig'[k] = NoSecret
  BY DEF IInv, TypeOK
<1>4. QED BY <1>2, <1>3, CopierIInv

LEMMA CopyBeginIInv == ASSUME IInv, NEW c \in Clusters, CopyBegin(c) PROVE IInv'
<1> USE DEF objects, copies, generated, profiled, caches, seenVars, modeVars,
            genVars
<1>1. /\ copyPc = "idle" /\ copyKey = NoKey /\ ~profiles
      /\ copyQueue' = copyQueue \ {c} /\ copyKey' = c /\ copied' = copied
      /\ copyPc' = IF ~permissionSeen[c] THEN "deleteSecret"
                   ELSE IF impersonation THEN "read" ELSE "check"
      /\ UNCHANGED <<objects, caches, genVars, edits, failures>>
  BY DEF CopyBegin, IInv, ModeInv
<1>2. /\ copyPc' \in {"check", "read", "deleteSecret"}
      /\ impersonation => copyPc' # "check"
  BY <1>1
<1>3. ModeInv'
  BY <1>1, <1>2, SentinelAssumption DEF IInv, ModeInv
<1>4. CopyQuiet(c)' => CopyStep(c)'
  <2> SUFFICES ASSUME CopyQuiet(c)' PROVE CopyStep(c)'
    OBVIOUS
  <2>1. <<c, "permission">> \notin notices
    BY <1>1 DEF CopyQuiet, Kinds
  <2>2. permissionSeen[c] = permission[c]
    BY <2>1 DEF IInv, SeenInv
  <2>3. copyPc' = "deleteSecret" => ~Needed(c)'
    BY <1>1, <2>2 DEF Needed
  <2>4. copyPc' # "deleteSecret" => permission'[c]
    BY <1>1, <2>2
  <2>5. QED BY <1>2, <2>3, <2>4 DEF CopyStep
<1>5. copied \in Kubeconfig \cup {NoSecret}
  BY DEF IInv, TypeOK
<1>6. QED BY <1>1, <1>2, <1>3, <1>4, <1>5, CopyGoesOnIInv

LEMMA CopyCheckIInv == ASSUME IInv, CopyCheck PROVE IInv'
<1> USE DEF objects, copies, generated, profiled, caches, seenVars, modeVars,
            genVars
<1>1. PICK k \in Clusters : copyKey = k
  BY DEF CopyCheck, IInv, ModeInv, TypeOK
<1>2. /\ copyPc = "check" /\ ~impersonation /\ ~profiles
      /\ copyPc' \in {"read", "deleteSecret"} /\ copyKey' = k
      /\ copyPc' = "deleteSecret" => token[k] = 0
      /\ Failure \/ UNCHANGED failures
      /\ copied' = copied /\ copyQueue' = copyQueue
      /\ UNCHANGED <<objects, caches, genVars, edits>>
  BY <1>1 DEF CopyCheck, CopyGoto, IInv, ModeInv
<1>3. ModeInv'
  BY <1>1, <1>2 DEF IInv, ModeInv
<1>4. CopyQuiet(k)' => CopyStep(k)'
  <2> SUFFICES ASSUME CopyQuiet(k)' PROVE CopyStep(k)'
    OBVIOUS
  <2>1. CopyQuiet(k)
    BY <1>2 DEF CopyQuiet
  <2>2. permission[k]
    BY <1>1, <1>2, <2>1 DEF IInv, CopyInv, CopyStep
  <2>3. copyPc' = "deleteSecret" => ~Needed(k)'
    BY <1>2 DEF Needed, CurrentToken
  <2>4. QED BY <1>2, <2>2, <2>3 DEF CopyStep
<1>5. copied \in Kubeconfig \cup {NoSecret}
  BY DEF IInv, TypeOK
<1>6. QED BY <1>1, <1>2, <1>3, <1>4, <1>5, CopyGoesOnIInv

LEMMA TokenTyped ==
  ASSUME TypeOK, NEW c \in Clusters, CurrentToken(c) # 0
  PROVE  CurrentToken(c) \in 1..(MaxEdits + 2)
<1>1. token[c] \in 0..(MaxEdits + 2)
  BY DEF TypeOK
<1>2. 1 \in 1..(MaxEdits + 2)
  BY BoundsAssumption
<1>3. CASE impersonation
  BY <1>2, <1>3 DEF CurrentToken, HubToken
<1>4. CASE ~impersonation
  <2>1. CurrentToken(c) = token[c]
    BY <1>4 DEF CurrentToken
  <2>2. QED BY <1>1, <2>1, BoundsAssumption
<1>5. QED BY <1>3, <1>4

LEMMA CopyReadIInv == ASSUME IInv, CopyRead PROVE IInv'
<1>1. PICK k \in Clusters : copyKey = k
  BY DEF CopyRead, IInv, ModeInv, TypeOK
<1>2. /\ copyPc = "read" /\ ~profiles
      /\ UNCHANGED <<objects, caches, genVars, edits>>
  BY DEF CopyRead, IInv, ModeInv
<1>3. CASE CopyFinish(TRUE) /\ (Failure \/ UNCHANGED failures)
  BY <1>2, <1>3, CopyFailsIInv
<1>4. CASE /\ ClusterUrl(copyKey) # NoUrl /\ CurrentToken(copyKey) # 0
           /\ copied' = [token |-> CurrentToken(copyKey),
                         url |-> ClusterUrl(copyKey)]
           /\ copyPc' = "apply"
           /\ UNCHANGED <<copyQueue, copyKey, failures>>
  <2> USE DEF objects, copies, generated, profiled, caches, seenVars, modeVars,
              genVars
  <2>1. copied' \in Kubeconfig
    <3>1. CurrentToken(k) \in 1..(MaxEdits + 2)
      BY <1>1, <1>4, TokenTyped DEF IInv
    <3>2. clusterSeen[k] \in ManagedCluster \cup {NoCluster}
      BY DEF IInv, TypeOK
    <3>3. ClusterUrl(k) \in Urls \cup {ProxyUrl}
      BY <1>1, <1>4, <3>2 DEF ClusterUrl, ManagedCluster
    <3>4. QED BY <1>1, <1>4, <3>1, <3>3 DEF Kubeconfig
  <2>2. copied' # NoSecret
    BY <2>1, SentinelAssumption
  <2>3. ModeInv'
    BY <1>2, <1>4, <2>2 DEF IInv, ModeInv
  <2>4. CopyQuiet(k)' => CopyStep(k)'
    <3> SUFFICES ASSUME CopyQuiet(k)' PROVE CopyStep(k)'
      OBVIOUS
    <3>1. CopyQuiet(k)
      BY <1>2, <1>4 DEF CopyQuiet
    <3>2. permission[k]
      BY <1>1, <1>2, <3>1 DEF IInv, CopyInv, CopyStep
    <3>3. CurrentToken(k)' = CurrentToken(k)
      BY <1>2 DEF CurrentToken
    <3>4. copied'.token = CurrentToken(k)
      BY <1>1, <1>4
    <3>5. QED BY <1>2, <1>4, <3>2, <3>3, <3>4 DEF CopyStep
  <2>5. QED BY <1>1, <1>2, <1>4, <2>1, <2>3, <2>4, CopyGoesOnIInv
<1>5. QED BY <1>3, <1>4 DEF CopyRead

\* The kubeconfig Secret of cluster k is written or deleted.
LEMMA CopySecretIInv ==
  ASSUME IInv, NEW k \in Clusters, copyKey = k, ~profiles,
         NEW secret \in Kubeconfig \cup {NoSecret},
         kubeconfig' = [kubeconfig EXCEPT ![k] = secret],
         orphaned' = orphaned \ {k},
         copyPc' \in {"cluster", "deleteCluster"},
         UNCHANGED <<cluster, generated, mkcluster, profiled, caches, genVars,
                     edits, failures, copyQueue, copyKey, copied>>,
         CopyQuiet(k)' => CopyStep(k)'
  PROVE  IInv'
<1> USE DEF copies, generated, profiled, caches, seenVars, modeVars, genVars
<1>1. kubeconfig \in [Clusters -> Kubeconfig \cup {NoSecret}]
  BY DEF IInv, TypeOK
<1>2. /\ kubeconfig' \in [Clusters -> Kubeconfig \cup {NoSecret}]
      /\ \A d \in Clusters : d # k => kubeconfig'[d] = kubeconfig[d]
  BY <1>1
<1>3. CopierStep(k)
  BY <1>2 DEF CopierStep, IInv, TypeOK, SeenInv
<1>4. ModeInv'
  BY SentinelAssumption DEF IInv, ModeInv
<1>5. copied \in Kubeconfig \cup {NoSecret}
  BY DEF IInv, TypeOK
<1>6. copyKey' = k
  OBVIOUS
<1>7. QED BY <1>3, <1>4, <1>5, <1>6, CopierIInv

LEMMA CopyApplyIInv == ASSUME IInv, CopyApply PROVE IInv'
<1>1. PICK k \in Clusters : copyKey = k
  BY DEF CopyApply, IInv, ModeInv, TypeOK
<1>2. /\ copyPc = "apply" /\ ~profiles /\ copied \in Kubeconfig
      /\ UNCHANGED <<cluster, generated, mkcluster, profiled, caches, genVars,
                     edits>>
  BY DEF CopyApply, IInv, ModeInv, TypeOK
<1>3. CASE Failure /\ CopyFinish(TRUE) /\ UNCHANGED copies
  BY <1>2, <1>3, CopyFailsIInv DEF objects
<1>4. CASE /\ kubeconfig' = [kubeconfig EXCEPT ![copyKey] = Applied(@)]
           /\ orphaned' = orphaned \ {copyKey}
           /\ CopyGoto("cluster") /\ UNCHANGED failures
  <2>1. /\ kubeconfig' = [kubeconfig EXCEPT ![k] = copied]
        /\ orphaned' = orphaned \ {k}
        /\ copyPc' = "cluster"
        /\ UNCHANGED <<failures, copyQueue, copyKey, copied>>
    BY <1>1, <1>4 DEF Applied, CopyGoto
  <2>2. CopyQuiet(k)' => CopyStep(k)'
    <3> SUFFICES ASSUME CopyQuiet(k)' PROVE CopyStep(k)'
      OBVIOUS
    <3> USE DEF copies, generated, profiled, caches, seenVars, modeVars
    <3>1. CopyQuiet(k)
      BY <1>2, <2>1 DEF CopyQuiet
    <3>2. permission[k] /\ copied.token = CurrentToken(k)
      BY <1>1, <1>2, <3>1 DEF IInv, CopyInv, CopyStep
    <3>3. CurrentToken(k)' = CurrentToken(k)
      BY <1>2 DEF CurrentToken
    <3>4. CurrentToken(k) # 0
      <4>1. copied.token \in 1..(MaxEdits + 2)
        BY <1>2 DEF Kubeconfig
      <4>2. QED BY <3>2, <4>1, BoundsAssumption
    <3>5. kubeconfig'[k] = copied /\ copied # NoSecret
      BY <1>2, <2>1, SentinelAssumption DEF IInv, TypeOK
    <3>6. HasToken(k)'
      BY <3>2, <3>3, <3>5 DEF HasToken
    <3>7. Needed(k)'
      BY <1>2, <3>2, <3>3, <3>4 DEF Needed
    <3>8. QED BY <2>1, <3>6, <3>7 DEF CopyStep
  <2>3. QED BY <1>1, <1>2, <2>1, <2>2, CopySecretIInv
<1>5. QED BY <1>3, <1>4 DEF CopyApply

LEMMA CopyDeleteSecretIInv == ASSUME IInv, CopyDeleteSecret PROVE IInv'
<1>1. PICK k \in Clusters : copyKey = k
  BY DEF CopyDeleteSecret, IInv, ModeInv, TypeOK
<1>2. /\ copyPc = "deleteSecret" /\ ~profiles
      /\ UNCHANGED <<cluster, generated, mkcluster, profiled, caches, genVars,
                     edits>>
  BY DEF CopyDeleteSecret, IInv, ModeInv
<1>3. CASE Failure /\ CopyFinish(TRUE) /\ UNCHANGED copies
  BY <1>2, <1>3, CopyFailsIInv DEF objects
<1>4. CASE /\ kubeconfig' = [kubeconfig EXCEPT ![copyKey] = NoSecret]
           /\ orphaned' = orphaned \ {copyKey}
           /\ CopyGoto("deleteCluster") /\ UNCHANGED failures
  <2>1. /\ kubeconfig' = [kubeconfig EXCEPT ![k] = NoSecret]
        /\ orphaned' = orphaned \ {k}
        /\ copyPc' = "deleteCluster"
        /\ UNCHANGED <<failures, copyQueue, copyKey, copied>>
    BY <1>1, <1>4 DEF CopyGoto
  <2>2. CopyQuiet(k)' => CopyStep(k)'
    <3> SUFFICES ASSUME CopyQuiet(k)' PROVE CopyStep(k)'
      OBVIOUS
    <3> USE DEF copies, generated, profiled, caches, seenVars, modeVars
    <3>1. CopyQuiet(k)
      BY <1>2, <2>1 DEF CopyQuiet
    <3>2. ~Needed(k)
      BY <1>1, <1>2, <3>1 DEF IInv, CopyInv, CopyStep
    <3>3. ~Needed(k)'
      BY <1>2, <3>2 DEF Needed, CurrentToken
    <3>4. kubeconfig'[k] = NoSecret
      BY <2>1 DEF IInv, TypeOK
    <3>5. QED BY <2>1, <3>3, <3>4 DEF CopyStep
  <2>3. QED BY <1>1, <1>2, <2>1, <2>2, CopySecretIInv
<1>5. QED BY <1>3, <1>4 DEF CopyDeleteSecret

\* The MultiKueueCluster of cluster k is written, or deleted, and the copier is
\* done.
LEMMA CopyMKClusterIInv ==
  ASSUME IInv, NEW k \in Clusters, copyKey = k,
         copyPc \in {"cluster", "deleteCluster"},
         NEW source \in Sources \cup {"none"}, StoreMKCluster(source),
         source = IF copyPc = "cluster" THEN Source ELSE "none",
         CopyFinish(FALSE), UNCHANGED failures,
         UNCHANGED <<cluster, generated, copies, profiled, seenVars,
                     genVars, edits>>
  PROVE  IInv'
<1> USE DEF copies, generated, profiled, seenVars, modeVars, genVars
<1>1. /\ mkcluster \in [Clusters -> Sources \cup {"none"}]
      /\ mkcluster' = [mkcluster EXCEPT ![k] = source]
      /\ Notify(k, "mkcluster", mkcluster' # mkcluster)
  BY DEF StoreMKCluster, IInv, TypeOK
<1>2. /\ mkcluster' \in [Clusters -> Sources \cup {"none"}]
      /\ mkcluster'[k] = source
      /\ \A d \in Clusters : d # k => mkcluster'[d] = mkcluster[d]
  BY <1>1
<1>3. "mkcluster" \in Kinds /\ (mkcluster' # mkcluster) \in BOOLEAN
  BY DEF Kinds
<1>4. /\ notices \subseteq notices' /\ notices' \subseteq Clusters \X Watched
      /\ notices' \subseteq Clusters \X Kinds
  BY <1>1, <1>3, NotifyFacts DEF IInv, SeenInv, TypeOK
<1>5. /\ copyPc' = "idle" /\ copyKey' = NoKey /\ copied' = NoSecret
      /\ copyQueue' = copyQueue
  BY DEF CopyFinish
<1>6. CopierStep(k)
  BY <1>2, <1>4, <1>5 DEF CopierStep, IInv, TypeOK
<1>7. ModeInv'
  BY <1>5 DEF IInv, ModeInv
<1>8. profiles => kubeconfig'[k] = NoSecret
  BY DEF IInv, TypeOK
<1>9. CopyQuiet(k)' => CopyDone(k)'
  <2> SUFFICES ASSUME CopyQuiet(k)' PROVE CopyDone(k)'
    OBVIOUS
  <2>1. CopyQuiet(k)
    BY <1>4, <1>5 DEF CopyQuiet
  <2>2. CopyStep(k)
    BY <2>1 DEF IInv, CopyInv
  <2>3. CurrentToken(k)' = CurrentToken(k)
    BY DEF CurrentToken
  <2>4. Needed(k)' <=> Needed(k)
    BY <2>3 DEF Needed
  <2>5. HasToken(k)' <=> HasToken(k)
    BY <2>3 DEF HasToken
  <2>6. Source' = Source
    BY DEF Source
  <2>7. CASE copyPc = "cluster"
    BY <1>2, <2>2, <2>4, <2>5, <2>6, <2>7 DEF CopyStep, CopyDone
  <2>8. CASE copyPc = "deleteCluster"
    BY <1>2, <2>2, <2>4, <2>8 DEF CopyStep, CopyDone
  <2>9. QED BY <2>7, <2>8
<1>10. QED BY <1>5, <1>6, <1>7, <1>8, <1>9, CopierIInv, SentinelAssumption

LEMMA CopyClusterIInv ==
  ASSUME IInv, CopyCluster \/ CopyDeleteCluster PROVE IInv'
<1>1. PICK k \in Clusters : copyKey = k
  BY DEF CopyCluster, CopyDeleteCluster, IInv, ModeInv, TypeOK
<1>2. /\ copyPc \in {"cluster", "deleteCluster"}
      /\ UNCHANGED <<cluster, generated, copies, profiled, seenVars, genVars,
                     edits>>
  BY DEF CopyCluster, CopyDeleteCluster
<1>3. CASE Failure /\ CopyFinish(TRUE) /\ UNCHANGED <<mkcluster, notices>>
  BY <1>2, <1>3, CopyFailsIInv DEF objects, caches
<1>4. CASE /\ copyPc = "cluster" /\ StoreMKCluster(Source) /\ CopyFinish(FALSE)
           /\ UNCHANGED failures
  <2>1. Source \in Sources \cup {"none"}
    BY DEF Source, Sources
  <2>2. QED BY <1>1, <1>2, <1>4, <2>1, CopyMKClusterIInv
<1>5. CASE /\ copyPc = "deleteCluster" /\ StoreMKCluster("none")
           /\ CopyFinish(FALSE) /\ UNCHANGED failures
  BY <1>1, <1>2, <1>5, CopyMKClusterIInv
<1>6. QED BY <1>3, <1>4, <1>5 DEF CopyCluster, CopyDeleteCluster

\* The MultiKueueCluster controller.
LEMMA ProfileBeginIInv ==
  ASSUME IInv, NEW c \in Clusters, ProfileBegin(c) PROVE IInv'
<1> USE DEF objects, copies, generated, profiled, caches, seenVars, modeVars,
            genVars
<1>1. /\ copyPc = "idle" /\ copyKey = NoKey /\ profiles /\ copied' = copied
      /\ UNCHANGED <<objects, caches, genVars, copied, edits, failures>>
  BY DEF ProfileBegin, IInv, ModeInv
<1>2. CASE UNCHANGED <<copyPc, copyQueue, copyKey>>
  <2>1. TypeOK'
    BY <1>1, <1>2 DEF IInv, TypeOK
  <2>2. SeenInv'
    BY <1>1 DEF IInv, SeenInv, Watched, CopyWatches
  <2>3. Outside
    BY <1>1, <1>2 DEF Outside
  <2>4. QED BY <1>1, <1>2, <2>1, <2>2, <2>3, OutsideIInv DEF GenQuiet, CopyQuiet
<1>3. CASE /\ copyQueue' = copyQueue \ {c} /\ copyKey' = c
           /\ copyPc' \in {"cluster", "deleteCluster"}
           /\ copyPc' = "cluster" =>
                profileSeen[c] # "none" /\ permissionSeen[c] /\ syncedSeen[c]
           /\ copyPc' = "deleteCluster" =>
                profileSeen[c] = "none" \/ ~permissionSeen[c] \/ ~syncedSeen[c]
  <2>1. ModeInv'
    BY <1>1, <1>3, SentinelAssumption DEF IInv, ModeInv
  <2>2. CopyQuiet(c)' => CopyStep(c)'
    <3> SUFFICES ASSUME CopyQuiet(c)' PROVE CopyStep(c)'
      OBVIOUS
    <3>1. \A kind \in {"permission", "profile", "synced"} :
            <<c, kind>> \notin notices
      BY <1>1 DEF CopyQuiet, Kinds
    <3>2. /\ permissionSeen[c] = permission[c] /\ profileSeen[c] = profile[c]
          /\ syncedSeen[c] = synced[c]
      BY <1>1, <3>1 DEF IInv, SeenInv
    <3>3. kubeconfig'[c] = NoSecret
      BY <1>1 DEF IInv, TypeOK
    <3>4. copyPc' = "cluster" => Needed(c)'
      BY <1>1, <1>3, <3>2 DEF Needed
    <3>5. copyPc' = "deleteCluster" => ~Needed(c)'
      BY <1>1, <1>3, <3>2 DEF Needed
    <3>6. QED BY <1>1, <1>3, <3>3, <3>4, <3>5 DEF CopyStep
  <2>3. copied \in Kubeconfig \cup {NoSecret}
    BY DEF IInv, TypeOK
  <2>4. QED BY <1>1, <1>3, <2>1, <2>2, <2>3, CopyGoesOnIInv
<1>4. QED BY <1>2, <1>3 DEF ProfileBegin

-----------------------------------------------------------------------------
LEMMA StutterIInv == ASSUME IInv, UNCHANGED vars PROVE IInv'
<1> USE DEF vars, objects, copies, generated, profiled, caches, seenVars, modeVars,
            genVars, copyVars
<1>1. TypeOK'
  BY DEF IInv, TypeOK
<1>2. SeenInv'
  BY DEF IInv, SeenInv, Watched, CopyWatches
<1>3. Outside
  BY DEF Outside
<1>4. QED BY <1>1, <1>2, <1>3, OutsideIInv DEF GenQuiet, CopyQuiet

LEMMA NextIInv == ASSUME IInv, [Next]_vars PROVE IInv'
<1>1. CASE EnvNext
  <2>1. CASE Restart
    BY <2>1, RestartIInv
  <2>2. ASSUME NEW c \in Clusters,
               \/ EditCluster(c) \/ ClusterGone(c) \/ Tamper(c)
               \/ RotateToken(c) \/ Deliver(c) \/ ResyncGen(c)
               \/ ResyncCopy(c) \/ OthersNext(c)
        PROVE  IInv'
    BY <2>2, EditClusterIInv, TamperIInv, TokenIInv, ObserveClusterIInv,
       ObservePermissionIInv, ObserveOtherIInv, ResyncIInv, SyncProfileIInv,
       SyncSecretIInv DEF Deliver, OthersNext
  <2>3. QED BY <1>1, <2>1, <2>2 DEF EnvNext
<1>2. CASE GenNext
  BY <1>2, GenPermissionIInv, GenAccountIInv DEF GenNext
<1>3. CASE CopyNext
  BY <1>3, CopyCheckIInv, CopyReadIInv, CopyApplyIInv, CopyDeleteSecretIInv,
     CopyClusterIInv DEF CopyNext
<1>4. CASE \E c \in Clusters : GenBegin(c) \/ CopyBegin(c) \/ ProfileBegin(c)
  BY <1>4, GenBeginIInv, CopyBeginIInv, ProfileBeginIInv
<1>5. QED BY <1>1, <1>2, <1>3, <1>4, StutterIInv DEF Next

LEMMA IInvAlways == Spec => []IInv
BY InitIInv, NextIInv, PTL DEF Spec

\* The objects, the caches and the workers keep their types; no account is ever
\* made in impersonation mode, and no kubeconfig Secret with ClusterProfiles.
THEOREM TypeCorrect == Spec => []TypeOK
<1>1. IInv => TypeOK
  BY DEF IInv
<1>2. QED BY <1>1, IInvAlways, PTL

\* The generator (kueuesecretgen/controller.go) misses no event: its watches
\* are enough for what it maintains, whatever fails, restarts or is tampered
\* with.
THEOREM GeneratedFollowAlways == Spec => []GeneratedFollow
<1>1. IInv => GeneratedFollow
  <2> SUFFICES ASSUME IInv, NEW c \in Clusters, cluster[c] # NoCluster,
                      ~GenPending(c)
               PROVE  /\ permission[c] = ~cluster[c].deleting
                      /\ account[c] = (~cluster[c].deleting /\ ~impersonation)
    BY DEF GeneratedFollow
  <2>1. clusterSeen[c] = cluster[c] /\ genKey # c /\ GenQuiet(c)
    BY DEF GenPending, GenQuiet
  <2>2. GenDone(c)
    BY <2>1 DEF IInv, GenInv
  <2>3. permission[c] \in BOOLEAN /\ account[c] \in BOOLEAN
    BY DEF IInv, TypeOK
  <2>4. QED BY <2>1, <2>2, <2>3 DEF GenDone
<1>2. QED BY <1>1, IInvAlways, PTL

\* The copier and the MultiKueueCluster controller (kueuesecretcopy/controller.go
\* and multikueuecluster/controller.go) miss no event: what a step has read is
\* still true when the next one writes, or the cluster is handled again.
THEOREM CopiesFollowAlways == Spec => []CopiesFollow
<1>1. IInv => CopiesFollow
  <2> SUFFICES ASSUME IInv, NEW c \in Clusters, ~CopyPending(c)
               PROVE  IF profiles
                      THEN mkcluster[c] =
                             IF permission[c] /\ profile[c] # "none" /\ synced[c]
                             THEN "profile" ELSE "none"
                      ELSE IF permission[c] /\ CurrentToken(c) # 0
                      THEN /\ kubeconfig[c] # NoSecret
                           /\ kubeconfig[c].token = CurrentToken(c)
                           /\ mkcluster[c] = "secret"
                      ELSE /\ mkcluster[c] = "none"
                           /\ c \notin orphaned => kubeconfig[c] = NoSecret
    BY DEF CopiesFollow
  <2>1. copyKey # c /\ CopyQuiet(c)
    BY DEF CopyPending, CopyQuiet
  <2>2. CopyDone(c)
    BY <2>1 DEF IInv, CopyInv
  <2>3. CASE profiles
    BY <2>2, <2>3 DEF CopyDone, Needed, Source
  <2>4. CASE ~profiles
    BY <2>2, <2>4 DEF CopyDone, Needed, Source, HasToken
  <2>5. QED BY <2>3, <2>4
<1>2. QED BY <1>1, IInvAlways, PTL

=============================================================================
