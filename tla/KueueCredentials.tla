-------------------------- MODULE KueueCredentials --------------------------
(***************************************************************************)
(* How the hub of the kueue addon gets the credentials of managed clusters *)
(* to MultiKueue (kueue-addon/pkg/hub/controllers: kueuesecretgen,         *)
(* kueuesecretcopy and multikueuecluster).                                 *)
(*                                                                         *)
(* For every ManagedCluster the secret generator keeps a ClusterPermission *)
(* and a ManagedServiceAccount; the account's own controller answers with a*)
(* token Secret, which it rotates.  The secret copier turns token and URL  *)
(* into a kubeconfig Secret in kueue's namespace and keeps a               *)
(* MultiKueueCluster that refers to it.  In impersonation mode there is no *)
(* account: the kubeconfig has the token of the hub's own service account. *)
(* Behind the cluster proxy it has the proxy's URL for the cluster.        *)
(* With ClusterProfiles there is no copier: another controller syncs the   *)
(* token, and the MultiKueueCluster controller keeps a MultiKueueCluster   *)
(* that refers to the profile.  `copyQueue' and so on are then its.        *)
(*                                                                         *)
(* ManagedClusters and ClusterPermissions are read from caches (`...Seen') *)
(* that lag behind; `notices' holds the events of the other objects that   *)
(* the informers have not delivered yet.  Each controller has one worker.  *)
(***************************************************************************)
EXTENDS Naturals, FiniteSets

CONSTANTS
  Clusters,
  Urls,           \* API server URLs
  ProxyUrl,       \* what CLUSTER_PROXY_URL makes of a cluster's name
  NoUrl,          \* a cluster without client configs
  NoCluster,      \* there is no ManagedCluster
  NoKey,          \* a worker that handles no key
  NoSecret,
  MaxEdits,       \* bound on changes by users and rotations
  MaxFailures     \* bound on failing calls to the API server and on restarts
                  \* of the hub's process, together

ASSUME BoundsAssumption == MaxEdits \in Nat /\ MaxFailures \in Nat

VARIABLES
  impersonation, proxy, profiles, \* the mode the controllers run in
  cluster, clusterSeen,        \* ManagedClusters: [deleting, url]
  permission, permissionSeen,  \* ClusterPermissions
  account,                     \* ManagedServiceAccounts
  token,                       \* the token in the account's Secret; 0: none
  kubeconfig,                  \* the kubeconfig Secrets: [token, url]
  mkcluster,                   \* MultiKueueClusters: what they refer to
  profile, profileSeen,        \* ClusterProfiles
  synced, syncedSeen,          \* the Secrets synced for the profiles
  notices,
  genQueue, genPc, genKey,     \* the secret generator
  copyQueue, copyPc, copyKey,  \* the secret copier
  copied,                      \* what the copier is about to write
  edits, failures,
  orphaned                     \* the clusters with a kubeconfig that the
                               \* restarted hub has no watched object for; a
                               \* history variable, which no action reads

generated == <<permission, account, token>>
profiled == <<profile, synced>>
copies   == <<kubeconfig, orphaned>>
objects  == <<cluster, generated, copies, mkcluster, profiled>>
modeVars == <<impersonation, proxy, profiles>>
seenVars == <<modeVars, clusterSeen, permissionSeen, profileSeen, syncedSeen>>
caches   == <<seenVars, notices>>
genVars  == <<genQueue, genPc, genKey>>
copyVars == <<copyQueue, copyPc, copyKey, copied>>
vars == <<objects, caches, genVars, copyVars, edits, failures>>

\* The token of the hub's service account, which the copier reads in
\* impersonation mode.
HubToken == 1

ManagedCluster == [deleting : BOOLEAN, url : Urls \cup {NoUrl}]

Kubeconfig == [token : 1..(MaxEdits + 2), url : Urls \cup {ProxyUrl}]

\* What stands for no object, or no key, is none.
ASSUME SentinelAssumption ==
  NoCluster \notin ManagedCluster /\ NoKey \notin Clusters
    /\ NoSecret \notin Kubeconfig /\ NoUrl \notin Urls \cup {ProxyUrl}

\* What is watched besides the ManagedClusters.
Kinds == {"permission", "account", "token", "mkcluster", "profile", "synced"}

\* Mutant of CopyWatches: only the MultiKueueClusters are watched.
CopyWatchesClusters == {"mkcluster"}

\* What the copier, or the MultiKueueCluster controller, watches besides the
\* permissions.
CopyWatches ==
  IF profiles THEN {"mkcluster", "profile", "synced"}
  ELSE IF impersonation THEN {"mkcluster"} ELSE {"mkcluster", "token"}

\* Both controllers watch the permissions, the generator the accounts.
Watched == CopyWatches \cup {"permission", "account"}

Notify(c, kind, changed) ==
  notices' = IF changed /\ kind \in Watched THEN notices \cup {<<c, kind>>}
                                            ELSE notices

\* What a MultiKueueCluster refers to.
Sources == {"secret", "profile"}

TypeOK ==
  /\ impersonation \in BOOLEAN /\ proxy \in BOOLEAN /\ profiles \in BOOLEAN
  /\ cluster \in [Clusters -> ManagedCluster \cup {NoCluster}]
  /\ clusterSeen \in [Clusters -> ManagedCluster \cup {NoCluster}]
  /\ permission \in [Clusters -> BOOLEAN]
  /\ permissionSeen \in [Clusters -> BOOLEAN]
  /\ account \in [Clusters -> BOOLEAN]
  /\ token \in [Clusters -> 0..(MaxEdits + 2)]
  /\ impersonation => \A c \in Clusters : ~account[c]
  /\ kubeconfig \in [Clusters -> Kubeconfig \cup {NoSecret}]
  /\ profiles => \A c \in Clusters : kubeconfig[c] = NoSecret
  /\ mkcluster \in [Clusters -> Sources \cup {"none"}]
  /\ {profile, profileSeen} \subseteq
       [Clusters -> {"none", "incomplete", "complete"}]
  /\ {synced, syncedSeen} \subseteq [Clusters -> BOOLEAN]
  /\ notices \subseteq Clusters \X Kinds
  /\ genQueue \subseteq Clusters /\ copyQueue \subseteq Clusters
  /\ genKey \in Clusters \cup {NoKey} /\ copyKey \in Clusters \cup {NoKey}
  /\ genPc \in {"idle", "permission", "account", "clean", "cleanAccount"}
  /\ copyPc \in {"idle", "check", "read", "apply", "cluster", "deleteSecret",
                 "deleteCluster"}
  /\ copied \in Kubeconfig \cup {NoSecret}
  /\ edits \in 0..MaxEdits /\ failures \in 0..MaxFailures
  /\ orphaned \subseteq Clusters

Init ==
  /\ impersonation \in BOOLEAN /\ profiles \in BOOLEAN
  /\ proxy \in IF profiles THEN {FALSE} ELSE BOOLEAN    \* the copier's alone
  /\ cluster = [c \in Clusters |-> NoCluster] /\ clusterSeen = cluster
  /\ permission = [c \in Clusters |-> FALSE] /\ permissionSeen = permission
  /\ account = [c \in Clusters |-> FALSE]
  /\ token = [c \in Clusters |-> 0]
  /\ kubeconfig = [c \in Clusters |-> NoSecret]
  /\ mkcluster = [c \in Clusters |-> "none"]
  /\ profile = [c \in Clusters |-> "none"] /\ profileSeen = profile
  /\ synced = [c \in Clusters |-> FALSE] /\ syncedSeen = synced
  /\ notices = {}
  /\ genQueue = {} /\ genPc = "idle" /\ genKey = NoKey
  /\ copyQueue = {} /\ copyPc = "idle" /\ copyKey = NoKey
  /\ copied = NoSecret
  /\ edits = 0 /\ failures = 0 /\ orphaned = {}

-----------------------------------------------------------------------------
(***************************************************************************)
(* The environment: users, the controller of the service accounts, and the *)
(* informers.                                                              *)
(***************************************************************************)
Edit == edits < MaxEdits /\ edits' = edits + 1

Failure == failures < MaxFailures /\ failures' = failures + 1

\* With ClusterProfiles or the proxy nobody reads the URL; the first one may be
\* any.
UrlsRead == IF profiles \/ proxy THEN {NoUrl} ELSE Urls \cup {NoUrl}

FirstUrls == UrlsRead \cap {NoUrl, CHOOSE u \in Urls : TRUE}

\* A cluster joins, moves to another URL, or is deleted; its other controllers
\* have finalizers, so that it is gone later.
EditCluster(c) ==
  /\ Edit
  /\ \/ /\ cluster[c] = NoCluster
        /\ \E u \in FirstUrls :
             cluster' = [cluster EXCEPT ![c] = [deleting |-> FALSE, url |-> u]]
     \/ /\ cluster[c] # NoCluster /\ ~cluster[c].deleting
        /\ \/ \E u \in UrlsRead \ {cluster[c].url, NoUrl} :
                cluster' = [cluster EXCEPT ![c].url = u]
           \/ cluster' = [cluster EXCEPT ![c].deleting = TRUE]
  /\ UNCHANGED <<generated, copies, mkcluster, profiled, caches, genVars,
                 copyVars, failures>>

ClusterGone(c) ==
  /\ cluster[c] # NoCluster /\ cluster[c].deleting
  /\ cluster' = [cluster EXCEPT ![c] = NoCluster]
  /\ UNCHANGED <<generated, copies, mkcluster, profiled, caches, genVars,
                 copyVars, edits, failures>>

\* Somebody deletes what the addon maintains and watches, or makes a
\* MultiKueueCluster refer to something else.
Tamper(c) ==
  /\ Edit
  /\ \/ /\ permission[c] /\ permission' = [permission EXCEPT ![c] = FALSE]
        /\ Notify(c, "permission", TRUE)
        /\ UNCHANGED <<account, mkcluster>>
     \/ /\ account[c] /\ account' = [account EXCEPT ![c] = FALSE]
        /\ Notify(c, "account", TRUE)
        /\ UNCHANGED <<permission, mkcluster>>
     \/ /\ mkcluster[c] # "none"
        /\ \E to \in (Sources \cup {"none"}) \ {mkcluster[c]} :
             mkcluster' = [mkcluster EXCEPT ![c] = to]
        /\ Notify(c, "mkcluster", TRUE)
        /\ UNCHANGED <<permission, account>>
  /\ UNCHANGED <<cluster, token, copies, profiled, seenVars, genVars,
                 copyVars, failures>>

\* The account's controller: it writes the token once the account is there,
\* and deletes it with the account.  With ClusterProfiles one token is as good
\* as another here.
IssueToken(c) ==
  /\ \/ /\ account[c] /\ token[c] = 0
        /\ token' = [token EXCEPT ![c] = IF profiles THEN 1 ELSE edits + 1]
     \/ /\ ~account[c] /\ token[c] # 0
        /\ token' = [token EXCEPT ![c] = 0]
  /\ Notify(c, "token", TRUE)
  /\ UNCHANGED <<cluster, permission, account, copies, mkcluster, profiled,
                 seenVars, genVars, copyVars, edits, failures>>

RotateToken(c) ==
  /\ Edit /\ ~profiles
  /\ account[c] /\ token[c] # 0
  /\ token' = [token EXCEPT ![c] = edits' + 1]
  /\ Notify(c, "token", TRUE)
  /\ UNCHANGED <<cluster, permission, account, copies, mkcluster, profiled,
                 seenVars, genVars, copyVars, failures>>

\* The controllers that keep a ClusterProfile for every cluster, first without
\* its access provider, and sync the token for it.
SyncProfile(c) ==
  /\ profiles
  /\ \/ /\ cluster[c] # NoCluster /\ profile[c] # "complete"
        /\ profile' = [profile EXCEPT ![c] =
             IF @ = "none" THEN "incomplete" ELSE "complete"]
     \/ /\ cluster[c] = NoCluster /\ profile[c] # "none"
        /\ profile' = [profile EXCEPT ![c] = "none"]
  /\ Notify(c, "profile", TRUE)
  /\ UNCHANGED <<cluster, generated, copies, mkcluster, synced, seenVars,
                 genVars, copyVars, edits, failures>>

SyncSecret(c) ==
  /\ profiles
  /\ synced' = [synced EXCEPT ![c] = (profile[c] # "none" /\ token[c] # 0)]
  /\ synced' # synced
  /\ Notify(c, "synced", TRUE)
  /\ UNCHANGED <<cluster, generated, copies, mkcluster, profile, seenVars,
                 genVars, copyVars, edits, failures>>

\* Only the generator watches the ManagedClusters.
ObserveCluster(c) ==
  /\ clusterSeen[c] # cluster[c]
  /\ clusterSeen' = [clusterSeen EXCEPT ![c] = cluster[c]]
  /\ genQueue' = genQueue \cup {c}
  /\ UNCHANGED <<objects, modeVars, permissionSeen, profileSeen, syncedSeen,
                 notices, genPc, genKey, copyVars, edits, failures>>

ObservePermission(c) ==
  /\ <<c, "permission">> \in notices
  /\ notices' = notices \ {<<c, "permission">>}
  /\ permissionSeen' = [permissionSeen EXCEPT ![c] = permission[c]]
  /\ genQueue' = genQueue \cup {c} /\ copyQueue' = copyQueue \cup {c}
  /\ UNCHANGED <<objects, modeVars, clusterSeen, profileSeen, syncedSeen, genPc,
                 genKey, copyPc, copyKey, copied, edits, failures>>

ObserveOther(c, kind) ==
  /\ <<c, kind>> \in notices
  /\ notices' = notices \ {<<c, kind>>}
  /\ genQueue' = genQueue \cup (IF kind = "account" THEN {c} ELSE {})
  /\ copyQueue' = copyQueue \cup (IF kind \in CopyWatches THEN {c} ELSE {})
  /\ profileSeen' = [profileSeen EXCEPT ![c] =
       IF kind = "profile" THEN profile[c] ELSE @]
  /\ syncedSeen' = [syncedSeen EXCEPT ![c] =
       IF kind = "synced" THEN synced[c] ELSE @]
  /\ UNCHANGED <<objects, modeVars, clusterSeen, permissionSeen, genPc, genKey,
                 copyPc, copyKey, copied, edits, failures>>

\* The informers resync what exists after ten or thirty minutes.
ResyncGen(c) ==
  /\ clusterSeen[c] # NoCluster
  /\ genQueue' = genQueue \cup {c}
  /\ UNCHANGED <<objects, caches, genPc, genKey, copyVars, edits, failures>>

\* Something of cluster c is watched by the copier or the MultiKueueCluster
\* controller.
HasWatched(c) ==
  \/ permission[c] \/ mkcluster[c] # "none"
  \/ profiles /\ (profile[c] # "none" \/ synced[c])
  \/ ~profiles /\ ~impersonation /\ token[c] # 0

ResyncCopy(c) ==
  /\ HasWatched(c)
  /\ copyQueue' = copyQueue \cup {c}
  /\ UNCHANGED <<objects, caches, genVars, copyPc, copyKey, copied, edits,
                 failures>>

\* The hub's process ends and starts again: the informers list what there is.
Restart ==
  /\ Failure
  /\ orphaned' = orphaned \cup
       {c \in Clusters : kubeconfig[c] # NoSecret /\ ~HasWatched(c)}
  /\ clusterSeen' = cluster /\ permissionSeen' = permission
  /\ profileSeen' = profile /\ syncedSeen' = synced
  /\ notices' = {}
  /\ genQueue' = {c \in Clusters :
                    cluster[c] # NoCluster \/ permission[c] \/ account[c]}
  /\ genPc' = "idle" /\ genKey' = NoKey
  /\ copyQueue' = {c \in Clusters : HasWatched(c)}
  /\ copyPc' = "idle" /\ copyKey' = NoKey /\ copied' = NoSecret
  /\ UNCHANGED <<cluster, generated, kubeconfig, mkcluster, profiled, modeVars,
                 edits>>

-----------------------------------------------------------------------------
(***************************************************************************)
(* The secret generator.                                                   *)
(***************************************************************************)
GenFinish(again) ==
  /\ genPc' = "idle" /\ genKey' = NoKey
  /\ genQueue' = IF again THEN genQueue \cup {genKey} ELSE genQueue

\* Mutant of Leaving: nobody looks at the deletion timestamp.
LeavingNever(managed) == FALSE

Leaving(managed) == managed.deleting

\* A cluster that is gone is skipped.
GenBegin(c) ==
  /\ genPc = "idle" /\ c \in genQueue
  /\ genQueue' = genQueue \ {c}
  /\ IF clusterSeen[c] = NoCluster THEN UNCHANGED <<genPc, genKey>>
     ELSE /\ genKey' = c
          /\ genPc' = IF Leaving(clusterSeen[c]) THEN "clean" ELSE "permission"
  /\ UNCHANGED <<objects, caches, copyVars, edits, failures>>

\* Mutant of EndsHere: the account is created in either mode.
EndsNever == FALSE

EndsHere == impersonation

\* applyClusterPermission, or its deletion; impersonation mode ends here.
GenPermission ==
  /\ genPc \in {"permission", "clean"}
  /\ \/ /\ permission' = [permission EXCEPT ![genKey] = (genPc = "permission")]
        /\ IF EndsHere THEN GenFinish(FALSE)
           ELSE /\ genPc' = IF genPc = "clean" THEN "cleanAccount"
                                               ELSE "account"
                /\ UNCHANGED <<genQueue, genKey>>
        /\ Notify(genKey, "permission", permission' # permission)
        /\ UNCHANGED failures
     \/ Failure /\ GenFinish(TRUE) /\ UNCHANGED <<permission, notices>>
  /\ UNCHANGED <<cluster, account, token, copies, mkcluster, profiled,
                 seenVars, copyVars, edits>>

\* applyManagedServiceAccount, or its deletion.
GenAccount ==
  /\ genPc \in {"account", "cleanAccount"}
  /\ \/ /\ account' = [account EXCEPT ![genKey] = (genPc = "account")]
        /\ Notify(genKey, "account", account' # account)
        /\ GenFinish(FALSE) /\ UNCHANGED failures
     \/ Failure /\ GenFinish(TRUE) /\ UNCHANGED <<account, notices>>
  /\ UNCHANGED <<cluster, permission, token, copies, mkcluster, profiled,
                 seenVars, copyVars, edits>>

GenNext == GenPermission \/ GenAccount

-----------------------------------------------------------------------------
(***************************************************************************)
(* The secret copier.                                                      *)
(***************************************************************************)
CopyFinish(again) ==
  /\ copyPc' = "idle" /\ copyKey' = NoKey /\ copied' = NoSecret
  /\ copyQueue' = IF again THEN copyQueue \cup {copyKey} ELSE copyQueue

CopyGoto(step) == copyPc' = step /\ UNCHANGED <<copyQueue, copyKey, copied>>

CopyBegin(c) ==
  /\ copyPc = "idle" /\ c \in copyQueue /\ ~profiles
  /\ copyQueue' = copyQueue \ {c} /\ copyKey' = c
  /\ copyPc' = IF ~permissionSeen[c] THEN "deleteSecret"
               ELSE IF impersonation THEN "read" ELSE "check"
  /\ UNCHANGED <<objects, caches, genVars, copied, edits, failures>>

\* The second half of shouldCleanupResources: any error but NotFound counts as
\* a secret that is there.
CopyCheck ==
  /\ copyPc = "check"
  /\ \/ CopyGoto(IF token[copyKey] = 0 THEN "deleteSecret" ELSE "read")
        /\ UNCHANGED failures
     \/ Failure /\ CopyGoto("read")
  /\ UNCHANGED <<objects, caches, genVars, edits>>

CurrentToken(c) == IF impersonation THEN HubToken ELSE token[c]

\* getClusterURL: the proxy's URL, or that of the cached ManagedCluster, if any.
ClusterUrl(c) ==
  IF proxy THEN ProxyUrl
  ELSE IF clusterSeen[c] = NoCluster THEN NoUrl ELSE clusterSeen[c].url

\* Then getClusterSecret and the CA, which the API server is asked for.
CopyRead ==
  LET url == ClusterUrl(copyKey)
      tok == CurrentToken(copyKey) IN
  /\ copyPc = "read"
  /\ \/ /\ url # NoUrl /\ tok # 0
        /\ copied' = [token |-> tok, url |-> url]
        /\ copyPc' = "apply"
        /\ UNCHANGED <<copyQueue, copyKey, failures>>
     \/ /\ url = NoUrl \/ tok = 0
        /\ CopyFinish(TRUE) /\ UNCHANGED failures
     \/ Failure /\ CopyFinish(TRUE)
  /\ UNCHANGED <<objects, caches, genVars, edits>>

\* Mutant of Applied: a Secret with the right token is left alone.
AppliedByToken(old) ==
  IF old # NoSecret /\ old.token = copied.token THEN old ELSE copied

Applied(old) == copied

\* ApplySecret.
CopyApply ==
  /\ copyPc = "apply"
  /\ \/ /\ kubeconfig' = [kubeconfig EXCEPT ![copyKey] = Applied(@)]
        /\ orphaned' = orphaned \ {copyKey}
        /\ CopyGoto("cluster") /\ UNCHANGED failures
     \/ Failure /\ CopyFinish(TRUE) /\ UNCHANGED copies
  /\ UNCHANGED <<cluster, generated, mkcluster, profiled, caches, genVars,
                 edits>>

StoreMKCluster(source) ==
  /\ mkcluster' = [mkcluster EXCEPT ![copyKey] = source]
  /\ Notify(copyKey, "mkcluster", mkcluster' # mkcluster)

\* What the MultiKueueClusters of this mode refer to.
Source == IF profiles THEN "profile" ELSE "secret"

\* createOrUpdateMultiKueueCluster of either controller.
CopyCluster ==
  /\ copyPc = "cluster"
  /\ \/ StoreMKCluster(Source) /\ CopyFinish(FALSE) /\ UNCHANGED failures
     \/ Failure /\ CopyFinish(TRUE) /\ UNCHANGED <<mkcluster, notices>>
  /\ UNCHANGED <<cluster, generated, copies, profiled, seenVars, genVars,
                 edits>>

\* cleanupResources: the Secret first, then the MultiKueueCluster.
CopyDeleteSecret ==
  /\ copyPc = "deleteSecret"
  /\ \/ /\ kubeconfig' = [kubeconfig EXCEPT ![copyKey] = NoSecret]
        /\ orphaned' = orphaned \ {copyKey}
        /\ CopyGoto("deleteCluster") /\ UNCHANGED failures
     \/ Failure /\ CopyFinish(TRUE) /\ UNCHANGED copies
  /\ UNCHANGED <<cluster, generated, mkcluster, profiled, caches, genVars,
                 edits>>

\* cleanupCluster in the MultiKueueCluster controller.
CopyDeleteCluster ==
  /\ copyPc = "deleteCluster"
  /\ \/ StoreMKCluster("none") /\ CopyFinish(FALSE) /\ UNCHANGED failures
     \/ Failure /\ CopyFinish(TRUE) /\ UNCHANGED <<mkcluster, notices>>
  /\ UNCHANGED <<cluster, generated, copies, profiled, seenVars, genVars,
                 edits>>

CopyNext ==
  \/ CopyCheck \/ CopyRead \/ CopyApply \/ CopyCluster
  \/ CopyDeleteSecret \/ CopyDeleteCluster

-----------------------------------------------------------------------------
(***************************************************************************)
(* The MultiKueueCluster controller: shouldCleanupCluster, and the check   *)
(* of the profile.  The two read the caches twice; a change in between     *)
(* queues the cluster again.                                               *)
(***************************************************************************)
ProfileBegin(c) ==
  /\ profiles /\ copyPc = "idle" /\ c \in copyQueue
  /\ \/ /\ profileSeen[c] = "none" \/ ~permissionSeen[c] \/ ~syncedSeen[c]
        /\ copyPc' = "deleteCluster"
        /\ copyQueue' = copyQueue \ {c} /\ copyKey' = c
     \/ /\ profileSeen[c] = "complete" /\ permissionSeen[c] /\ syncedSeen[c]
        /\ copyPc' = "cluster"
        /\ copyQueue' = copyQueue \ {c} /\ copyKey' = c
     \/ /\ profileSeen[c] = "incomplete" /\ permissionSeen[c] /\ syncedSeen[c]
        /\ UNCHANGED <<copyPc, copyQueue, copyKey>>
  /\ UNCHANGED <<objects, caches, genVars, copied, edits, failures>>

-----------------------------------------------------------------------------
Deliver(c) ==
  \/ ObserveCluster(c) \/ ObservePermission(c)
  \/ \E kind \in Kinds \ {"permission"} : ObserveOther(c, kind)

\* The other controllers.
OthersNext(c) == IssueToken(c) \/ SyncProfile(c) \/ SyncSecret(c)

EnvNext ==
  \/ Restart
  \/ \E c \in Clusters :
       \/ EditCluster(c) \/ ClusterGone(c) \/ Tamper(c) \/ RotateToken(c)
       \/ Deliver(c) \/ ResyncGen(c) \/ ResyncCopy(c) \/ OthersNext(c)

Next ==
  \/ EnvNext \/ GenNext \/ CopyNext
  \/ \E c \in Clusters : GenBegin(c) \/ CopyBegin(c) \/ ProfileBegin(c)

Spec == Init /\ [][Next]_vars

(***************************************************************************)
(* The informers deliver and resync, the other controllers answer, and the *)
(* workers run; their queues are first-in first-out.                       *)
(***************************************************************************)
FairSpec ==
  /\ Spec
  /\ WF_vars(GenNext) /\ WF_vars(CopyNext)
  /\ \A c \in Clusters :
       /\ WF_vars(Deliver(c)) /\ WF_vars(OthersNext(c))
       /\ WF_vars(ResyncCopy(c))
       /\ SF_vars(GenBegin(c)) /\ SF_vars(CopyBegin(c) \/ ProfileBegin(c))

-----------------------------------------------------------------------------
(***************************************************************************)
(* Properties.                                                             *)
(***************************************************************************)

\* The generator, or the copier, is going to look at cluster c.
GenPending(c) ==
  \/ c \in genQueue \cup {genKey}
  \/ clusterSeen[c] # cluster[c]
  \/ \E kind \in {"permission", "account"} : <<c, kind>> \in notices

CopyPending(c) ==
  \/ c \in copyQueue \cup {copyKey}
  \/ \E kind \in Kinds \ {"account"} : <<c, kind>> \in notices

\* The generator misses no event: a cluster that nothing is pending for has
\* its permission and its account, and a cluster that is being deleted has
\* neither.
GeneratedFollow ==
  \A c \in Clusters :
    cluster[c] # NoCluster /\ ~GenPending(c) =>
      /\ permission[c] = ~cluster[c].deleting
      /\ account[c] = (~cluster[c].deleting /\ ~impersonation)

\* The copier misses no event: when nothing is pending for a cluster, its
\* kubeconfig has the token of now, though it may have been rotated between
\* the read and the write, and comes with a MultiKueueCluster; without
\* permission or token there is neither, except for a kubeconfig that was
\* written just before a restart and that nothing watched is left for.  With
\* ClusterProfiles there is a MultiKueueCluster if and only if there are
\* profile, permission and Secret, and it refers to the profile.
CopiesFollow ==
  \A c \in Clusters : ~CopyPending(c) =>
    IF profiles
    THEN mkcluster[c] =
           IF permission[c] /\ profile[c] # "none" /\ synced[c]
           THEN "profile" ELSE "none"
    ELSE IF permission[c] /\ CurrentToken(c) # 0
    THEN /\ kubeconfig[c] # NoSecret
         /\ kubeconfig[c].token = CurrentToken(c)
         /\ mkcluster[c] = "secret"
    ELSE /\ mkcluster[c] = "none"
         /\ c \notin orphaned => kubeconfig[c] = NoSecret

\* What a kubeconfig should point to.
RightUrl(c) == IF proxy THEN ProxyUrl ELSE cluster[c].url

\* Once nobody changes anything, MultiKueue has the current URL and token of
\* every cluster that has a URL or is behind the proxy, though no event tells
\* the copier of a new URL or a lost Secret, and nothing of a cluster that is
\* being deleted, but for the kubeconfigs that a restart orphaned; with
\* ClusterProfiles it has the cluster, unless impersonation mode keeps its
\* account and so its Secret from being made.
CredentialsConverge ==
  \A c \in Clusters :
    <>[](cluster[c] # NoCluster =>
           IF cluster[c].deleting
           THEN /\ mkcluster[c] = "none"
                /\ c \notin orphaned => kubeconfig[c] = NoSecret
           ELSE IF profiles
           THEN mkcluster[c] = IF impersonation THEN "none" ELSE "profile"
           ELSE RightUrl(c) # NoUrl =>
                  /\ mkcluster[c] = "secret"
                  /\ kubeconfig[c] = [token |-> CurrentToken(c),
                                      url   |-> RightUrl(c)])

=============================================================================
