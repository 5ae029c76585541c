---------------------- MODULE DynamicScoringHubProofs ----------------------
(***************************************************************************)
(* Proofs about DynamicScoringHub, for every value of its constants.       *)
(***************************************************************************)
EXTENDS DynamicScoringHub, TLAPS

\* The health check holds the current object of every scorer that nobody wrote
\* since the tick, and it asks for one of the scorers it holds.
CheckInv ==
  /\ \A s \in Scorers :
       listed[s] # NoScorer /\ s \notin outdated => scorers[s] = listed[s]
  /\ asked # NoScorer => listed[asked] # NoScorer /\ answer \in Answers

\* Works are written only under the finalizer, which keeps the config.
FinalizerInv ==
  /\ finalizer => config # "absent"
  /\ pc \in {"list", "apply"} => finalizer
  /\ pc = "delete" => config = "deleting"

\* The cache is late with nothing but what it is known to be behind with.
CacheInv == \A c \in Clusters \ behind : worksSeen[c] = works[c]

\* Works are in clusters only.  But for the overlooked ones there are none
\* without the finalizer, and while they are deleted the rest of them is still
\* to do.
LeftoverInv ==
  \A c \in Clusters : works[c] # NoWork =>
    /\ c \in clusters
    /\ c \in overlooked \/ (finalizer /\ (pc = "delete" => c \in todo))

IInv == TypeOK /\ CheckInv /\ FinalizerInv /\ CacheInv /\ LeftoverInv

-----------------------------------------------------------------------------
LEMMA InitIInv == Init => IInv
<1> SUFFICES ASSUME Init PROVE IInv
  OBVIOUS
<1>1. TypeOK
  <2>1. edits \in 0..MaxEdits /\ failures \in 0..MaxFailures
    <3>1. edits = 0 /\ failures = 0
      BY DEF Init
    <3>2. QED BY <3>1, BoundsAssumption
  <2>2. scorers \in [Scorers -> Scorer \cup {NoScorer}] /\ listed \in
          [Scorers -> Scorer \cup {NoScorer}] /\ DOMAIN works = Clusters
          /\ DOMAIN worksSeen = Clusters /\ behind = {} /\ overlooked = {}
    BY DEF Init
  <2>3. /\ api \in [Hosts -> Answers] /\ masks \in MaskSets
        /\ clusters \subseteq Clusters /\ todo = {} /\ outdated = {}
        /\ config = "absent" /\ finalizer = FALSE /\ queued = FALSE
        /\ pc = "idle" /\ asked = NoScorer /\ answer = NoAnswer
    BY DEF Init
  <2>4. QED BY <2>1, <2>2, <2>3 DEF TypeOK
<1>2. CheckInv /\ FinalizerInv /\ CacheInv /\ LeftoverInv
  BY DEF Init, CheckInv, FinalizerInv, CacheInv, LeftoverInv
<1>3. QED BY <1>1, <1>2 DEF IInv

\* A change that someone makes: the counter keeps its type.
LEMMA EditTyped == ASSUME TypeOK, Edit PROVE edits' \in 0..MaxEdits
BY BoundsAssumption DEF TypeOK, Edit

LEMMA FailureTyped ==
  ASSUME TypeOK, Failure PROVE failures' \in 0..MaxFailures /\ failures' # 0
BY BoundsAssumption DEF TypeOK, Failure

\* A write makes the cache late, unless it changes nothing.
LEMMA StoreCache ==
  ASSUME TypeOK, CacheInv, NEW c \in Clusters, NEW work, Store(c, work),
         UNCHANGED worksSeen
  PROVE  DOMAIN works' = Clusters /\ behind' \subseteq Clusters /\ CacheInv'
BY DEF TypeOK, CacheInv, Store

LEMMA EditScorerIInv ==
  ASSUME IInv, NEW s \in Scorers, EditScorer(s) PROVE IInv'
<1> USE DEF IInv
<1>1. UNCHANGED <<api, config, finalizer, masks, clusters, works, worksSeen,
                  behind, overlooked, pc, todo, snapshot, listed, asked,
                  answer, failures>>
  BY DEF EditScorer, workVars, reconcileVars, checkVars
<1>2. PICK new \in Scorer \cup {NoScorer} :
        scorers' = [scorers EXCEPT ![s] = new]
  <2>1. CASE scorers' = [scorers EXCEPT ![s] = NoScorer]
    BY <2>1
  <2>2. ASSUME NEW spec \in Specs, scorers[s] = NoScorer,
               scorers' = [scorers EXCEPT ![s] = NewScorer(spec)]
        PROVE  NewScorer(spec) \in Scorer
    BY DEF NewScorer, Scorer
  <2>3. ASSUME NEW spec \in Specs, scorers[s] # NoScorer,
               scorers' = [scorers EXCEPT ![s].spec = spec]
        PROVE  /\ [scorers[s] EXCEPT !.spec = spec] \in Scorer
               /\ scorers' = [scorers EXCEPT
                               ![s] = [scorers[s] EXCEPT !.spec = spec]]
    BY <2>3 DEF TypeOK, Scorer
  <2>4. QED BY <2>1, <2>2, <2>3 DEF EditScorer
<1>3. outdated' = outdated \cup {s} /\ queued' = TRUE /\ Edit
  BY DEF EditScorer
<1>4. TypeOK'
  BY <1>1, <1>2, <1>3, EditTyped DEF TypeOK
<1>5. CheckInv'
  BY <1>1, <1>2, <1>3 DEF CheckInv, TypeOK
<1>6. QED BY <1>1, <1>4, <1>5 DEF FinalizerInv, CacheInv, LeftoverInv

LEMMA EnvIInv == ASSUME IInv, EnvNext PROVE IInv'
<1> USE DEF IInv
<1>1. CASE ChangeApi
  <2>1. UNCHANGED <<scorers, config, finalizer, masks, clusters, works,
                    worksSeen, behind, overlooked, queued, pc, todo, snapshot,
                    listed, asked, answer, outdated, failures>>
    BY <1>1 DEF ChangeApi, hubVars, workVars, reconcileVars, checkVars
  <2>2. api' \in [Hosts -> Answers] /\ Edit
    BY <1>1 DEF ChangeApi, TypeOK
  <2>3. TypeOK'
    BY <2>1, <2>2, EditTyped DEF TypeOK
  <2>4. QED BY <2>1, <2>3 DEF CheckInv, FinalizerInv, CacheInv, LeftoverInv
<1>2. CASE CreateConfig
  <2>1. /\ UNCHANGED <<scorers, clusters, works, worksSeen, behind, overlooked,
                       api, pc, todo, snapshot, listed, asked, answer,
                       outdated, failures>>
        /\ Edit /\ config = "absent" /\ config' = "present"
        /\ finalizer' = FALSE /\ masks' \in MaskSets /\ queued' = TRUE
    BY <1>2 DEF CreateConfig, workVars, reconcileVars, checkVars
  <2>2. TypeOK'
    BY <2>1, EditTyped DEF TypeOK
  <2>3. QED BY <2>1, <2>2 DEF CheckInv, FinalizerInv, CacheInv, LeftoverInv
<1>3. CASE EditMasks
  <2>1. /\ UNCHANGED <<scorers, config, finalizer, clusters, works, worksSeen,
                       behind, overlooked, api, pc, todo, snapshot, listed,
                       asked, answer, outdated, failures>>
        /\ Edit /\ masks' \in MaskSets /\ queued' = TRUE
    BY <1>3 DEF EditMasks, workVars, reconcileVars, checkVars
  <2>2. TypeOK'
    BY <2>1, EditTyped DEF TypeOK
  <2>3. QED BY <2>1, <2>2 DEF CheckInv, FinalizerInv, CacheInv, LeftoverInv
<1>4. CASE DeleteConfig
  <2>1. /\ UNCHANGED <<scorers, finalizer, masks, clusters, works, worksSeen,
                       behind, overlooked, api, pc, todo, snapshot, listed,
                       asked, answer, outdated, failures>>
        /\ Edit /\ config = "present" /\ queued' = TRUE
        /\ config' = IF finalizer THEN "deleting" ELSE "absent"
    BY <1>4 DEF DeleteConfig, workVars, reconcileVars, checkVars
  <2>2. TypeOK'
    BY <2>1, EditTyped DEF TypeOK
  <2>3. CheckInv' /\ FinalizerInv'
    BY <2>1 DEF CheckInv, FinalizerInv
  <2>4. LeftoverInv'
    BY <2>1 DEF FinalizerInv, CacheInv, LeftoverInv
  <2>5. QED BY <2>1, <2>2, <2>3, <2>4 DEF CacheInv
<1>5. CASE Resync
  <2>1. /\ UNCHANGED <<scorers, config, finalizer, masks, clusters, works,
                       worksSeen, behind, overlooked, api, pc, todo, snapshot,
                       listed, asked, answer, outdated, edits, failures>>
        /\ queued' = TRUE
    BY <1>5 DEF Resync, hubVars, workVars, reconcileVars, checkVars
  <2>2. TypeOK'
    BY <2>1 DEF TypeOK
  <2>3. QED BY <2>1, <2>2 DEF CheckInv, FinalizerInv, CacheInv, LeftoverInv
<1>6. ASSUME NEW c \in Clusters, JoinOrLeave(c) PROVE IInv'
  <2>1. /\ UNCHANGED <<scorers, config, finalizer, masks, worksSeen, overlooked,
                       api, queued, pc, todo, snapshot, listed, asked, answer,
                       outdated, failures>>
        /\ Edit
        /\ \/ clusters' = clusters \cup {c} /\ UNCHANGED <<works, behind>>
           \/ clusters' = clusters \ {c} /\ Store(c, NoWork)
    BY <1>6 DEF JoinOrLeave, reconcileVars, checkVars
  <2>2. DOMAIN works' = Clusters /\ behind' \subseteq Clusters /\ CacheInv'
    BY <2>1, StoreCache DEF TypeOK, CacheInv
  <2>3. TypeOK'
    BY <2>1, <2>2, EditTyped DEF TypeOK
  <2>4. CheckInv' /\ FinalizerInv'
    BY <2>1 DEF CheckInv, FinalizerInv
  <2>5. LeftoverInv'
    BY <2>1 DEF LeftoverInv, TypeOK, Store
  <2>6. QED BY <2>2, <2>3, <2>4, <2>5
<1>7. ASSUME NEW c \in Clusters, ObserveWork(c) PROVE IInv'
  <2>1. /\ UNCHANGED <<scorers, config, finalizer, masks, clusters, works,
                       overlooked, api, queued, pc, todo, snapshot, listed,
                       asked, answer, outdated, edits, failures>>
        /\ worksSeen' = [worksSeen EXCEPT ![c] = works[c]]
        /\ behind' = behind \ {c}
    BY <1>7 DEF ObserveWork, reconcileVars, checkVars
  <2>2. TypeOK'
    BY <2>1 DEF TypeOK
  <2>3. CacheInv'
    BY <2>1 DEF CacheInv, TypeOK
  <2>4. QED BY <2>1, <2>2, <2>3 DEF CheckInv, FinalizerInv, LeftoverInv
<1>8. QED
  BY <1>1, <1>2, <1>3, <1>4, <1>5, <1>6, <1>7, EditScorerIInv DEF EnvNext

LEMMA ReconcileIInv == ASSUME IInv, ReconcileNext PROVE IInv'
<1> USE DEF IInv
<1>1. CASE ReconcileStart
  <2>1. /\ UNCHANGED <<scorers, config, masks, clusters, works, worksSeen,
                       behind, overlooked, api, listed, asked, answer,
                       outdated, edits>>
        /\ pc = "idle" /\ queued' \in BOOLEAN /\ finalizer' \in BOOLEAN
    BY <1>1 DEF ReconcileStart, workVars, checkVars, TypeOK,
               FinalizerAfterGet, Retry
  <2>2. \/ UNCHANGED <<finalizer, pc, todo, failures>>
        \/ /\ config # "absent" /\ finalizer'
           /\ pc' = IF config = "deleting" THEN "delete" ELSE "list"
           /\ todo' = IF config = "deleting" THEN clusters ELSE {}
           /\ UNCHANGED failures
        \/ /\ Failure /\ pc' = "idle" /\ todo' = {} /\ UNCHANGED finalizer
    BY <1>1 DEF ReconcileStart, reconcileVars, FinalizerAfterGet, Retry
  <2>3. failures' \in 0..MaxFailures
    BY <2>2, FailureTyped DEF TypeOK
  <2>4. pc' \in {"idle", "list", "apply", "delete", "finalize"}
        /\ todo' \subseteq Clusters /\ (config' = "deleting" => finalizer')
    BY <2>1, <2>2 DEF TypeOK
  <2>5. TypeOK'
    BY <2>1, <2>3, <2>4 DEF TypeOK
  <2>6. CheckInv'
    BY <2>1 DEF CheckInv
  <2>7. FinalizerInv'
    BY <2>1, <2>2 DEF FinalizerInv
  <2>8. LeftoverInv'
    BY <2>1, <2>2 DEF LeftoverInv
  <2>9. QED BY <2>1, <2>5, <2>6, <2>7, <2>8 DEF CacheInv
<1>2. CASE ReconcileList
  <2>1. /\ UNCHANGED <<scorers, config, finalizer, masks, clusters, works,
                       worksSeen, behind, overlooked, api, listed, asked,
                       answer, outdated, edits>>
        /\ pc = "list"
        /\ \/ todo' = clusters /\ pc' = "apply" /\ UNCHANGED <<queued, failures>>
           \/ Failure /\ pc' = "idle" /\ queued' = TRUE /\ todo' = {}
    BY <1>2 DEF ReconcileList, hubVars, workVars, checkVars, Retry
  <2>2. failures' \in 0..MaxFailures
    BY <2>1, FailureTyped DEF TypeOK
  <2>3. TypeOK'
    BY <2>1, <2>2 DEF TypeOK
  <2>4. LeftoverInv'
    BY <2>1 DEF LeftoverInv
  <2>5. QED BY <2>1, <2>3, <2>4 DEF CheckInv, FinalizerInv, CacheInv
<1>3. ASSUME NEW c \in Clusters, ApplyWork(c) PROVE IInv'
  <2> DEFINE new == Summaries(snapshot.scorers, snapshot.masks[c])
  <2>1. /\ UNCHANGED <<scorers, config, finalizer, masks, clusters, worksSeen,
                       api, listed, asked, answer, outdated, edits>>
        /\ pc = "apply" /\ c \in todo
    BY <1>3 DEF ApplyWork, checkVars
  <2>2. /\ \/ todo' = todo \ {c} /\ UNCHANGED <<queued, pc>>
           \/ pc' = "idle" /\ queued' = TRUE /\ todo' = {}
        /\ Failure \/ UNCHANGED failures
        /\ overlooked' \subseteq Clusters
        /\ \/ UNCHANGED <<works, behind>>
           \/ c \in clusters /\ Store(c, new)
    BY <1>3 DEF ApplyWork, Retry, LeaveWork, Accepted, TypeOK
  <2> HIDE DEF new
  <2>3. failures' \in 0..MaxFailures
    BY <2>2, FailureTyped DEF TypeOK
  <2>4. DOMAIN works' = Clusters /\ behind' \subseteq Clusters /\ CacheInv'
    BY <2>1, <2>2, StoreCache DEF TypeOK, CacheInv
  <2>5. TypeOK'
    BY <2>1, <2>2, <2>3, <2>4 DEF TypeOK
  <2>6. CheckInv'
    BY <2>1 DEF CheckInv
  <2>7. FinalizerInv'
    BY <2>1, <2>2 DEF FinalizerInv
  <2>8. \A d \in Clusters : works'[d] # NoWork =>
          works[d] # NoWork \/ (d = c /\ c \in clusters)
    BY <2>2 DEF TypeOK, Store
  <2>9. LeftoverInv'
    <3>1. finalizer
      BY <2>1 DEF FinalizerInv
    <3>2. pc' # "delete"
      BY <2>1, <2>2
    <3>3. \A d \in Clusters : works'[d] # NoWork => d \in clusters
      BY <2>8 DEF LeftoverInv
    <3>4. QED BY <2>1, <3>1, <3>2, <3>3 DEF LeftoverInv
  <2>10. QED BY <2>4, <2>5, <2>6, <2>7, <2>9
<1>4. CASE ReconcileDone
  <2>1. /\ UNCHANGED <<scorers, config, finalizer, masks, clusters, works,
                       worksSeen, behind, overlooked, api, queued, todo,
                       listed, asked, answer, outdated, edits, failures>>
        /\ pc = "apply" /\ pc' = "idle"
    BY <1>4 DEF ReconcileDone, hubVars, workVars, checkVars
  <2>2. TypeOK'
    BY <2>1 DEF TypeOK
  <2>3. QED BY <2>1, <2>2 DEF CheckInv, FinalizerInv, CacheInv, LeftoverInv
<1>5. ASSUME NEW c \in Clusters, DeleteWork(c) PROVE IInv'
  <2>1. /\ UNCHANGED <<scorers, config, finalizer, masks, clusters, worksSeen,
                       api, queued, pc, listed, asked, answer, outdated, edits>>
        /\ pc = "delete" /\ c \in todo /\ todo' = todo \ {c}
    BY <1>5 DEF DeleteWork, checkVars
  <2>2. \/ /\ worksSeen[c] = NoWork /\ LeaveWork(c) /\ UNCHANGED failures
        \/ /\ Store(c, NoWork) /\ overlooked' = overlooked \ {c}
           /\ UNCHANGED failures
        \/ /\ Failure /\ overlooked' = overlooked \cup {c}
           /\ UNCHANGED <<works, behind>>
    BY <1>5 DEF DeleteWork
  <2>3. failures' \in 0..MaxFailures
    BY <2>2, FailureTyped DEF TypeOK
  <2>4. DOMAIN works' = Clusters /\ behind' \subseteq Clusters /\ CacheInv'
    BY <2>1, <2>2, StoreCache DEF TypeOK, CacheInv, LeaveWork
  <2>5. TypeOK'
    BY <2>1, <2>2, <2>3, <2>4 DEF TypeOK, LeaveWork
  <2>6. CheckInv' /\ FinalizerInv'
    BY <2>1 DEF CheckInv, FinalizerInv
  <2>7. LeftoverInv'
    <3>1. works'[c] # NoWork => c \in overlooked'
      BY <2>2 DEF LeaveWork, CacheInv, Store, TypeOK
    <3>2. \A d \in Clusters : d # c =>
            works'[d] = works[d] /\ (d \in overlooked => d \in overlooked')
      BY <2>2 DEF LeaveWork, Store, TypeOK
    <3>3. works'[c] # NoWork => works[c] # NoWork
      BY <2>2 DEF LeaveWork, Store, TypeOK
    <3>4. QED BY <2>1, <3>1, <3>2, <3>3 DEF LeftoverInv
  <2>8. QED BY <2>4, <2>5, <2>6, <2>7
<1>6. CASE RemoveFinalizer
  <2>1. /\ UNCHANGED <<scorers, masks, clusters, works, worksSeen, behind,
                       overlooked, api, listed, asked, answer, outdated,
                       edits>>
        /\ pc = "delete" /\ todo = {} /\ pc' = "idle" /\ todo' = {}
        /\ \/ /\ config' = "absent" /\ finalizer' = FALSE
              /\ UNCHANGED <<queued, failures>>
           \/ Failure /\ queued' = TRUE /\ UNCHANGED <<config, finalizer>>
    BY <1>6 DEF RemoveFinalizer, workVars, checkVars, Retry
  <2>2. failures' \in 0..MaxFailures
    BY <2>1, FailureTyped DEF TypeOK
  <2>3. TypeOK'
    BY <2>1, <2>2 DEF TypeOK
  <2>4. CheckInv' /\ FinalizerInv'
    BY <2>1 DEF CheckInv, FinalizerInv
  <2>5. LeftoverInv'
    BY <2>1 DEF LeftoverInv
  <2>6. QED BY <2>1, <2>3, <2>4, <2>5 DEF CacheInv
<1>7. QED BY <1>1, <1>2, <1>3, <1>4, <1>5, <1>6 DEF ReconcileNext

\* What the check makes of a listed scorer is a scorer with the same spec; only
\* mode Full changes its synced config.
LEMMA CheckedScorer ==
  ASSUME NEW s \in Scorer, answer \in Answers
  PROVE  /\ Checked(s) \in Scorer
         /\ Checked(s).synced # s.synced => s.spec.mode = "Full"
<1>1. CASE s.spec.mode # "Full"
  <2>1. PICK h \in {"Active", "Inactive"} : Checked(s) = [s EXCEPT !.health = h]
    BY <1>1 DEF Checked
  <2>2. QED BY <1>1, <2>1 DEF Scorer
<1>2. CASE s.spec.mode = "Full"
  <2>1. CASE answer.status = "down"
    BY <1>2, <2>1 DEF Checked, Scorer
  <2>2. CASE answer.status = "error"
    BY <1>2, <2>2 DEF Checked, Scorer
  <2>3. CASE answer.status = "ok"
    <3>1. answer.config \in Configs
      BY AnswersAssumption
    <3>2. QED BY <1>2, <2>3, <3>1 DEF Checked, Scorer
  <2>4. QED BY <2>1, <2>2, <2>3, AnswersAssumption
<1>3. QED BY <1>1, <1>2

\* A status update goes to the object that was listed.
LEMMA WriteIsCurrent ==
  ASSUME IInv, WriteStatus, scorers' # scorers
  PROVE  /\ asked \in Scorers /\ listed[asked] \in Scorer
         /\ scorers[asked] = listed[asked]
         /\ scorers' = [scorers EXCEPT
              ![asked] = [listed[asked] EXCEPT
                            !.synced = Checked(listed[asked]).synced,
                            !.health = Checked(listed[asked]).health]]
<1>1. asked \in Scorers /\ listed[asked] # NoScorer
  BY DEF WriteStatus, IInv, TypeOK, CheckInv
<1>2. listed[asked] \in Scorer
  BY <1>1 DEF IInv, TypeOK
<1>3. asked \notin outdated
  BY DEF WriteStatus, UpToDate
<1>4. scorers[asked] = listed[asked]
  BY <1>1, <1>3 DEF IInv, CheckInv
<1>5. scorers' = [scorers EXCEPT ![asked].synced = Checked(listed[asked]).synced,
                                 ![asked].health = Checked(listed[asked]).health]
  BY DEF WriteStatus
<1>6. scorers \in [Scorers -> Scorer \cup {NoScorer}]
  BY DEF IInv, TypeOK
<1>7. QED BY <1>1, <1>2, <1>4, <1>5, <1>6

LEMMA HealthIInv == ASSUME IInv, HealthNext PROVE IInv'
<1> USE DEF IInv
<1>1. CASE HealthTick
  <2>1. /\ UNCHANGED <<scorers, config, finalizer, masks, clusters, works,
                       worksSeen, behind, overlooked, api, queued, pc, todo,
                       asked, answer, edits, failures>>
        /\ asked = NoScorer /\ listed' = scorers /\ outdated' = {}
    BY <1>1 DEF HealthTick, hubVars, workVars, reconcileVars
  <2>2. TypeOK'
    BY <2>1 DEF TypeOK
  <2>3. QED BY <2>1, <2>2 DEF CheckInv, FinalizerInv, CacheInv, LeftoverInv
<1>2. ASSUME NEW s \in Scorers, AskApi(s) PROVE IInv'
  <2>1. /\ UNCHANGED <<scorers, config, finalizer, masks, clusters, works,
                       worksSeen, behind, overlooked, api, queued, pc, todo,
                       listed, outdated, edits, failures>>
        /\ listed[s] # NoScorer /\ asked' = s
        /\ answer' = api[listed[s].spec.configHost]
    BY <1>2 DEF AskApi, hubVars, workVars, reconcileVars
  <2>2. listed[s].spec \in Specs
    BY <2>1 DEF TypeOK, Scorer
  <2>3. answer' \in Answers
    BY <2>1, <2>2, ScorersAssumption DEF TypeOK
  <2>4. TypeOK'
    BY <2>1, <2>3 DEF TypeOK
  <2>5. CheckInv'
    BY <2>1, <2>3 DEF CheckInv
  <2>6. QED BY <2>1, <2>4, <2>5 DEF FinalizerInv, CacheInv, LeftoverInv
<1>3. CASE WriteStatus
  <2>1. /\ UNCHANGED <<config, finalizer, masks, clusters, works, worksSeen,
                       behind, overlooked, api, pc, todo, outdated, edits>>
        /\ listed' = [listed EXCEPT ![asked] = NoScorer]
        /\ asked' = NoScorer /\ answer' = NoAnswer
        /\ queued' \in BOOLEAN /\ (Failure \/ UNCHANGED failures)
    BY <1>3 DEF WriteStatus, workVars, reconcileVars, TypeOK
  <2>2. asked \in Scorers /\ listed[asked] \in Scorer /\ answer \in Answers
    BY <1>3 DEF WriteStatus, TypeOK, CheckInv
  <2>3. failures' \in 0..MaxFailures /\ (failures' = 0 => failures = 0)
    BY <2>1, FailureTyped DEF TypeOK
  <2>4. scorers' \in [Scorers -> Scorer \cup {NoScorer}]
    <3>1. CASE scorers' = scorers
      BY <3>1 DEF TypeOK
    <3>2. CASE scorers' # scorers
      <4>1. Checked(listed[asked]) \in Scorer
        BY <2>2, CheckedScorer
      <4>2. [listed[asked] EXCEPT !.synced = Checked(listed[asked]).synced,
                                  !.health = Checked(listed[asked]).health]
              \in Scorer
        BY <2>2, <4>1 DEF Scorer
      <4>3. QED BY <1>3, <3>2, <4>2, WriteIsCurrent DEF TypeOK
    <3>3. QED BY <3>1, <3>2
  <2>5. \A s \in Scorers \ {asked} : scorers'[s] = scorers[s]
    <3>1. CASE scorers' = scorers
      BY <3>1
    <3>2. CASE scorers' # scorers
      BY <1>3, <3>2, WriteIsCurrent DEF TypeOK
    <3>3. QED BY <3>1, <3>2
  <2>6. TypeOK'
    BY <2>1, <2>3, <2>4 DEF TypeOK
  <2>7. CheckInv'
    <3>1. \A s \in Scorers : listed'[s] # NoScorer =>
            s # asked /\ listed'[s] = listed[s]
      BY <2>1, <2>2 DEF TypeOK
    <3>2. QED BY <2>1, <2>5, <3>1 DEF CheckInv
  <2>8. LeftoverInv'
    BY <2>1 DEF LeftoverInv
  <2>9. QED BY <2>1, <2>6, <2>7, <2>8 DEF FinalizerInv, CacheInv
<1>4. QED BY <1>1, <1>2, <1>3 DEF HealthNext

LEMMA NextIInv == IInv /\ [Next]_vars => IInv'
<1> SUFFICES ASSUME IInv, [Next]_vars PROVE IInv'
  OBVIOUS
<1>1. CASE UNCHANGED vars
  BY <1>1 DEF vars, hubVars, reconcileVars, checkVars, IInv, TypeOK, CheckInv,
              FinalizerInv, CacheInv, LeftoverInv
<1>2. QED BY <1>1, EnvIInv, ReconcileIInv, HealthIInv DEF Next

LEMMA IInvAlways == Spec => []IInv
BY InitIInv, NextIInv, PTL DEF Spec

-----------------------------------------------------------------------------
\* Type correctness: among others, a health check only ever writes objects that
\* are DynamicScorers (startPeriodicHealthCheck), and a config that is being
\* deleted has its finalizer (Reconcile).
THEOREM TypeCorrect == Spec => []TypeOK
<1>1. IInv => TypeOK
  BY DEF IInv
<1>2. QED BY <1>1, IInvAlways, PTL

\* A deleted config leaves no ManifestWork behind but the overlooked ones, for
\* any number of clusters, scorers, masks, edits and failures, however late the
\* cache is, and wherever in a reconcile the deletion or a cluster that joins or
\* leaves falls (Reconcile and deleteConfigManifestWork).
THEOREM DeletedConfigLeavesNoWorksAlways == Spec => []DeletedConfigLeavesNoWorks
<1>1. IInv => DeletedConfigLeavesNoWorks
  BY DEF IInv, FinalizerInv, LeftoverInv, DeletedConfigLeavesNoWorks
<1>2. QED BY <1>1, IInvAlways, PTL

\* What the health check reads from an API reaches a scorer only if its spec
\* is still the one that named the API, whatever users edit between the list
\* and the status update (startPeriodicHealthCheck, syncScoringConfig).
THEOREM SyncedFromOwnApiAlways == Spec => SyncedFromOwnApi
<1> DEFINE Own(s) ==
      /\ scorers[s] # NoScorer /\ scorers'[s] # NoScorer
      /\ scorers'[s].synced # scorers[s].synced
      => /\ asked = s /\ listed[s].spec = scorers[s].spec
         /\ scorers[s].spec.mode = "Full"
<1>1. ASSUME IInv, Next, NEW s \in Scorers PROVE Own(s)
  <2>1. CASE scorers' = scorers
    BY <2>1
  <2>2. CASE WriteStatus /\ scorers' # scorers
    <3>1. /\ asked \in Scorers /\ listed[asked] \in Scorer
          /\ scorers[asked] = listed[asked]
          /\ scorers \in [Scorers -> Scorer \cup {NoScorer}]
      BY <1>1, <2>2, WriteIsCurrent DEF IInv, TypeOK
    <3>2. scorers' = [scorers EXCEPT
            ![asked] = [listed[asked] EXCEPT
                          !.synced = Checked(listed[asked]).synced,
                          !.health = Checked(listed[asked]).health]]
      BY <1>1, <2>2, WriteIsCurrent
    <3>3. answer \in Answers
      BY <1>1, <2>2 DEF WriteStatus, IInv, CheckInv
    <3>4. CASE s # asked
      <4>1. scorers'[s] = scorers[s]
        BY <3>1, <3>2, <3>4
      <4>2. QED BY <4>1
    <3>5. CASE s = asked
      <4>1. scorers'[s].synced = Checked(listed[s]).synced
        BY <3>1, <3>2, <3>5 DEF Scorer
      <4>2. Checked(listed[s]).synced # listed[s].synced
              => listed[s].spec.mode = "Full"
        BY <3>1, <3>3, <3>5, CheckedScorer
      <4>3. QED BY <3>1, <3>5, <4>1, <4>2
    <3>6. QED BY <3>4, <3>5
  <2>3. ASSUME NEW t \in Scorers, EditScorer(t) PROVE Own(s)
    <3>1. scorers \in [Scorers -> Scorer \cup {NoScorer}]
      BY <1>1 DEF IInv, TypeOK
    <3>2. scorers[s] # NoScorer /\ scorers'[s] # NoScorer
            => scorers'[s].synced = scorers[s].synced
      BY <2>3, <3>1 DEF EditScorer, Scorer
    <3>3. QED BY <3>2
  <2>4. WriteStatus \/ scorers' = scorers \/ \E t \in Scorers : EditScorer(t)
    <3>1. EnvNext => scorers' = scorers \/ \E t \in Scorers : EditScorer(t)
      BY DEF EnvNext, ChangeApi, CreateConfig, EditMasks, DeleteConfig, Resync,
             JoinOrLeave, ObserveWork, hubVars
    <3>2. ReconcileNext => scorers' = scorers
      BY DEF ReconcileNext, ReconcileStart, ReconcileList, ReconcileDone,
             RemoveFinalizer, ApplyWork, DeleteWork, hubVars
    <3>3. HealthNext => WriteStatus \/ scorers' = scorers
      BY DEF HealthNext, HealthTick, AskApi, hubVars
    <3>4. QED BY <1>1, <3>1, <3>2, <3>3 DEF Next
  <2>5. QED BY <2>1, <2>2, <2>3, <2>4
<1>2. ASSUME UNCHANGED vars, NEW s \in Scorers PROVE Own(s)
  BY <1>2 DEF vars, hubVars
<1>3. IInv /\ [Next]_vars => [\A s \in Scorers : Own(s)]_vars
  BY <1>1, <1>2
<1>4. QED BY <1>3, IInvAlways, PTL DEF Spec, SyncedFromOwnApi

-----------------------------------------------------------------------------
(***************************************************************************)
(* No work is stale: the part of WorksConverge that is a safety property.  *)
(***************************************************************************)
UpToDateWork(c) == works[c] = Summaries(scorers, masks[c])

\* Whenever the reconciler has nothing to do, a work is what the scorers and the
\* masks ask for, unless its last reconcile overlooked it: every edit of either
\* that a reconcile misses has queued the config again.
NoStaleWorks ==
  config = "present" /\ ~queued /\ pc = "idle" =>
    \A c \in Clusters \ overlooked : works[c] # NoWork => UpToDateWork(c)

\* While the config is not queued again, what a reconcile has read is current,
\* and the works that it is done with are up to date.
SnapshotInv ==
  config = "present" /\ ~queued =>
    /\ pc \in {"list", "apply"} => snapshot.masks = masks
    /\ pc = "apply" => snapshot.scorers = scorers
    /\ pc \in {"idle", "apply"} =>
         \A c \in Clusters \ overlooked :
           works[c] # NoWork /\ (pc = "apply" => c \notin todo)
             => UpToDateWork(c)

LEMMA SnapshotUnchanged ==
  ASSUME SnapshotInv,
         UNCHANGED <<config, queued, pc, snapshot, masks, scorers, works,
                     overlooked, todo>>
  PROVE  SnapshotInv'
BY DEF SnapshotInv, UpToDateWork

LEMMA EnvSnapshot == ASSUME IInv, SnapshotInv, EnvNext PROVE SnapshotInv'
<1>1. CASE ChangeApi
  BY <1>1, SnapshotUnchanged DEF ChangeApi, hubVars, reconcileVars
<1>2. ASSUME NEW c \in Clusters, JoinOrLeave(c) PROVE SnapshotInv'
  <2>1. /\ UNCHANGED <<config, queued, pc, snapshot, masks, scorers, todo,
                       overlooked>>
        /\ works' = works \/ works' = [works EXCEPT ![c] = NoWork]
    BY <1>2 DEF JoinOrLeave, reconcileVars, Store
  <2>2. \A d \in Clusters : works'[d] # NoWork => works'[d] = works[d]
    BY <2>1 DEF IInv, TypeOK
  <2>3. QED BY <2>1, <2>2 DEF SnapshotInv, UpToDateWork
<1>3. CASE CreateConfig \/ EditMasks \/ DeleteConfig \/ Resync
  BY <1>3 DEF CreateConfig, EditMasks, DeleteConfig, Resync, SnapshotInv
<1>4. ASSUME NEW s \in Scorers, EditScorer(s) PROVE SnapshotInv'
  BY <1>4 DEF EditScorer, SnapshotInv
<1>5. ASSUME NEW c \in Clusters, ObserveWork(c) PROVE SnapshotInv'
  BY <1>5, SnapshotUnchanged DEF ObserveWork, reconcileVars
<1>6. QED BY <1>1, <1>2, <1>3, <1>4, <1>5 DEF EnvNext

LEMMA ReconcileSnapshot ==
  ASSUME IInv, SnapshotInv, ReconcileNext PROVE SnapshotInv'
<1> USE DEF IInv
<1>1. CASE queued'
  BY <1>1 DEF SnapshotInv
<1>2. CASE ReconcileStart /\ ~queued'
  <2>1. \/ config = "absent" /\ UNCHANGED config
        \/ config = "deleting" /\ UNCHANGED config
        \/ /\ pc' = "list" /\ snapshot' = [masks |-> masks]
           /\ UNCHANGED masks
    BY <1>2 DEF ReconcileStart, Retry, TypeOK
  <2>2. QED BY <2>1 DEF SnapshotInv
<1>3. CASE ReconcileList /\ ~queued'
  <2>1. /\ pc = "list" /\ pc' = "apply" /\ todo' = clusters
        /\ snapshot' = [masks |-> snapshot.masks, scorers |-> scorers]
        /\ UNCHANGED <<config, queued, masks, scorers, works, overlooked>>
    BY <1>3 DEF ReconcileList, Retry, hubVars
  <2>2. QED BY <2>1 DEF SnapshotInv, LeftoverInv
<1>4. ASSUME NEW c \in Clusters, ApplyWork(c), ~queued'
      PROVE  SnapshotInv'
  <2> DEFINE new == Summaries(snapshot.scorers, snapshot.masks[c])
  <2>1. /\ pc = "apply" /\ c \in todo /\ todo' = todo \ {c}
        /\ UNCHANGED <<config, queued, pc, snapshot, masks, scorers>>
        /\ \/ works[c] = new /\ overlooked' = overlooked \ {c} /\ works' = works
           \/ overlooked' = overlooked \cup {c} /\ works' = works
           \/ works' = [works EXCEPT ![c] = new] /\ overlooked' = overlooked \ {c}
    BY <1>4 DEF ApplyWork, Retry, SameSummaries, LeaveWork, CacheInv, Store
  <2>2. /\ c \in overlooked' \/ works'[c] = new
        /\ \A d \in Clusters : d # c =>
             works'[d] = works[d] /\ (d \in overlooked => d \in overlooked')
    BY <2>1 DEF TypeOK
  <2>3. SUFFICES ASSUME config = "present", ~queued
                 PROVE  \A d \in Clusters \ overlooked' :
                          works'[d] # NoWork /\ d \notin todo'
                            => works'[d] = Summaries(scorers, masks[d])
    BY <2>1 DEF SnapshotInv, UpToDateWork
  <2>4. snapshot.masks = masks /\ snapshot.scorers = scorers
    BY <2>1, <2>3 DEF SnapshotInv
  <2>5. new = Summaries(scorers, masks[c])
    BY <2>4
  <2> HIDE DEF new
  <2>6. ASSUME NEW d \in Clusters \ overlooked', works'[d] # NoWork,
               d \notin todo', d # c
        PROVE  works'[d] = Summaries(scorers, masks[d])
    BY <2>1, <2>2, <2>3, <2>6 DEF SnapshotInv, UpToDateWork
  <2>7. QED BY <2>2, <2>5, <2>6
<1>5. CASE ReconcileDone
  BY <1>5 DEF ReconcileDone, hubVars, SnapshotInv, UpToDateWork
<1>6. ASSUME NEW c \in Clusters, DeleteWork(c) PROVE SnapshotInv'
  BY <1>6 DEF DeleteWork, FinalizerInv, SnapshotInv
<1>7. CASE RemoveFinalizer /\ ~queued'
  BY <1>7 DEF RemoveFinalizer, Retry, SnapshotInv
<1>8. QED
  BY <1>1, <1>2, <1>3, <1>4, <1>5, <1>6, <1>7 DEF ReconcileNext

LEMMA HealthSnapshot == ASSUME IInv, SnapshotInv, HealthNext PROVE SnapshotInv'
<1>1. CASE HealthTick \/ \E s \in Scorers : AskApi(s)
  BY <1>1, SnapshotUnchanged DEF HealthTick, AskApi, hubVars, reconcileVars
<1>2. CASE WriteStatus
  <2>1. UNCHANGED <<config, masks, works, overlooked, pc, todo, snapshot>>
    BY <1>2 DEF WriteStatus, workVars, reconcileVars
  <2>2. queued' = TRUE \/ UNCHANGED <<scorers, queued>>
    BY <1>2 DEF WriteStatus
  <2>3. CASE queued' = TRUE
    BY <2>3 DEF SnapshotInv
  <2>4. QED BY <2>1, <2>2, <2>3, SnapshotUnchanged
<1>3. QED BY <1>1, <1>2 DEF HealthNext

\* A cluster's scorer summaries are never left behind by an edit of a scorer or
\* of the masks, wherever in a reconcile or a health check it falls; only the
\* overlooked ones are (Reconcile, updateConfigManifestWork).  A cluster that
\* joined since has no work yet.
THEOREM NoStaleWorksAlways == Spec => []NoStaleWorks
<1>1. Init => SnapshotInv
  BY DEF Init, SnapshotInv
<1>2. IInv /\ SnapshotInv /\ [Next]_vars => SnapshotInv'
  <2>1. ASSUME SnapshotInv, UNCHANGED vars PROVE SnapshotInv'
    BY <2>1, SnapshotUnchanged DEF vars, hubVars, reconcileVars
  <2>2. QED
    BY <2>1, EnvSnapshot, ReconcileSnapshot, HealthSnapshot DEF Next
<1>3. SnapshotInv => NoStaleWorks
  BY DEF SnapshotInv, NoStaleWorks
<1>4. QED BY <1>1, <1>2, <1>3, IInvAlways, PTL DEF Spec

=============================================================================
