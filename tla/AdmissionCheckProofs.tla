------------------------ MODULE AdmissionCheckProofs ------------------------
(***************************************************************************)
(* Proofs about AdmissionCheck, for every value of its constants.          *)
(***************************************************************************)
EXTENDS AdmissionCheck, TLAPS

\* The lister has the current object of every check that is not behind.
CacheInv == \A a \in Checks : a \notin behind => cache[a] = checks[a]

\* As long as its copy is not outdated, sync works on the current object.
CopyInv ==
  pc # "idle" /\ ~outdated => checks[current] = snap /\ current \notin behind

\* sync is to report Active only with the config written.
ActiveInv ==
  pc = "status" /\ verdict = "Active" => config[snap.placement] # NoConfig

IInv == TypeOK /\ CacheInv /\ CopyInv /\ ActiveInv

-----------------------------------------------------------------------------
(***************************************************************************)
(* Type correctness, and what sync knows of the object it works on.        *)
(***************************************************************************)
LEMMA InitIInv == Init => IInv
<1> SUFFICES ASSUME Init PROVE IInv
  OBVIOUS
<1>1. /\ checks \in [Checks -> Check \cup {NoCheck}] /\ cache = checks
      /\ decisions \in [Placements -> (SUBSET Clusters) \cup {NoPlacement}]
      /\ config \in [Placements -> ((SUBSET Clusters) \ {{}}) \cup {NoConfig}]
      /\ seen = decisions /\ behind = {} /\ queue = {} /\ want = {}
  BY DEF Init
<1>2. /\ pc = "idle" /\ current = NoCheck /\ snap = NoCheck
      /\ verdict = "" /\ outdated = FALSE
  BY DEF Init
<1>3. TypeOK
  <2>1. edits \in 0..MaxEdits /\ failures \in 0..MaxFailures
    <3>1. edits = 0 /\ failures = 0
      BY DEF Init
    <3>2. QED BY <3>1, BoundsAssumption
  <2>2. cache \in [Checks -> Check \cup {NoCheck}] /\ seen \in
          [Placements -> (SUBSET Clusters) \cup {NoPlacement}]
    BY <1>1
  <2>3. outdated \in BOOLEAN
    BY <1>2
  <2>4. QED BY <1>1, <1>2, <2>1, <2>2, <2>3 DEF TypeOK, Reasons
<1>4. QED
  BY <1>1, <1>2, <1>3 DEF IInv, CacheInv, CopyInv, ActiveInv

LEMMA EditCheckIInv ==
  ASSUME IInv, NEW a \in Checks, EditCheck(a)
  PROVE  IInv'
<1>1. PICK new \in Check \cup {NoCheck} : Store(a, new)
  <2>1. CASE checks[a] = NoCheck
    <3>1. PICK p \in Placements :
            Store(a, [placement |-> p, deleting |-> FALSE,
                      finalizer |-> FALSE, reason |-> ""])
      BY <2>1 DEF EditCheck
    <3>2. QED BY <3>1 DEF Check, Reasons
  <2>2. CASE checks[a] # NoCheck
    <3>1. checks[a] \in Check
      BY <2>2 DEF IInv, TypeOK
    <3>2. CASE \E p \in Placements :
                 Store(a, [checks[a] EXCEPT !.placement = p])
      BY <3>1, <3>2 DEF Check
    <3>3. CASE Store(a, IF checks[a].finalizer
                        THEN [checks[a] EXCEPT !.deleting = TRUE]
                        ELSE NoCheck)
      BY <3>1, <3>3 DEF Check
    <3>4. QED BY <2>2, <3>2, <3>3 DEF EditCheck
  <2>3. QED BY <2>1, <2>2
<1>2. edits' \in 0..MaxEdits
  <2>1. Edit
    BY DEF EditCheck
  <2>2. QED
    BY <2>1, BoundsAssumption DEF BoundsAssumption, Edit, IInv, TypeOK
<1>3. TypeOK'
  <2>1. checks' \in [Checks -> Check \cup {NoCheck}] /\ behind' \subseteq Checks
    BY <1>1 DEF Store, IInv, TypeOK
  <2>2. outdated' \in BOOLEAN
    BY DEF EditCheck
  <2>3. QED BY <1>2, <2>1, <2>2 DEF EditCheck, IInv, TypeOK
<1>4. CacheInv' /\ CopyInv' /\ ActiveInv'
  BY <1>1 DEF EditCheck, Store, IInv, TypeOK, CacheInv, CopyInv, ActiveInv
<1>5. QED BY <1>3, <1>4 DEF IInv

\* The other steps of the environment leave the checks and sync alone.
LEMMA EnvIInv ==
  ASSUME IInv,
         \/ \E a \in Checks : ObserveCheck(a)
         \/ \E p \in Placements : EditPlacement(p) \/ ObservePlacement(p)
  PROVE  IInv'
<1>1. ASSUME NEW a \in Checks, ObserveCheck(a) PROVE IInv'
  BY <1>1 DEF ObserveCheck, IInv, TypeOK, CacheInv, CopyInv, ActiveInv,
     objects, syncVars
<1>2. ASSUME NEW p \in Placements, EditPlacement(p) PROVE IInv'
  <2>1. edits' \in 0..MaxEdits
    BY <1>2, BoundsAssumption DEF EditPlacement, Edit, IInv, TypeOK
  <2>2. QED
    BY <1>2, <2>1 DEF EditPlacement, IInv, TypeOK, CacheInv, CopyInv,
       ActiveInv, caches, syncVars
<1>3. ASSUME NEW p \in Placements, ObservePlacement(p) PROVE IInv'
  BY <1>3 DEF ObservePlacement, Indexed, IInv, TypeOK, CacheInv, CopyInv,
     ActiveInv, objects, syncVars
<1>4. QED BY <1>1, <1>2, <1>3

LEMMA BeginIInv ==
  ASSUME IInv, NEW a \in Checks, Begin(a)
  PROVE  IInv'
<1>1. queue' \subseteq Checks /\ UNCHANGED <<objects, caches, edits, failures>>
  BY DEF Begin, IInv, TypeOK
<1>2. CASE cache[a] = NoCheck \/ (cache[a].deleting /\ ~cache[a].finalizer)
  BY <1>1, <1>2 DEF Begin, IInv, TypeOK, CacheInv, CopyInv, ActiveInv, objects,
     caches, syncVars
<1>3. CASE ~(cache[a] = NoCheck \/ (cache[a].deleting /\ ~cache[a].finalizer))
  <2>1. cache[a] \in Check /\ cache[a].placement \in Placements
    BY <1>3 DEF IInv, TypeOK, Check
  <2>2. /\ current' = a /\ snap' = cache[a]
        /\ outdated' = (a \in behind)
        /\ pc' = FirstStep(cache[a])
        /\ want' = IF pc' = "write" THEN seen[cache[a].placement] ELSE {}
        /\ verdict' = IF pc' = "status" THEN "NotFound" ELSE ""
    BY <1>3 DEF Begin
  <2>3. pc' \in {"cleanup", "finalizer", "status", "delete", "write"}
    BY <2>2 DEF FirstStep
  <2>4. want' \subseteq Clusters /\ (pc' = "write" => want' # {})
    BY <2>1, <2>2 DEF FirstStep, IInv, TypeOK
  <2>5. verdict' \in {"NotFound", ""}
    BY <2>2
  <2>6. TypeOK'
    <3>1. outdated' \in BOOLEAN
      <4>1. outdated' = (a \in behind)
        BY <2>2
      <4>2. (a \in behind) \in BOOLEAN
        OBVIOUS
      <4>3. QED BY ONLY <4>1, <4>2
    <3>2. current' # NoCheck /\ snap' # NoCheck
      BY <2>1, <2>2, SentinelAssumption DEF SentinelAssumption
    <3>3. QED
      BY <1>1, <2>1, <2>2, <2>3, <2>4, <2>5, <3>1, <3>2
      DEF IInv, TypeOK, objects, caches, Reasons
  <2>7. CacheInv' /\ CopyInv' /\ ActiveInv'
    BY <1>1, <2>2, <2>5 DEF IInv, CacheInv, CopyInv, ActiveInv, objects, caches
  <2>8. QED BY <2>6, <2>7 DEF IInv
<1>4. QED BY <1>2, <1>3

-----------------------------------------------------------------------------
(***************************************************************************)
(* The steps of sync.  Those that end it store at most a new version of the*)
(* current check.                                                          *)
(***************************************************************************)
Ends(new) ==
  /\ \/ Store(current, new) /\ new \in Check \cup {NoCheck}
     \/ UNCHANGED <<checks, behind>>
  /\ \E again \in BOOLEAN : Finish(again)
  /\ failures' \in 0..MaxFailures
  /\ UNCHANGED <<decisions, config, cache, seen, edits>>

LEMMA EndsIInv ==
  ASSUME IInv, pc # "idle", NEW new, Ends(new)
  PROVE  IInv'
<1>1. current \in Checks
  BY DEF IInv, TypeOK
<1>2. TypeOK'
  <2>1. checks' \in [Checks -> Check \cup {NoCheck}] /\ behind' \subseteq Checks
    BY <1>1 DEF Ends, Store, IInv, TypeOK
  <2>2. queue' \subseteq Checks
    BY <1>1 DEF Ends, Finish, Requeued, IInv, TypeOK
  <2>3. QED
    BY <2>1, <2>2 DEF Ends, Finish, IInv, TypeOK, Reasons
<1>3. CacheInv' /\ CopyInv' /\ ActiveInv'
  BY <1>1 DEF Ends, Store, Finish, IInv, TypeOK, CacheInv, CopyInv, ActiveInv
<1>4. QED BY <1>2, <1>3 DEF IInv

LEMMA StepEnds ==
  ASSUME IInv, AddFinalizer \/ PatchStatus \/ RemoveFinalizer
  PROVE  pc # "idle" /\ \E new : Ends(new)
<1>1. Failure => failures' \in 0..MaxFailures
  BY BoundsAssumption DEF BoundsAssumption, Failure, IInv, TypeOK
<1>2. pc # "idle" /\ snap \in Check
  BY DEF AddFinalizer, PatchStatus, RemoveFinalizer, IInv, TypeOK
<1>3. failures \in 0..MaxFailures /\ verdict \in Reasons
  BY DEF IInv, TypeOK
<1>4. ~outdated => checks[current] \in Check
  BY <1>2 DEF IInv, CopyInv
<1>5. CASE AddFinalizer
  <2>1. ~outdated => [checks[current] EXCEPT !.finalizer = TRUE] \in Check
    BY <1>4 DEF Check
  <2>2. Ends([checks[current] EXCEPT !.finalizer = TRUE])
    BY <1>1, <1>3, <1>5, <2>1 DEF AddFinalizer, Ends
  <2>3. QED BY <1>2, <2>2
<1>6. CASE PatchStatus
  <2>1. ~outdated => [checks[current] EXCEPT !.reason = verdict] \in Check
    BY <1>3, <1>4 DEF Check
  <2>2. Failed \in BOOLEAN
    BY DEF Failed
  <2>3. Ends([checks[current] EXCEPT !.reason = verdict])
    BY <1>1, <1>3, <1>6, <2>1, <2>2 DEF PatchStatus, Refused, Ends
  <2>4. QED BY <1>2, <2>3
<1>7. CASE RemoveFinalizer
  <2>1. Ends(NoCheck)
    BY <1>1, <1>3, <1>7 DEF RemoveFinalizer, Ends
  <2>2. QED BY <1>2, <2>1
<1>8. QED BY <1>5, <1>6, <1>7

\* The steps that write or delete the config.
LEMMA ConfigIInv ==
  ASSUME IInv, WriteConfig \/ DeleteConfig \/ Cleanup
  PROVE  IInv'
<1>1. Failure => failures' \in 0..MaxFailures
  BY BoundsAssumption DEF BoundsAssumption, Failure, IInv, TypeOK
<1>2. snap \in Check /\ snap.placement \in Placements
  BY DEF WriteConfig, DeleteConfig, Cleanup, IInv, TypeOK, Check
<1>3. CASE WriteConfig
  <2>1. want \in (SUBSET Clusters) \ {{}}
    BY <1>3 DEF WriteConfig, IInv, TypeOK
  <2>2. want # NoConfig
    BY <2>1, SentinelAssumption DEF SentinelAssumption
  <2>3. config' \in [Placements -> ((SUBSET Clusters) \ {{}}) \cup {NoConfig}]
    BY <1>3, <2>1 DEF WriteConfig, IInv, TypeOK
  <2>4. pc' = "status" /\ verdict' \in {"Active", "Error"}
    BY <1>3 DEF WriteConfig, ToStatus
  <2>5. failures' \in 0..MaxFailures
    BY <1>1, <1>3 DEF WriteConfig, IInv, TypeOK
  <2>6. UNCHANGED <<checks, decisions, caches, queue, current, snap, want,
                    outdated, edits>>
    BY <1>3 DEF WriteConfig, ToStatus
  <2>7. TypeOK'
    BY <1>3, <2>3, <2>4, <2>5, <2>6 DEF WriteConfig, IInv, TypeOK, caches,
       Reasons
  <2>8. ActiveInv'
    BY <1>2, <1>3, <2>2 DEF WriteConfig, ToStatus, ActiveInv, IInv, TypeOK
  <2>9. QED
    BY <1>3, <2>6, <2>7, <2>8
    DEF WriteConfig, IInv, CacheInv, CopyInv, caches
<1>4. CASE DeleteConfig
  BY <1>1, <1>2, <1>4
  DEF DeleteConfig, ToStatus, IInv, TypeOK, CacheInv, CopyInv, ActiveInv,
      caches, Reasons
<1>5. CASE Cleanup
  BY <1>1, <1>2, <1>5
  DEF Cleanup, IInv, TypeOK, CacheInv, CopyInv, ActiveInv, caches
<1>6. QED BY <1>3, <1>4, <1>5

LEMMA NextIInv == IInv /\ [Next]_vars => IInv'
<1> SUFFICES ASSUME IInv, [Next]_vars PROVE IInv'
  OBVIOUS
<1>1. ASSUME NEW a \in Checks, EditCheck(a) PROVE IInv'
  BY <1>1, EditCheckIInv
<1>2. CASE \/ \E a \in Checks : ObserveCheck(a)
           \/ \E p \in Placements : EditPlacement(p) \/ ObservePlacement(p)
  BY <1>2, EnvIInv
<1>3. ASSUME NEW a \in Checks, Begin(a) PROVE IInv'
  BY <1>3, BeginIInv
<1>4. CASE AddFinalizer \/ PatchStatus \/ RemoveFinalizer
  BY <1>4, StepEnds, EndsIInv
<1>5. CASE WriteConfig \/ DeleteConfig \/ Cleanup
  BY <1>5, ConfigIInv
<1>6. CASE UNCHANGED vars
  BY <1>6 DEF IInv, TypeOK, CacheInv, CopyInv, ActiveInv, vars, objects,
     caches, syncVars
<1>7. QED
  BY <1>1, <1>2, <1>3, <1>4, <1>5, <1>6 DEF Next, EnvNext, Step

\* Every variable keeps its type.
THEOREM TypeCorrect == Spec => []TypeOK
<1>1. IInv => TypeOK
  BY DEF IInv
<1>2. QED BY InitIInv, NextIInv, <1>1, PTL DEF Spec

-----------------------------------------------------------------------------
(***************************************************************************)
(* A check turns Active only with its config.                              *)
(***************************************************************************)
\* A check turns Active only when the placement that it names now has its
\* MultiKueueConfig, though it may have been pointed elsewhere since the sync
\* read it.
ActiveOnlyWithConfig ==
  [][\A a \in Checks :
       /\ checks[a] # NoCheck /\ checks'[a] # NoCheck
       /\ checks[a].reason # "Active" /\ checks'[a].reason = "Active"
       => config[checks'[a].placement] # NoConfig]_vars

LEMMA ActiveStep ==
  ASSUME IInv, [Next]_vars, NEW a \in Checks,
         checks[a] # NoCheck, checks'[a] # NoCheck,
         checks[a].reason # "Active", checks'[a].reason = "Active"
  PROVE  config[checks'[a].placement] # NoConfig
<1>1. checks[a] \in Check
  BY DEF IInv, TypeOK
<1>2. checks' # checks
  OBVIOUS
<1>3. CASE \E b \in Checks : EditCheck(b)
  <2>1. PICK b \in Checks : EditCheck(b)
    BY <1>3
  <2>2. b = a
    BY <2>1 DEF EditCheck, Store, IInv, TypeOK
  <2>3. \/ \E p \in Placements :
             checks'[a] = [checks[a] EXCEPT !.placement = p]
        \/ checks'[a] = [checks[a] EXCEPT !.deleting = TRUE]
    BY <2>1, <2>2 DEF EditCheck, Store, IInv, TypeOK
  <2>4. checks'[a].reason = checks[a].reason
    BY <1>1, <2>3 DEF Check
  <2>5. QED BY <2>4
<1>4. CASE AddFinalizer \/ PatchStatus \/ RemoveFinalizer
  <2>1. current \in Checks
    BY <1>4 DEF AddFinalizer, PatchStatus, RemoveFinalizer, IInv, TypeOK
  <2>2. ~outdated => checks[current] = snap
    BY <1>4 DEF AddFinalizer, PatchStatus, RemoveFinalizer, IInv, CopyInv
  <2>3. ~RemoveFinalizer
    BY <1>2, <2>1 DEF RemoveFinalizer, Store, IInv, TypeOK
  <2>4. ~AddFinalizer
    <3>1. SUFFICES ASSUME AddFinalizer PROVE FALSE
      OBVIOUS
    <3>2. Store(current, [checks[current] EXCEPT !.finalizer = TRUE])
      BY <1>2, <3>1 DEF AddFinalizer
    <3>3. a = current /\ checks'[a] = [checks[a] EXCEPT !.finalizer = TRUE]
      BY <2>1, <3>2 DEF Store, IInv, TypeOK
    <3>4. checks'[a].reason = checks[a].reason
      BY <1>1, <3>3 DEF Check
    <3>5. QED BY <3>4
  <2>5. PatchStatus
    BY <1>4, <2>3, <2>4
  <2>6. /\ pc = "status" /\ ~outdated
        /\ Store(current, [checks[current] EXCEPT !.reason = verdict])
    BY <1>2, <2>5 DEF PatchStatus, Refused
  <2>7. a = current /\ checks'[a] = [checks[a] EXCEPT !.reason = verdict]
    BY <2>1, <2>6 DEF Store, IInv, TypeOK
  <2>8. /\ checks'[a].reason = verdict
        /\ checks'[a].placement = checks[a].placement
    BY <1>1, <2>7 DEF Check
  <2>9. QED BY <2>2, <2>6, <2>7, <2>8 DEF IInv, ActiveInv
<1>5. CASE UNCHANGED checks
  BY <1>2, <1>5
<1>6. QED
  BY <1>3, <1>4, <1>5
  DEF Next, EnvNext, Step, vars, objects, ObserveCheck, EditPlacement,
      ObservePlacement, Begin, WriteConfig, DeleteConfig, Cleanup

\* A check never turns Active without the MultiKueueConfig of the placement
\* that it names, whatever users do while sync runs (controller.go:222).
THEOREM ActiveOnlyWithConfigAlways == Spec => ActiveOnlyWithConfig
<1>1. IInv /\ [Next]_vars =>
        [\A a \in Checks :
           /\ checks[a] # NoCheck /\ checks'[a] # NoCheck
           /\ checks[a].reason # "Active" /\ checks'[a].reason = "Active"
           => config[checks'[a].placement] # NoConfig]_vars
  BY ActiveStep
<1>2. QED BY InitIInv, NextIInv, <1>1, PTL DEF Spec, ActiveOnlyWithConfig

-----------------------------------------------------------------------------
(***************************************************************************)
(* The controller implements PublishedDecisions.                           *)
(***************************************************************************)

\* There is a verdict only in the state where it is reported, and what sync is to
\* write is kept until then.
HandInv ==
  /\ pc # "status" => verdict = ""
  /\ pc = "delete" => want = {}
  /\ verdict = "Active" => want # {}

LEMMA InitHand == Init => HandInv
BY DEF Init, HandInv

LEMMA NextHand == IInv /\ HandInv /\ [Next]_vars => HandInv'
<1> SUFFICES ASSUME IInv, HandInv, [Next]_vars PROVE HandInv'
  OBVIOUS
<1>1. ASSUME NEW a \in Checks, Begin(a) PROVE HandInv'
  BY <1>1 DEF Begin, FirstStep, HandInv, syncVars
<1>2. CASE AddFinalizer \/ PatchStatus \/ RemoveFinalizer
  BY <1>2 DEF AddFinalizer, PatchStatus, RemoveFinalizer, Finish, HandInv
<1>3. CASE WriteConfig \/ DeleteConfig \/ Cleanup
  BY <1>3 DEF WriteConfig, DeleteConfig, Cleanup, ToStatus, HandInv, IInv,
     TypeOK
<1>4. CASE UNCHANGED <<pc, want, verdict>>
  BY <1>4 DEF HandInv
<1>5. QED
  BY <1>1, <1>2, <1>3, <1>4
  DEF Next, EnvNext, Step, vars, syncVars, EditCheck, EditPlacement,
      ObserveCheck, ObservePlacement

\* What shows of one check that is stored.
LEMMA StoreShows ==
  ASSUME IInv, NEW a \in Checks, NEW new, Store(a, new)
  PROVE  /\ Named' = [Named EXCEPT ![a] = IF new = NoCheck THEN NoCheck
                                          ELSE new.placement]
         /\ ActiveChecks' = IF new # NoCheck /\ new.reason = "Active"
                            THEN ActiveChecks \cup {a} ELSE ActiveChecks \ {a}
<1>1. checks' = [checks EXCEPT ![a] = new] /\ DOMAIN checks = Checks
  BY DEF Store, IInv, TypeOK
<1>2. \A b \in Checks : checks'[b] = IF b = a THEN new ELSE checks[b]
  BY <1>1
<1>3. QED
  BY <1>2 DEF Named, ActiveChecks

LEMMA EditCheckPublished ==
  ASSUME IInv, NEW a \in Checks, EditCheck(a)
  PROVE  [Published!Next]_<<Named, ActiveChecks, decisions, seen, Hand, config>>
<1>1. UNCHANGED <<decisions, seen, Hand, config>>
  BY DEF EditCheck, Hand
<1>2. ASSUME checks[a] # NoCheck
      PROVE  checks[a] \in Check
  BY <1>2 DEF IInv, TypeOK
<1>3. CASE \E p \in Placements :
             /\ checks[a] = NoCheck
             /\ Store(a, [placement |-> p, deleting |-> FALSE,
                          finalizer |-> FALSE, reason |-> ""])
  <2>1. PICK p \in Placements :
               Store(a, [placement |-> p, deleting |-> FALSE,
                         finalizer |-> FALSE, reason |-> ""])
    BY <1>3
  <2> DEFINE new == [placement |-> p, deleting |-> FALSE,
                     finalizer |-> FALSE, reason |-> ""]
  <2>2. new \in Check /\ new # NoCheck
    <3>1. new \in Check
      BY DEF Check, Reasons
    <3> HIDE DEF new
    <3> QED
      BY <3>1, SentinelAssumption
  <2>3. new.placement = p /\ new.reason # "Active"
    OBVIOUS
  <2>4. Store(a, new)
    BY <2>1
  <2> HIDE DEF new
  <2>5. /\ Named' = [Named EXCEPT ![a] = p]
        /\ ActiveChecks' = ActiveChecks \ {a}
    BY <2>2, <2>3, <2>4, StoreShows
  <2>6. a \notin ActiveChecks
    BY <1>3 DEF ActiveChecks
  <2>7. Published!Point(a, p)
    BY <1>1, <2>5, <2>6 DEF Published!Point
  <2> QED
    BY <2>7 DEF Published!Next
<1>4. CASE \E p \in Placements :
             /\ checks[a] # NoCheck
             /\ Store(a, [checks[a] EXCEPT !.placement = p])
  <2>1. PICK p \in Placements : Store(a, [checks[a] EXCEPT !.placement = p])
    BY <1>4
  <2> DEFINE new == [checks[a] EXCEPT !.placement = p]
  <2>2. new \in Check /\ new.placement = p /\ new.reason = checks[a].reason
    BY <1>2, <1>4 DEF Check
  <2>3. new # NoCheck /\ Store(a, new)
    BY <2>1, <2>2, SentinelAssumption
  <2> HIDE DEF new
  <2>4. /\ Named' = [Named EXCEPT ![a] = p]
        /\ ActiveChecks' = IF checks[a].reason = "Active"
                           THEN ActiveChecks \cup {a} ELSE ActiveChecks \ {a}
    BY <2>2, <2>3, StoreShows
  <2>5. ActiveChecks' = ActiveChecks
    BY <1>4, <2>4 DEF ActiveChecks
  <2>6. Published!Point(a, p)
    BY <1>1, <2>4, <2>5 DEF Published!Point
  <2> QED
    BY <2>6 DEF Published!Next
<1>5. CASE /\ checks[a] # NoCheck
           /\ Store(a, IF checks[a].finalizer
                       THEN [checks[a] EXCEPT !.deleting = TRUE] ELSE NoCheck)
  <2>1. CASE checks[a].finalizer
    <3> DEFINE new == [checks[a] EXCEPT !.deleting = TRUE]
    <3>1. /\ new \in Check /\ new.placement = checks[a].placement
          /\ new.reason = checks[a].reason
      BY <1>2, <1>5 DEF Check
    <3>2. new # NoCheck /\ Store(a, new)
      BY <1>5, <2>1, <3>1, SentinelAssumption
    <3> HIDE DEF new
    <3>3. /\ Named' = [Named EXCEPT ![a] = checks[a].placement]
          /\ ActiveChecks' = IF checks[a].reason = "Active"
                             THEN ActiveChecks \cup {a}
                             ELSE ActiveChecks \ {a}
      BY <3>1, <3>2, StoreShows
    <3>4. Named' = Named /\ ActiveChecks' = ActiveChecks
      BY <1>5, <3>3 DEF Named, ActiveChecks
    <3> QED
      BY <1>1, <3>4
  <2>2. CASE ~checks[a].finalizer
    <3>1. Store(a, NoCheck)
      BY <1>5, <2>2
    <3>2. /\ Named' = [Named EXCEPT ![a] = NoCheck]
          /\ ActiveChecks' = ActiveChecks \ {a}
      BY <3>1, StoreShows
    <3>3. Published!Remove(a)
      BY <1>1, <3>2 DEF Published!Remove
    <3> QED
      BY <3>3 DEF Published!Next
  <2> QED
    BY <2>1, <2>2
<1> QED
  BY <1>3, <1>4, <1>5 DEF EditCheck

\* The steps of the informers and of the placement controller.
LEMMA EnvPublished ==
  ASSUME IInv,
         \/ \E a \in Checks : ObserveCheck(a)
         \/ \E p \in Placements : EditPlacement(p) \/ ObservePlacement(p)
  PROVE  [Published!Next]_<<Named, ActiveChecks, decisions, seen, Hand, config>>
<1>1. ASSUME UNCHANGED <<checks, syncVars>>
      PROVE  UNCHANGED <<Named, ActiveChecks, Hand>>
  BY <1>1 DEF Named, ActiveChecks, Hand, syncVars
<1>2. CASE \E a \in Checks : ObserveCheck(a)
  BY <1>1, <1>2 DEF ObserveCheck, objects
<1>3. ASSUME NEW p \in Placements, EditPlacement(p)
      PROVE  Published!Decide(p)
  BY <1>1, <1>3 DEF EditPlacement, caches, Published!Decide
<1>4. ASSUME NEW p \in Placements, ObservePlacement(p)
      PROVE  Published!Learn(p)
  BY <1>1, <1>4 DEF ObservePlacement, objects, Published!Learn
<1> QED
  BY <1>2, <1>3, <1>4 DEF Published!Next

\* A key that leads to a decision takes it, others do not show.
LEMMA BeginPublished ==
  ASSUME IInv, HandInv, NEW a \in Checks, Begin(a)
  PROVE  [Published!Next]_<<Named, ActiveChecks, decisions, seen, Hand, config>>
<1>1. UNCHANGED <<Named, ActiveChecks, decisions, seen, config>>
  BY DEF Begin, Named, ActiveChecks, objects, caches
<1>2. Hand = {}
  BY DEF Begin, HandInv, Hand
<1>3. CASE UNCHANGED syncVars
  BY <1>1, <1>3 DEF syncVars, Hand
<1>4. CASE ~UNCHANGED syncVars
  <2> DEFINE p == cache[a].placement
  <2>1. /\ cache[a] # NoCheck /\ snap' = cache[a]
        /\ pc' = FirstStep(cache[a])
        /\ want' = IF pc' = "write" THEN seen[p] ELSE {}
        /\ verdict' = IF pc' = "status" THEN "NotFound" ELSE ""
    BY <1>4 DEF Begin
  <2>2. p \in Placements
    BY <2>1 DEF IInv, TypeOK, Check
  <2>3. CASE pc' \in {"write", "delete"}
    <3>1. seen[p] # NoPlacement /\ want' = seen[p]
      BY <2>1, <2>3 DEF FirstStep
    <3>2. Hand' = {[placement |-> p, clusters |-> seen[p],
                    published |-> FALSE]}
      BY <2>1, <2>3, <3>1 DEF Hand
    <3>3. Published!Take(p)
      BY <1>1, <1>2, <3>1, <3>2 DEF Published!Take
    <3> QED
      BY <2>2, <3>3 DEF Published!Next
  <2>4. CASE pc' \notin {"write", "delete"}
    BY <1>1, <1>2, <2>1, <2>4 DEF Hand
  <2> QED
    BY <2>3, <2>4
<1> QED
  BY <1>3, <1>4

\* The steps that write or delete the config.
LEMMA ConfigPublished ==
  ASSUME IInv, HandInv, WriteConfig \/ DeleteConfig \/ Cleanup
  PROVE  [Published!Next]_<<Named, ActiveChecks, decisions, seen, Hand, config>>
<1>1. UNCHANGED <<Named, ActiveChecks, decisions, seen>>
  BY DEF WriteConfig, DeleteConfig, Cleanup, Named, ActiveChecks, caches
<1>2. snap.placement \in Placements /\ current \in Checks
  BY DEF WriteConfig, DeleteConfig, Cleanup, IInv, TypeOK, Check
<1>3. CASE WriteConfig \/ DeleteConfig
  <2> DEFINE h == [placement |-> snap.placement, clusters |-> want,
                   published |-> FALSE]
  <2>1. Hand = {h} /\ snap' = snap /\ want' = want /\ pc' = "status"
    BY <1>3 DEF WriteConfig, DeleteConfig, ToStatus, Hand
  <2>2. CASE verdict' = "Error"
    <3>1. config' = config /\ Hand' = {}
      BY <1>3, <2>1, <2>2 DEF WriteConfig, DeleteConfig, ToStatus, Hand
    <3>2. Published!Drop
      BY <1>1, <1>2, <3>1 DEF Published!Drop
    <3> QED
      BY <3>2 DEF Published!Next
  <2>3. CASE verdict' \in {"Active", "NoClusters"}
    <3>1. config' = [config EXCEPT ![snap.placement] =
                       IF want = {} THEN NoConfig ELSE want]
      BY <1>3, <2>3
      DEF WriteConfig, DeleteConfig, ToStatus, HandInv, IInv, TypeOK
    <3>2. Hand' = {[placement |-> snap.placement, clusters |-> want,
                    published |-> TRUE]}
      <4>1. (pc' = "status") = TRUE
        BY <2>1
      <4>2. Hand' = {[placement |-> snap.placement, clusters |-> want,
                      published |-> (pc' = "status")]}
        BY <2>1, <2>3 DEF Hand
      <4> QED
        BY ONLY <4>1, <4>2
    <3>3. ~h.published /\ h.placement = snap.placement /\ h.clusters = want
      OBVIOUS
    <3> HIDE DEF h
    <3>4. Published!Publish
      BY <1>1, <2>1, <3>1, <3>2, <3>3 DEF Published!Publish
    <3> QED
      BY <3>4 DEF Published!Next
  <2> QED
    BY <1>3, <2>2, <2>3 DEF WriteConfig, DeleteConfig, ToStatus
<1>4. CASE Cleanup
  <2>1. Hand = {} /\ Hand' = {}
    BY <1>4 DEF Cleanup, HandInv, Hand
  <2>2. CASE config' = [config EXCEPT ![snap.placement] = NoConfig]
    <3>1. Published!Withdraw(snap.placement)
      BY <1>1, <2>1, <2>2 DEF Published!Withdraw
    <3> QED
      BY <1>2, <3>1 DEF Published!Next
  <2>3. CASE config' = config
    BY <1>1, <2>1, <2>3
  <2> QED
    BY <1>4, <2>2, <2>3 DEF Cleanup
<1> QED
  BY <1>3, <1>4

\* The steps that end a sync.
LEMMA EndPublished ==
  ASSUME IInv, HandInv, AddFinalizer \/ PatchStatus \/ RemoveFinalizer
  PROVE  [Published!Next]_<<Named, ActiveChecks, decisions, seen, Hand, config>>
<1>1. /\ UNCHANGED <<decisions, seen, config>> /\ Hand' = {}
      /\ current \in Checks /\ pc # "idle"
  BY DEF AddFinalizer, PatchStatus, RemoveFinalizer, Finish, Hand, IInv, TypeOK
<1>2. ASSUME ~outdated
      PROVE  checks[current] = snap /\ snap \in Check /\ snap # NoCheck
  BY <1>1, <1>2 DEF IInv, CopyInv, TypeOK
<1>3. CASE UNCHANGED checks
  <2>1. Named' = Named /\ ActiveChecks' = ActiveChecks
    BY <1>3 DEF Named, ActiveChecks
  <2>2. Published!Drop
    BY <1>1, <2>1 DEF Published!Drop
  <2> QED
    BY <2>2 DEF Published!Next
<1>4. CASE AddFinalizer /\ checks' # checks
  <2> DEFINE new == [checks[current] EXCEPT !.finalizer = TRUE]
  <2>1. ~outdated /\ Store(current, new)
    BY <1>4 DEF AddFinalizer
  <2>2. /\ new \in Check /\ new.placement = checks[current].placement
        /\ new.reason = checks[current].reason
    BY <1>2, <2>1 DEF Check
  <2> HIDE DEF new
  <2>3. new # NoCheck
    BY <2>2, SentinelAssumption
  <2>4. /\ Named' = [Named EXCEPT ![current] = checks[current].placement]
        /\ ActiveChecks' = IF checks[current].reason = "Active"
                           THEN ActiveChecks \cup {current}
                           ELSE ActiveChecks \ {current}
    BY <1>1, <2>1, <2>2, <2>3, StoreShows
  <2>5. checks[current] # NoCheck
    BY <1>2, <2>1
  <2>6. Named' = Named /\ ActiveChecks' = ActiveChecks
    BY <1>1, <2>4, <2>5 DEF Named, ActiveChecks
  <2>7. Published!Drop
    BY <1>1, <2>6 DEF Published!Drop
  <2> QED
    BY <2>7 DEF Published!Next
<1>5. CASE PatchStatus /\ checks' # checks
  <2> DEFINE new == [checks[current] EXCEPT !.reason = verdict]
  <2>1. pc = "status" /\ ~outdated /\ Store(current, new)
    BY <1>5 DEF PatchStatus, Refused
  <2>2. /\ new \in Check /\ new.placement = checks[current].placement
        /\ new.reason = verdict
    BY <1>2, <2>1 DEF Check, IInv, TypeOK
  <2> HIDE DEF new
  <2>3. new # NoCheck
    BY <2>2, SentinelAssumption
  <2>4. /\ Named' = [Named EXCEPT ![current] = checks[current].placement]
        /\ ActiveChecks' = IF verdict = "Active"
                           THEN ActiveChecks \cup {current}
                           ELSE ActiveChecks \ {current}
    BY <1>1, <2>1, <2>2, <2>3, StoreShows
  <2>5. Named' = Named /\ Named[current] = snap.placement
    BY <1>1, <1>2, <2>1, <2>4 DEF Named
  <2>6. CASE verdict = "Active"
    <3> DEFINE h == [placement |-> snap.placement, clusters |-> want,
                     published |-> TRUE]
    <3>1. h \in Hand /\ want # {}
      BY <2>1, <2>6 DEF Hand, HandInv
    <3>2. h.published /\ h.clusters = want /\ h.placement = snap.placement
      OBVIOUS
    <3> HIDE DEF h
    <3>3. Published!Activate(current)
      BY <1>1, <2>4, <2>5, <2>6, <3>1, <3>2 DEF Published!Activate
    <3> QED
      BY <1>1, <3>3 DEF Published!Next
  <2>7. CASE verdict # "Active"
    <3>1. Published!Drop
      BY <1>1, <2>4, <2>5, <2>7 DEF Published!Drop
    <3> QED
      BY <3>1 DEF Published!Next
  <2> QED
    BY <2>6, <2>7
<1>6. CASE RemoveFinalizer /\ checks' # checks
  <2>1. pc = "release" /\ Store(current, NoCheck)
    BY <1>6 DEF RemoveFinalizer
  <2>2. Hand = {}
    BY <2>1 DEF HandInv, Hand
  <2>3. /\ Named' = [Named EXCEPT ![current] = NoCheck]
        /\ ActiveChecks' = ActiveChecks \ {current}
    BY <1>1, <2>1, StoreShows
  <2>4. Published!Remove(current)
    BY <1>1, <2>2, <2>3 DEF Published!Remove
  <2> QED
    BY <1>1, <2>4 DEF Published!Next
<1> QED
  BY <1>3, <1>4, <1>5, <1>6

LEMMA NextPublished ==
  ASSUME IInv, HandInv, [Next]_vars
  PROVE  [Published!Next]_<<Named, ActiveChecks, decisions, seen, Hand, config>>
<1>1. CASE UNCHANGED vars
  BY <1>1 DEF vars, objects, caches, syncVars, Named, ActiveChecks, Hand
<1> QED
  BY <1>1, EditCheckPublished, EnvPublished, BeginPublished, ConfigPublished,
     EndPublished
  DEF Next, EnvNext, Step

LEMMA InitPublished == Init => Published!Init
BY DEF Init, Published!Init, Named, ActiveChecks, Hand

\* For any checks, placements, clusters and edits, also when checks share a
\* placement: no config goes back to older decisions, and a check turns Active
\* only with the clusters that its sync has written for the placement that it
\* still names (sync, createOrUpdateMultiKueueConfig).
THEOREM PublishesDecisionsAlways == Spec => PublishesDecisions
<1>1. Init => IInv /\ HandInv
  BY InitIInv, InitHand
<1>2. IInv /\ HandInv /\ [Next]_vars => (IInv /\ HandInv)'
  BY NextIInv, NextHand
<1>3. IInv /\ HandInv /\ [Next]_vars =>
        [Published!Next]_<<Named, ActiveChecks, decisions, seen, Hand, config>>
  BY NextPublished
<1> QED
  BY <1>1, <1>2, <1>3, InitPublished, PTL
  DEF Spec, PublishesDecisions, Published!Spec

-----------------------------------------------------------------------------
(***************************************************************************)
(* No work is lost, if every placement belongs to one check.               *)
(***************************************************************************)
NamesApart ==
  \A a, b \in Checks, p \in Placements :
    <<a, p>> \in Names /\ <<b, p>> \in Names => a = b

\* What a check that some copy shows may look like.
Allowed(a, c) ==
  c # NoCheck => /\ <<a, c.placement>> \in Names
                 /\ c.deleting => c.finalizer

NamesInv ==
  /\ \A a \in Checks : Allowed(a, checks[a]) /\ Allowed(a, cache[a])
  /\ pc # "idle" => Allowed(current, snap)

\* The config of p and the reason r follow from the decisions sync has seen.
Agrees(p, r) ==
  \/ seen[p] = {} /\ config[p] = NoConfig /\ r = "NoClusters"
  \/ seen[p] # NoPlacement /\ config[p] = seen[p] /\ r = "Active"

\* What sync is about to do is what the decisions it has seen ask for.
Answer ==
  /\ pc \in {"write", "delete", "status"} => snap.finalizer /\ ~snap.deleting
  /\ pc = "write" =>
       want = seen[snap.placement] /\ seen[snap.placement] # NoPlacement
  /\ pc = "delete" => seen[snap.placement] = {}
  /\ pc = "status" => Failed \/ Agrees(snap.placement, verdict)

\* sync works on something that is current, or its key comes back.
SyncInv ==
  pc # "idle" =>
    /\ outdated => current \in queue \cup behind
    /\ ~outdated /\ current \notin queue => Answer

\* A check that the controller is not going to look at is settled.
Settled(a) ==
  checks[a] # NoCheck /\ a \notin queue \cup behind \cup {current} =>
    /\ checks[a].finalizer /\ ~checks[a].deleting
    /\ Agrees(checks[a].placement, checks[a].reason)

SettledInv == \A a \in Checks : Settled(a)

\* Between two syncs there is no current check.
IdleInv == pc = "idle" => current = NoCheck

WorkInv == IInv /\ IdleInv /\ NamesInv /\ SyncInv /\ SettledInv

LEMMA SettledMatches ==
  ASSUME WorkInv
  PROVE  NoLostWork
<1> SUFFICES ASSUME NEW a \in Checks, checks[a] # NoCheck, ~Pending(a)
             PROVE  Matches(a)
  BY DEF NoLostWork
<1>1. checks[a].placement \in Placements
  BY DEF WorkInv, IInv, TypeOK, Check
<1>2. /\ checks[a].finalizer /\ ~checks[a].deleting
      /\ Agrees(checks[a].placement, checks[a].reason)
  BY DEF WorkInv, SettledInv, Settled, Pending
<1>3. seen[checks[a].placement] = decisions[checks[a].placement]
  BY DEF Pending
<1>4. config[checks[a].placement] # {}
  BY <1>1, SentinelAssumption DEF SentinelAssumption, WorkInv, IInv, TypeOK
<1>5. {} # NoPlacement
  BY SentinelAssumption DEF SentinelAssumption
<1>6. QED BY <1>2, <1>3, <1>4, <1>5 DEF Matches, Agrees

-----------------------------------------------------------------------------
LEMMA InitWorkInv == Init => WorkInv
<1> SUFFICES ASSUME Init PROVE WorkInv
  OBVIOUS
<1>1. IInv
  BY InitIInv
<1>2. /\ \A a \in Checks : checks[a] = NoCheck /\ cache[a] = NoCheck
      /\ pc = "idle" /\ current = NoCheck
  BY DEF Init
<1>3. QED
  BY <1>1, <1>2
  DEF WorkInv, IdleInv, NamesInv, Allowed, SyncInv, SettledInv, Settled

LEMMA EditCheckWorkInv ==
  ASSUME WorkInv, NEW a \in Checks, EditCheck(a)
  PROVE  WorkInv'
<1>1. IInv'
  BY EditCheckIInv DEF WorkInv
<1>2. PICK new : Store(a, new) /\ Allowed(a, new)
  <2>1. CASE checks[a] = NoCheck
    <3>1. PICK p \in Placements :
            /\ <<a, p>> \in Names
            /\ Store(a, [placement |-> p, deleting |-> FALSE,
                         finalizer |-> FALSE, reason |-> ""])
      BY <2>1 DEF EditCheck
    <3> DEFINE c == [placement |-> p, deleting |-> FALSE,
                     finalizer |-> FALSE, reason |-> ""]
    <3>2. c.placement = p /\ ~c.deleting
      OBVIOUS
    <3>3. Allowed(a, c)
      BY <3>1, <3>2 DEF Allowed
    <3>4. QED BY <3>1, <3>3
  <2>2. CASE checks[a] # NoCheck
    <3>1. checks[a] \in Check /\ Allowed(a, checks[a])
      BY <2>2 DEF WorkInv, IInv, TypeOK, NamesInv
    <3>2. CASE \E p \in Placements : /\ <<a, p>> \in Names
                 /\ Store(a, [checks[a] EXCEPT !.placement = p])
      BY <2>2, <3>1, <3>2 DEF Check, Allowed
    <3>3. CASE Store(a, IF checks[a].finalizer
                        THEN [checks[a] EXCEPT !.deleting = TRUE]
                        ELSE NoCheck)
      BY <2>2, <3>1, <3>3 DEF Check, Allowed
    <3>4. QED BY <2>2, <3>2, <3>3 DEF EditCheck
  <2>3. QED BY <2>1, <2>2
<1>3. /\ checks' = [checks EXCEPT ![a] = new] /\ behind' = behind \cup {a}
      /\ checks \in [Checks -> Check \cup {NoCheck}]
  BY <1>2 DEF Store, WorkInv, IInv, TypeOK
<1>4. UNCHANGED <<decisions, config, cache, seen, queue, pc, current, snap,
                  want, verdict>>
  BY DEF EditCheck
<1>5. NamesInv' /\ IdleInv'
  BY <1>2, <1>3, <1>4 DEF WorkInv, NamesInv, Allowed, IdleInv
<1>6. SyncInv'
  <2>1. (outdated' => outdated \/ a = current) /\ (~outdated' => ~outdated)
    <3>1. outdated' = (outdated \/ a = current)
      BY DEF EditCheck
    <3>2. QED BY ONLY <3>1, Zenon
  <2>2. QED
    BY <1>3, <1>4, <2>1 DEF WorkInv, SyncInv, Answer, Failed, Agrees
<1>7. SettledInv'
  BY <1>3, <1>4 DEF WorkInv, SettledInv, Settled, Agrees
<1>8. QED BY <1>1, <1>5, <1>6, <1>7 DEF WorkInv

LEMMA EnvWorkInv ==
  ASSUME WorkInv,
         \/ \E a \in Checks : ObserveCheck(a)
         \/ \E p \in Placements : EditPlacement(p)
  PROVE  WorkInv'
<1>1. IInv'
  BY EnvIInv DEF WorkInv
<1>2. /\ UNCHANGED <<checks, config, seen, syncVars>>
      /\ queue \cup behind \subseteq queue' \cup behind'
      /\ queue \subseteq queue'
      /\ \A a \in Checks : cache'[a] \in {cache[a], checks[a]}
  BY DEF ObserveCheck, EditPlacement, objects, caches, WorkInv, IInv, TypeOK
<1>3. NamesInv' /\ IdleInv'
  BY <1>2 DEF WorkInv, NamesInv, Allowed, IdleInv, syncVars
<1>4. SyncInv'
  BY <1>2 DEF WorkInv, SyncInv, Answer, Failed, Agrees, syncVars
<1>5. SettledInv'
  BY <1>2 DEF WorkInv, SettledInv, Settled, Agrees, syncVars
<1>6. QED BY <1>1, <1>3, <1>4, <1>5 DEF WorkInv

\* A placement whose decisions change queues every check that names it and
\* whose copy is current.
LEMMA ObservePlacementWorkInv ==
  ASSUME WorkInv, NEW p \in Placements, ObservePlacement(p)
  PROVE  WorkInv'
<1>1. IInv'
  BY EnvIInv DEF WorkInv
<1>2. /\ queue' = queue \cup Indexed(p)
      /\ \A q \in Placements : q # p => seen'[q] = seen[q]
      /\ UNCHANGED <<checks, config, cache, behind, syncVars>>
  BY DEF ObservePlacement, objects, WorkInv, IInv, TypeOK
<1>3. NamesInv' /\ IdleInv'
  BY <1>2 DEF WorkInv, NamesInv, Allowed, IdleInv, syncVars
<1>4. ASSUME NEW a \in Checks, checks[a] # NoCheck, a \notin queue' \cup behind
      PROVE  seen'[checks[a].placement] = seen[checks[a].placement]
  <2>1. checks[a] = cache[a] /\ checks[a].placement \in Placements
    BY <1>4 DEF WorkInv, IInv, CacheInv, TypeOK, Check
  <2>2. QED BY <1>2, <1>4, <2>1 DEF Indexed
<1>5. SyncInv'
  <2>1. SUFFICES ASSUME pc # "idle", ~outdated, current \notin queue'
                 PROVE  Answer'
    BY <1>2 DEF WorkInv, SyncInv, syncVars
  <2>2. /\ current \in Checks /\ checks[current] = snap /\ snap # NoCheck
        /\ current \notin behind
    BY <2>1 DEF WorkInv, IInv, TypeOK, CopyInv
  <2>3. seen'[snap.placement] = seen[snap.placement]
    BY <1>4, <2>1, <2>2
  <2>4. Answer
    BY <1>2, <2>1 DEF WorkInv, SyncInv
  <2>5. QED BY <1>2, <2>3, <2>4 DEF Answer, Failed, Agrees, syncVars
<1>6. SettledInv'
  BY <1>2, <1>4 DEF WorkInv, SettledInv, Settled, Agrees, syncVars
<1>7. QED BY <1>1, <1>3, <1>5, <1>6 DEF WorkInv

LEMMA BeginWorkInv ==
  ASSUME WorkInv, NEW a \in Checks, Begin(a)
  PROVE  WorkInv'
<1>1. IInv'
  BY BeginIInv DEF WorkInv
<1>2. /\ queue' = queue \ {a} /\ pc = "idle" /\ current = NoCheck
      /\ UNCHANGED <<checks, config, cache, behind, seen>>
  BY DEF Begin, objects, caches, WorkInv, IdleInv
<1>3. CASE cache[a] = NoCheck
  <2>1. UNCHANGED syncVars
    BY <1>3 DEF Begin
  <2>2. a \notin behind => checks[a] = NoCheck
    BY <1>3 DEF WorkInv, IInv, CacheInv
  <2>3. QED
    BY <1>1, <1>2, <2>1, <2>2 DEF WorkInv, IdleInv, NamesInv, Allowed, SyncInv,
       SettledInv, Settled, Agrees, syncVars
<1>4. CASE cache[a] # NoCheck
  <2>1. ~(cache[a].deleting /\ ~cache[a].finalizer)
    BY <1>4 DEF WorkInv, NamesInv, Allowed
  <2>2. /\ current' = a /\ snap' = cache[a]
        /\ pc' = FirstStep(cache[a])
        /\ want' = IF pc' = "write" THEN seen[cache[a].placement] ELSE {}
        /\ verdict' = IF pc' = "status" THEN "NotFound" ELSE ""
    BY <1>4, <2>1 DEF Begin
  <2>3. pc' # "idle"
    BY <2>2 DEF FirstStep
  <2>4. outdated' => a \in behind
    BY <1>4, <2>1 DEF Begin
  <2>5. Answer'
    <3>1. /\ pc' \in {"write", "delete", "status"} =>
               snap'.finalizer /\ ~snap'.deleting
          /\ pc' = "write" => want' = seen'[snap'.placement]
                                /\ seen'[snap'.placement] # NoPlacement
          /\ pc' = "delete" => seen'[snap'.placement] = {}
      BY <1>2, <2>2 DEF FirstStep
    <3>2. pc' = "status" => Failed'
      BY <2>2 DEF Failed
    <3>3. QED BY <3>1, <3>2 DEF Answer
  <2>6. SyncInv'
    BY <1>2, <2>2, <2>4, <2>5 DEF SyncInv
  <2>7. NamesInv' /\ IdleInv'
    BY <1>2, <2>2, <2>3 DEF WorkInv, NamesInv, Allowed, IdleInv
  <2>8. SettledInv'
    BY <1>2, <2>2, SentinelAssumption
    DEF WorkInv, SettledInv, Settled, Agrees, SentinelAssumption
  <2>9. QED BY <1>1, <2>6, <2>7, <2>8 DEF WorkInv
<1>5. QED BY <1>3, <1>4

\* The end of a sync: the next version of the check is well named, and the
\* check is settled unless it stays queued or behind.
LEMMA EndsWorkInv ==
  ASSUME WorkInv, pc # "idle", NEW new, Ends(new),
         NEW c \in Checks, c = current,
         \/ Store(c, new) /\ Allowed(c, new)
         \/ UNCHANGED <<checks, behind>> /\ c \in queue'
         \/ UNCHANGED <<checks, behind>> /\ Settled(c)'
  PROVE  WorkInv'
<1>1. IInv'
  BY EndsIInv DEF WorkInv
<1>2. /\ current \in Checks /\ checks \in [Checks -> Check \cup {NoCheck}]
      /\ queue' \subseteq queue \cup {current} /\ queue \subseteq queue'
      /\ pc' = "idle" /\ current' = NoCheck
      /\ UNCHANGED <<config, cache, seen>>
  BY DEF WorkInv, IInv, TypeOK, Ends, Finish, Requeued
<1>3. NamesInv' /\ IdleInv' /\ SyncInv'
  BY <1>2 DEF WorkInv, NamesInv, Allowed, IdleInv, SyncInv, Store
<1>4. ASSUME NEW a \in Checks PROVE Settled(a)'
  <2>1. CASE a = c
    <3>1. CASE Store(c, new)
      BY <2>1, <3>1 DEF Store, Settled
    <3>2. CASE UNCHANGED <<checks, behind>> /\ c \in queue'
      BY <2>1, <3>2 DEF Settled
    <3>3. CASE Settled(c)'
      BY <2>1, <3>3
    <3>4. QED BY <3>1, <3>2, <3>3
  <2>2. CASE a # c
    <3>1. checks'[a] = checks[a] /\ behind \subseteq behind'
      BY <1>2, <2>2 DEF Store
    <3>2. QED
      BY <1>2, <2>2, <3>1 DEF WorkInv, SettledInv, Settled, Agrees
  <2>3. QED BY <2>1, <2>2
<1>5. QED BY <1>1, <1>3, <1>4 DEF WorkInv, SettledInv

\* The steps that end a sync leave the check settled, queued or behind.
LEMMA StepEndsWorkInv ==
  ASSUME WorkInv, AddFinalizer \/ PatchStatus \/ RemoveFinalizer
  PROVE  WorkInv'
<1>1. /\ IInv /\ pc # "idle" /\ current \in Checks
      /\ snap \in Check /\ Allowed(current, snap)
  BY DEF AddFinalizer, PatchStatus, RemoveFinalizer, WorkInv, NamesInv, IInv,
     TypeOK
<1>2. PICK c \in Checks : c = current
  BY <1>1
<1>3. Failure => failures' \in 0..MaxFailures
  BY <1>1, BoundsAssumption DEF BoundsAssumption, Failure, IInv, TypeOK
<1>4. failures \in 0..MaxFailures /\ verdict \in Reasons
  BY <1>1 DEF IInv, TypeOK
<1>5. ~outdated => checks[c] = snap
  BY <1>1, <1>2 DEF IInv, CopyInv
<1>6. Finish(TRUE) => c \in queue'
  BY <1>2 DEF Finish, Requeued
<1>7. CASE AddFinalizer
  <2> DEFINE new == [checks[c] EXCEPT !.finalizer = TRUE]
  <2>1. ASSUME ~outdated PROVE new \in Check /\ Allowed(c, new)
    <3>1. checks[c] \in Check /\ Allowed(c, checks[c]) /\ checks[c] # NoCheck
      BY <1>1, <1>2, <1>5, <2>1, SentinelAssumption DEF SentinelAssumption
    <3>2. /\ new \in Check /\ new.finalizer
          /\ new.placement = checks[c].placement
      BY <3>1 DEF Check
    <3>3. QED BY <3>1, <3>2 DEF Allowed
  <2>2. Ends(new)
    BY <1>2, <1>3, <1>4, <1>7, <2>1 DEF AddFinalizer, Ends
  <2>3. \/ Store(c, new) /\ Allowed(c, new)
        \/ UNCHANGED <<checks, behind>> /\ c \in queue'
    BY <1>2, <1>6, <1>7, <2>1 DEF AddFinalizer
  <2>4. QED BY <1>1, <1>2, <2>2, <2>3, EndsWorkInv
<1>8. CASE PatchStatus
  <2> DEFINE new == [checks[c] EXCEPT !.reason = verdict]
  <2>1. ASSUME ~outdated PROVE new \in Check /\ Allowed(c, new)
    <3>1. checks[c] \in Check /\ Allowed(c, checks[c]) /\ checks[c] # NoCheck
      BY <1>1, <1>2, <1>5, <2>1, SentinelAssumption DEF SentinelAssumption
    <3>2. /\ new \in Check /\ new.finalizer = checks[c].finalizer
          /\ new.placement = checks[c].placement
          /\ new.deleting = checks[c].deleting
      BY <1>4, <3>1 DEF Check
    <3>3. QED BY <3>1, <3>2 DEF Allowed
  <2>2. Failed \in BOOLEAN
    BY DEF Failed
  <2>3. Ends(new)
    BY <1>2, <1>3, <1>4, <1>8, <2>1, <2>2 DEF PatchStatus, Refused, Ends
  <2>4. CASE /\ snap.reason = verdict /\ Finish(Failed)
             /\ UNCHANGED <<checks, behind>>
    <3>1. UNCHANGED <<config, seen>> /\ pc = "status"
      BY <1>8 DEF PatchStatus
    <3>2. SUFFICES ASSUME c \notin queue' \cup behind PROVE Settled(c)'
      BY <1>1, <1>2, <2>3, <2>4, EndsWorkInv DEF Settled
    <3>3. ~Failed /\ c \notin queue
      BY <1>2, <2>2, <2>4, <3>2 DEF Finish, Requeued
    <3>4. ~outdated /\ Answer
      BY <1>1, <1>2, <3>2, <3>3 DEF WorkInv, SyncInv
    <3>5. /\ snap.finalizer /\ ~snap.deleting
          /\ Agrees(snap.placement, snap.reason)
      BY <2>4, <3>1, <3>3, <3>4 DEF Answer
    <3>6. QED BY <1>5, <2>4, <3>1, <3>4, <3>5 DEF Settled, Agrees
  <2>5. CASE ~(snap.reason = verdict)
    <3>1. \/ Store(c, new) /\ Allowed(c, new)
          \/ UNCHANGED <<checks, behind>> /\ c \in queue'
      BY <1>2, <1>6, <1>8, <2>1, <2>5 DEF PatchStatus, Refused
    <3>2. QED BY <1>1, <1>2, <2>3, <3>1, EndsWorkInv
  <2>6. QED BY <1>8, <2>4, <2>5 DEF PatchStatus
<1>9. CASE RemoveFinalizer
  <2>1. Ends(NoCheck)
    BY <1>3, <1>4, <1>9 DEF RemoveFinalizer, Ends
  <2>2. \/ Store(c, NoCheck) /\ Allowed(c, NoCheck)
        \/ UNCHANGED <<checks, behind>> /\ c \in queue'
    BY <1>2, <1>6, <1>9 DEF RemoveFinalizer, Allowed
  <2>3. QED BY <1>1, <1>2, <2>1, <2>2, EndsWorkInv
<1>10. QED BY <1>7, <1>8, <1>9

\* A config that sync writes is that of no other check.
LEMMA ConfigWorkInv ==
  ASSUME NamesApart, WorkInv, WriteConfig \/ DeleteConfig \/ Cleanup
  PROVE  WorkInv'
<1>1. IInv'
  BY ConfigIInv DEF WorkInv
<1>2. /\ pc # "idle" /\ pc' # "idle" /\ current \in Checks
      /\ snap.placement \in Placements
      /\ config \in [Placements -> ((SUBSET Clusters) \ {{}}) \cup {NoConfig}]
      /\ <<current, snap.placement>> \in Names
      /\ UNCHANGED <<checks, caches, queue, current, snap, outdated>>
  BY DEF WriteConfig, DeleteConfig, Cleanup, ToStatus, WorkInv, NamesInv,
     Allowed, IInv, TypeOK, Check
<1>3. NamesInv' /\ IdleInv'
  BY <1>2 DEF WorkInv, NamesInv, Allowed, IdleInv, caches
<1>4. ASSUME NEW p \in Placements, p # snap.placement
      PROVE  config'[p] = config[p]
  BY <1>2, <1>4 DEF WriteConfig, DeleteConfig, Cleanup
<1>5. SettledInv'
  <2>1. SUFFICES ASSUME NEW a \in Checks, checks[a] # NoCheck, a # current,
                        a \notin queue \cup behind
                 PROVE  Settled(a)'
    BY <1>2 DEF SettledInv, Settled, caches
  <2>2. /\ checks[a].placement \in Placements
        /\ <<a, checks[a].placement>> \in Names
    BY <2>1 DEF WorkInv, NamesInv, Allowed, IInv, TypeOK, Check
  <2>3. config'[checks[a].placement] = config[checks[a].placement]
    BY <1>2, <1>4, <2>1, <2>2 DEF NamesApart
  <2>4. QED
    BY <1>2, <2>1, <2>3 DEF WorkInv, SettledInv, Settled, Agrees, caches
<1>6. SyncInv'
  <2>1. SUFFICES ASSUME Answer PROVE Answer'
    BY <1>2 DEF WorkInv, SyncInv, caches
  <2>2. CASE WriteConfig
    BY <1>2, <2>1, <2>2 DEF WriteConfig, ToStatus, Answer, Failed, Agrees,
       caches
  <2>3. CASE DeleteConfig
    BY <1>2, <2>1, <2>3 DEF DeleteConfig, ToStatus, Answer, Failed, Agrees,
       caches
  <2>4. CASE Cleanup
    BY <2>4 DEF Cleanup, Answer
  <2>5. QED BY <2>2, <2>3, <2>4
<1>7. QED BY <1>1, <1>3, <1>5, <1>6 DEF WorkInv

LEMMA NextWorkInv == NamesApart /\ WorkInv /\ [Next]_vars => WorkInv'
<1> SUFFICES ASSUME NamesApart, WorkInv, [Next]_vars PROVE WorkInv'
  OBVIOUS
<1>1. ASSUME NEW a \in Checks, EditCheck(a) PROVE WorkInv'
  BY <1>1, EditCheckWorkInv
<1>2. CASE \/ \E a \in Checks : ObserveCheck(a)
           \/ \E p \in Placements : EditPlacement(p)
  BY <1>2, EnvWorkInv
<1>3. ASSUME NEW p \in Placements, ObservePlacement(p) PROVE WorkInv'
  BY <1>3, ObservePlacementWorkInv
<1>4. ASSUME NEW a \in Checks, Begin(a) PROVE WorkInv'
  BY <1>4, BeginWorkInv
<1>5. CASE AddFinalizer \/ PatchStatus \/ RemoveFinalizer
  BY <1>5, StepEndsWorkInv
<1>6. CASE WriteConfig \/ DeleteConfig \/ Cleanup
  BY <1>6, ConfigWorkInv
<1>7. CASE UNCHANGED vars
  <2>1. IInv'
    BY NextIInv DEF WorkInv
  <2>2. QED
    BY <1>7, <2>1 DEF WorkInv, IdleInv, NamesInv, Allowed, SyncInv, Answer,
       Failed, SettledInv, Settled, Agrees, vars, objects, caches, syncVars
<1>8. QED
  BY <1>1, <1>2, <1>3, <1>4, <1>5, <1>6, <1>7 DEF Next, EnvNext, Step

\* Whatever users edit, whichever events are late and whichever calls fail, a
\* check that no event and no key is pending for matches its placement, if
\* every placement belongs to one check (the config has the placement's name,
\* controller.go:173).
THEOREM NoLostWorkAlways == NamesApart => (Spec => []NoLostWork)
<1> SUFFICES ASSUME NamesApart PROVE Spec => []NoLostWork
  OBVIOUS
<1>1. WorkInv /\ [Next]_vars => WorkInv'
  BY NextWorkInv
<1>2. WorkInv => NoLostWork
  BY SettledMatches
<1>3. QED BY InitWorkInv, <1>1, <1>2, PTL DEF Spec

=============================================================================
