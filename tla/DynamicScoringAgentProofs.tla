--------------------- MODULE DynamicScoringAgentProofs ---------------------
(***************************************************************************)
(* Proofs about DynamicScoringAgent, for every value of its constants.     *)
(***************************************************************************)
EXTENDS DynamicScoringAgent, TLAPS

\* The index that handleConfigMapUpdate works on is within the summaries.
IndexInv == syncPc = "workers" => next <= Len(summaries)

\* A goroutine that runs was started with a summary.
StartedInv == \A w \in Workers : Alive(w) => workerSummary[w] \in Summary

\* The bookkeeping of goroutines: the two invariants need each other.
WorkerInv == StartedInv /\ LiveWorkersAreRegistered /\ RegisteredWorkersRun

\* A name all of whose summaries need no token is active once its first
\* summary is handled.
NeedsNoToken(n) ==
  \A i \in 1..Len(summaries) : summaries[i].scoreName = n => ~summaries[i].auth

ActiveInv ==
  syncPc \in {"auth", "workers"} =>
    \A i \in 1..Len(summaries) :
      /\ i < next \/ (syncPc = "workers" /\ i = next)
      /\ NeedsNoToken(summaries[i].scoreName)
      => summaries[i].scoreName \in active

IInv == TypeOK /\ IndexInv /\ WorkerInv /\ ActiveInv

\* What StartWorker does when it starts the goroutine w.
StartedBy(w) ==
  LET s == summaries[next] IN
  /\ ~Alive(w)
  /\ scoringWorkers' = [scoringWorkers EXCEPT ![s.scoreName] = w]
  /\ workerPc' = [workerPc EXCEPT ![w] = "loop"]
  /\ workerSummary' = [workerSummary EXCEPT ![w] = s]
  /\ cancelled' = [cancelled EXCEPT ![w] = FALSE]
  /\ UNCHANGED <<results, seen>>

\* In the next state the goroutine v runs for the name n.
RunsNext(v, n) ==
  /\ workerPc'[v] # "none"
  /\ ~cancelled'[v]
  /\ workerSummary'[v].scoreName = n

-----------------------------------------------------------------------------
(***************************************************************************)
(* Type correctness.                                                       *)
(***************************************************************************)
LEMMA InitTypeOK == Init => TypeOK /\ IndexInv
BY BoundsAssumption DEF Init, TypeOK, IndexInv, ConfigMapsAssumption,
   ResourceNames, SyncPcs, WorkerPcs

\* The environment's steps and a restart.
LEMMA EnvTypeOK ==
  ASSUME TypeOK, IndexInv,
         EditConfigMap \/ ChangeSecrets \/ Resync \/ Crash
  PROVE  TypeOK' /\ IndexInv'
<1>1. CASE EditConfigMap
  BY <1>1, BoundsAssumption DEF EditConfigMap, TypeOK, IndexInv, syncVars,
     workerVars, outVars
<1>2. CASE ChangeSecrets
  BY <1>2, BoundsAssumption DEF ChangeSecrets, TypeOK, IndexInv, syncVars,
     workerVars, outVars
<1>3. CASE Resync
  BY <1>3 DEF Resync, TypeOK, IndexInv, envVars, syncVars, workerVars, outVars
<1>4. CASE Crash
  BY <1>4, BoundsAssumption DEF Crash, TypeOK, IndexInv, envVars, SyncPcs,
     WorkerPcs
<1>5. QED BY <1>1, <1>2, <1>3, <1>4

\* The steps of the controller goroutine.
LEMMA SyncTypeOK ==
  ASSUME TypeOK, IndexInv, SyncNext
  PROVE  TypeOK' /\ IndexInv'
<1>1. CASE SyncStart
  <2>1. /\ syncPc' \in {"idle", "auth"}
        /\ summaries' \in Seq(Summary)
        /\ next' \in Nat \ {0}
        /\ active' \subseteq ScoreNames
        /\ workersToStop' = workersToStop
    <3>1. CASE configMap = NoConfigMap
      BY <1>1, <3>1 DEF SyncStart, TypeOK, syncVars
    <3>2. CASE configMap # NoConfigMap
      <4>1. configMap \in Seq(Summary)
        BY <3>2, ConfigMapsAssumption DEF ConfigMapsAssumption, TypeOK
      <4>2. QED BY <1>1, <3>2, <4>1 DEF SyncStart, TypeOK
    <3>3. QED BY <3>1, <3>2
  <2>2. queued' = FALSE /\ UNCHANGED <<envVars, scoringWorkers, cancelled,
                                       workerVars, outVars, crashes>>
    BY <1>1 DEF SyncStart
  <2>3. QED
    BY <2>1, <2>2 DEF TypeOK, IndexInv, SyncPcs, envVars, workerVars, outVars
<1>2. CASE FetchAuth
  <2>1. next \in 1..Len(summaries) /\ summaries[next] \in Summary
    BY <1>2 DEF FetchAuth, TypeOK
  <2>2. QED
    BY <1>2, <2>1 DEF FetchAuth, TypeOK, IndexInv, SyncPcs, Summary, envVars,
       workerVars, outVars
<1>3. CASE StartWorker
  <2>1. next \in 1..Len(summaries) /\ summaries[next] \in Summary
    BY <1>3 DEF StartWorker, TypeOK, IndexInv
  <2>2. /\ scoringWorkers' \in [ScoreNames -> Workers \cup {NoWorker}]
        /\ workerPc' \in [Workers -> WorkerPcs]
        /\ workerSummary' \in [Workers -> Summary \cup {NoSummary}]
        /\ cancelled' \in [Workers -> BOOLEAN]
        /\ results' \in [Workers -> SUBSET AllSeries]
        /\ seen' \in [Workers -> {"absent", "present", "stale"}]
    <3>1. CASE scoringWorkers[summaries[next].scoreName] # NoWorker
      BY <1>3, <3>1 DEF StartWorker, TypeOK, workerVars
    <3>2. CASE scoringWorkers[summaries[next].scoreName] = NoWorker
      <4>1. PICK w \in Workers : StartedBy(w)
        BY <1>3, <3>2 DEF StartWorker, StartedBy
      <4>2. QED BY <2>1, <4>1 DEF StartedBy, TypeOK, Summary, WorkerPcs
    <3>3. QED BY <3>1, <3>2
  <2>3. /\ syncPc' = "auth" /\ next' = next + 1
        /\ UNCHANGED <<envVars, queued, summaries, active, workersToStop,
                       outVars, crashes>>
    BY <1>3 DEF StartWorker
  <2>4. QED
    BY <2>2, <2>3 DEF TypeOK, IndexInv, SyncPcs, envVars, outVars
<1>4. CASE StopWorkers
  BY <1>4 DEF StopWorkers, Stopped, CancelContexts, Deregister, TypeOK,
     IndexInv, SyncPcs, envVars, workerVars, outVars
<1>5. CASE DeleteMetrics
  BY <1>5 DEF DeleteMetrics, TypeOK, IndexInv, SyncPcs, envVars, workerVars
<1>6. QED BY <1>1, <1>2, <1>3, <1>4, <1>5 DEF SyncNext

\* A running goroutine has a name, and the name a resource.
LEMMA NameTyped ==
  ASSUME TypeOK, StartedInv, NEW w \in Workers, Alive(w)
  PROVE  /\ workerSummary[w] \in Summary
         /\ NameOf(w) \in ScoreNames
         /\ SanitizedName[NameOf(w)] \in ResourceNames
BY DEF StartedInv, NameOf, Summary, ResourceNames

\* The steps of a scoring goroutine.
LEMMA WorkerTypeOK ==
  ASSUME TypeOK, IndexInv, StartedInv, NEW w \in Workers, WorkerNext(w)
  PROVE  TypeOK' /\ IndexInv'
<1> USE DEF Goto
<1>0. /\ UNCHANGED notWorker
      /\ workerPc' \in [Workers -> WorkerPcs]
      /\ workerSummary' \in [Workers -> Summary \cup {NoSummary}]
      /\ results' \in [Workers -> SUBSET AllSeries]
      /\ seen' \in [Workers -> {"absent", "present", "stale"}]
      /\ gauge' \in [ScoreNames -> SUBSET AllSeries]
      /\ previousLabelSets' \in [ScoreNames -> SUBSET Keys]
      /\ placementScore' \in [ResourceNames -> {"absent", "empty", "scores"}]
  <2>1. CASE Tick(w)
    BY <2>1 DEF Tick, TypeOK, WorkerPcs, outVars
  <2>2. CASE Exit(w)
    BY <2>2 DEF Exit, TypeOK, WorkerPcs, outVars
  <2>3. CASE Answered(w)
    <3>1. workerSummary[w].config \in Configs
      BY <2>3, NameTyped DEF Answered, Alive, Summary
    <3>2. SUBSET Series[workerSummary[w].config] \subseteq SUBSET AllSeries
      BY <3>1 DEF AllSeries
    <3>3. results' \in [Workers -> SUBSET AllSeries]
      BY <2>3, <3>2 DEF Answered, TypeOK
    <3>4. QED BY <2>3, <3>3 DEF Answered, TypeOK, WorkerPcs, outVars
  <2>4. CASE CallFails(w)
    BY <2>4 DEF CallFails, TypeOK, WorkerPcs, outVars
  <2>5. CASE Publish(w)
    <3>1. NameOf(w) \in ScoreNames
      BY <2>5, NameTyped DEF Publish, Alive
    <3>2. QED BY <2>5, <3>1 DEF Publish, TypeOK, WorkerPcs
  <2>6. CASE CleanOldMetrics(w)
    <3>1. NameOf(w) \in ScoreNames
      BY <2>6, NameTyped DEF CleanOldMetrics, Alive
    <3>2. QED BY <2>6, <3>1 DEF CleanOldMetrics, TypeOK, WorkerPcs
  <2>7. CASE RecordLabelSets(w)
    <3>1. NameOf(w) \in ScoreNames
      BY <2>7, NameTyped DEF RecordLabelSets, Alive
    <3>2. QED BY <2>7, <3>1 DEF RecordLabelSets, TypeOK, WorkerPcs, KeysOf, Keys
  <2>8. CASE GetScore(w)
    BY <2>8 DEF GetScore, TypeOK, WorkerPcs, outVars
  <2>9. CASE PutScore(w)
    <3>1. SanitizedName[NameOf(w)] \in ResourceNames
      BY <2>9, NameTyped DEF PutScore, Alive
    <3>2. QED BY <2>9, <3>1 DEF PutScore, Sent, TypeOK, WorkerPcs
  <2>10. QED
    BY <2>1, <2>2, <2>3, <2>4, <2>5, <2>6, <2>7, <2>8, <2>9 DEF WorkerNext
<1>1. QED
  BY <1>0 DEF TypeOK, IndexInv, notWorker, envVars, syncVars

-----------------------------------------------------------------------------
(***************************************************************************)
(* The bookkeeping of goroutines.                                          *)
(***************************************************************************)

\* Steps that leave the bookkeeping alone keep its invariant.
LEMMA BookkeepingUnchanged ==
  ASSUME WorkerInv,
         UNCHANGED <<scoringWorkers, cancelled, workerPc, workerSummary>>
  PROVE  WorkerInv'
BY DEF WorkerInv, StartedInv, LiveWorkersAreRegistered, RegisteredWorkersRun,
   Alive, NameOf

\* A restart leaves no goroutine and no registration behind.
LEMMA CrashWorkerInv ==
  ASSUME TypeOK, Crash PROVE WorkerInv'
BY SentinelAssumption DEF SentinelAssumption, Crash, WorkerInv, StartedInv,
   LiveWorkersAreRegistered, RegisteredWorkersRun, Alive, NameOf

\* StartWorker registers the goroutine it starts under a name that had none.
LEMMA StartWorkerInv ==
  ASSUME TypeOK, IndexInv, WorkerInv, StartWorker PROVE WorkerInv'
<1> DEFINE s == summaries[next]
<1>1. s \in Summary /\ s.scoreName \in ScoreNames
  <2>1. next \in 1..Len(summaries)
    BY DEF StartWorker, TypeOK, IndexInv
  <2>2. s \in Summary
    BY <2>1 DEF TypeOK
  <2>3. QED BY <2>2 DEF Summary
<1>2. CASE scoringWorkers[s.scoreName] # NoWorker
  BY <1>2, BookkeepingUnchanged DEF StartWorker, workerVars
<1>3. CASE scoringWorkers[s.scoreName] = NoWorker
  <2>1. PICK w \in Workers : StartedBy(w)
    BY <1>3 DEF StartWorker, StartedBy
  <2>2. StartedInv'
    BY <1>1, <2>1 DEF StartedBy, TypeOK, WorkerInv, StartedInv, Alive
  <2>3. LiveWorkersAreRegistered'
    <3> SUFFICES ASSUME NEW v \in Workers, Alive(v)', ~cancelled'[v]
                 PROVE  scoringWorkers'[NameOf(v)'] = v
      BY DEF LiveWorkersAreRegistered
    <3>1. CASE v = w
      BY <1>1, <2>1, <3>1 DEF StartedBy, TypeOK, NameOf
    <3>2. CASE v # w
      <4>1. /\ Alive(v) /\ ~cancelled[v]
            /\ NameOf(v)' = NameOf(v)
        BY <2>1, <3>2 DEF StartedBy, TypeOK, Alive, NameOf
      <4>2. scoringWorkers[NameOf(v)] = v
        BY <4>1 DEF WorkerInv, LiveWorkersAreRegistered
      <4>3. NameOf(v) # s.scoreName
        BY <1>3, <4>2, SentinelAssumption DEF SentinelAssumption
      <4>4. QED BY <2>1, <4>1, <4>2, <4>3 DEF StartedBy, TypeOK
    <3>3. QED BY <3>1, <3>2
  <2>4. RegisteredWorkersRun'
    <3> SUFFICES ASSUME NEW n \in ScoreNames, scoringWorkers'[n] # NoWorker
                 PROVE  RunsNext(scoringWorkers'[n], n)
      BY DEF RegisteredWorkersRun, RunsNext, Alive, NameOf
    <3>1. CASE n = s.scoreName
      BY <1>1, <2>1, <3>1 DEF StartedBy, TypeOK, RunsNext
    <3>2. CASE n # s.scoreName
      <4>1. scoringWorkers'[n] = scoringWorkers[n]
        BY <2>1, <3>2 DEF StartedBy, TypeOK
      <4>2. PICK v \in Workers : v = scoringWorkers[n]
        BY <4>1 DEF TypeOK
      <4>3. Alive(v) /\ ~cancelled[v] /\ NameOf(v) = n
        BY <4>1, <4>2 DEF WorkerInv, RegisteredWorkersRun
      <4>4. v # w
        BY <4>3, <2>1 DEF StartedBy
      <4>5. QED BY <2>1, <4>1, <4>2, <4>3, <4>4 DEF StartedBy, TypeOK,
                RunsNext, Alive, NameOf
    <3>3. QED BY <3>1, <3>2
  <2>5. QED BY <2>2, <2>3, <2>4 DEF WorkerInv
<1>4. QED BY <1>2, <1>3

\* StopWorkers cancels what it takes out of the map, and nothing else.
LEMMA StopWorkersInv ==
  ASSUME TypeOK, WorkerInv, StopWorkers PROVE WorkerInv'
<1>1. UNCHANGED <<workerPc, workerSummary>>
  BY DEF StopWorkers, workerVars
<1>2. StartedInv'
  BY <1>1 DEF WorkerInv, StartedInv, Alive
<1>3. LiveWorkersAreRegistered'
  <2> SUFFICES ASSUME NEW v \in Workers, Alive(v)', ~cancelled'[v]
               PROVE  scoringWorkers'[NameOf(v)'] = v
    BY DEF LiveWorkersAreRegistered
  <2>1. Alive(v) /\ NameOf(v)' = NameOf(v) /\ NameOf(v) \in ScoreNames
    BY <1>1, NameTyped DEF Alive, NameOf, WorkerInv
  <2>2. ~cancelled[v] /\ \A n \in Stopped : scoringWorkers[n] # v
    BY DEF StopWorkers, CancelContexts, TypeOK
  <2>3. scoringWorkers[NameOf(v)] = v
    BY <2>1, <2>2 DEF WorkerInv, LiveWorkersAreRegistered
  <2>4. NameOf(v) \notin Stopped
    BY <2>2, <2>3
  <2>5. QED BY <2>1, <2>3, <2>4 DEF StopWorkers, Deregister
<1>4. RegisteredWorkersRun'
  <2> SUFFICES ASSUME NEW n \in ScoreNames, scoringWorkers'[n] # NoWorker
               PROVE  RunsNext(scoringWorkers'[n], n)
    BY DEF RegisteredWorkersRun, RunsNext, Alive, NameOf
  <2>1. n \notin Stopped /\ scoringWorkers'[n] = scoringWorkers[n]
    BY DEF StopWorkers, Deregister
  <2>2. PICK v \in Workers : v = scoringWorkers[n]
    BY <2>1 DEF TypeOK
  <2>3. Alive(v) /\ ~cancelled[v] /\ NameOf(v) = n
    BY <2>1, <2>2 DEF WorkerInv, RegisteredWorkersRun
  <2>4. \A m \in Stopped : scoringWorkers[m] # v
    <3> SUFFICES ASSUME NEW m \in Stopped, scoringWorkers[m] = v PROVE FALSE
      OBVIOUS
    <3>1. m \in ScoreNames /\ scoringWorkers[m] # NoWorker
      BY DEF Stopped
    <3>2. NameOf(v) = m
      BY <3>1 DEF WorkerInv, RegisteredWorkersRun
    <3>3. QED BY <2>1, <2>3, <3>2
  <2>5. QED BY <1>1, <2>1, <2>2, <2>3, <2>4 DEF StopWorkers, CancelContexts,
            RunsNext, Alive, NameOf
<1>5. QED BY <1>2, <1>3, <1>4 DEF WorkerInv

\* A goroutine ends only when it is cancelled, hence no longer registered.
LEMMA WorkerStepInv ==
  ASSUME TypeOK, WorkerInv, NEW w \in Workers, WorkerNext(w) PROVE WorkerInv'
<1>1. UNCHANGED <<scoringWorkers, cancelled>>
  BY DEF WorkerNext, Tick, Exit, Answered, CallFails, Publish, CleanOldMetrics,
     RecordLabelSets, GetScore, PutScore, notWorker
<1>2. CASE Exit(w)
  <2>1. cancelled[w] /\ ~Alive(w)'
        /\ \A v \in Workers \ {w} : UNCHANGED <<workerPc[v], workerSummary[v]>>
    BY <1>2 DEF Exit, Goto, TypeOK, Alive
  <2>2. QED
    BY <1>1, <2>1 DEF TypeOK, WorkerInv, StartedInv, LiveWorkersAreRegistered,
       RegisteredWorkersRun, Alive, NameOf
<1>3. CASE ~Exit(w)
  <2>1. /\ workerSummary' = workerSummary
        /\ \A v \in Workers : Alive(v)' = Alive(v)
    BY <1>3 DEF WorkerNext, Tick, Answered, CallFails, Publish,
       CleanOldMetrics, RecordLabelSets, GetScore, PutScore, Goto, TypeOK, Alive
  <2>2. QED
    BY <1>1, <2>1 DEF TypeOK, WorkerInv, StartedInv, LiveWorkersAreRegistered,
       RegisteredWorkersRun, NameOf
<1>4. QED BY <1>2, <1>3

-----------------------------------------------------------------------------
(***************************************************************************)
(* What the controller goroutine has found active so far.                  *)
(***************************************************************************)

\* Only the controller goroutine touches the sync's own state.
LEMMA ActiveUnchanged ==
  ASSUME ActiveInv, UNCHANGED <<syncPc, summaries, next, active>>
  PROVE  ActiveInv'
BY DEF ActiveInv, NeedsNoToken

\* Each summary that needs no token is active as soon as it is handled, and
\* the summaries handled later in the same sync do not take it back.
LEMMA SyncActiveInv ==
  ASSUME TypeOK, IndexInv, ActiveInv, SyncNext PROVE ActiveInv'
<1>1. CASE SyncStart
  <2>1. syncPc' = "idle" \/ (syncPc' = "auth" /\ next' = 1)
    BY <1>1 DEF SyncStart, syncVars
  <2>2. summaries' \in Seq(Summary)
    BY <1>1, ConfigMapsAssumption DEF ConfigMapsAssumption, SyncStart, TypeOK,
       syncVars
  <2>3. QED BY <2>1, <2>2 DEF ActiveInv
<1>2. CASE FetchAuth
  <2>0. next \in 1..Len(summaries) /\ summaries' = summaries
    BY <1>2 DEF FetchAuth, TypeOK
  <2>1. CASE syncPc' = "workers"
    BY <1>2, <2>0, <2>1 DEF FetchAuth, ActiveInv, NeedsNoToken, TypeOK
  <2>2. CASE syncPc' # "workers"
    <3>1. /\ summaries[next].auth
          /\ active' = active \ {summaries[next].scoreName}
          /\ next' = next + 1 /\ syncPc' = "auth" /\ syncPc = "auth"
      BY <1>2, <2>2 DEF FetchAuth, AuthFetched
    <3>2. ASSUME NEW i \in 1..Len(summaries), i < next + 1,
                 NeedsNoToken(summaries[i].scoreName)
          PROVE  summaries[i].scoreName \in active'
      <4>1. summaries[i].scoreName # summaries[next].scoreName
        BY <2>0, <3>1, <3>2 DEF NeedsNoToken
      <4>2. i < next
        BY <2>0, <3>2, <4>1
      <4>3. QED BY <3>1, <3>2, <4>1, <4>2 DEF ActiveInv
    <3>3. QED BY <2>0, <3>1, <3>2 DEF ActiveInv, NeedsNoToken
  <2>3. QED BY <2>1, <2>2
<1>3. CASE StartWorker
  <2>1. /\ syncPc = "workers" /\ syncPc' = "auth" /\ next' = next + 1
        /\ UNCHANGED <<summaries, active>> /\ next \in Nat
    BY <1>3 DEF StartWorker, TypeOK
  <2>2. QED BY <2>1 DEF ActiveInv, NeedsNoToken, TypeOK
<1>4. CASE StopWorkers
  BY <1>4 DEF StopWorkers, ActiveInv
<1>5. CASE DeleteMetrics
  BY <1>5 DEF DeleteMetrics, ActiveInv
<1>6. QED BY <1>1, <1>2, <1>3, <1>4, <1>5 DEF SyncNext

-----------------------------------------------------------------------------
(***************************************************************************)
(* The inductive invariant.                                                *)
(***************************************************************************)

\* It holds at the start.
LEMMA InitIInv == Init => IInv
<1> SUFFICES ASSUME Init PROVE IInv
  OBVIOUS
<1>1. TypeOK /\ IndexInv
  BY InitTypeOK
<1>2. WorkerInv
  BY SentinelAssumption DEF SentinelAssumption, Init, WorkerInv, StartedInv,
     LiveWorkersAreRegistered, RegisteredWorkersRun, Alive
<1>3. ActiveInv
  BY DEF Init, ActiveInv
<1>4. QED BY <1>1, <1>2, <1>3 DEF IInv

\* Every step keeps it.
LEMMA NextIInv == IInv /\ [Next]_vars => IInv'
<1> SUFFICES ASSUME IInv, [Next]_vars PROVE IInv'
  OBVIOUS
<1> USE DEF IInv
<1>1. CASE EditConfigMap \/ ChangeSecrets \/ Resync
  <2>1. UNCHANGED <<syncVars, scoringWorkers, cancelled, workerVars>>
    BY <1>1 DEF EditConfigMap, ChangeSecrets, Resync
  <2>2. QED
    BY <1>1, <2>1, EnvTypeOK, BookkeepingUnchanged, ActiveUnchanged
       DEF syncVars, workerVars
<1>2. CASE Crash
  <2>1. ActiveInv'
    BY <1>2 DEF Crash, ActiveInv
  <2>2. QED BY <1>2, <2>1, EnvTypeOK, CrashWorkerInv
<1>3. CASE SyncNext
  <2>1. TypeOK' /\ IndexInv' /\ ActiveInv'
    BY <1>3, SyncTypeOK, SyncActiveInv
  <2>2. CASE SyncStart \/ FetchAuth \/ DeleteMetrics
    BY <2>1, <2>2, BookkeepingUnchanged
       DEF SyncStart, FetchAuth, DeleteMetrics, workerVars
  <2>3. QED
    BY <1>3, <2>1, <2>2, StartWorkerInv, StopWorkersInv DEF SyncNext
<1>4. CASE \E w \in Workers : WorkerNext(w)
  <2>1. PICK w \in Workers : WorkerNext(w)
    BY <1>4
  <2>2. UNCHANGED syncVars
    BY <2>1 DEF WorkerNext, Tick, Exit, Answered, CallFails, Publish,
       CleanOldMetrics, RecordLabelSets, GetScore, PutScore, notWorker
  <2>3. QED
    BY <2>1, <2>2, WorkerTypeOK, WorkerStepInv, ActiveUnchanged
       DEF WorkerInv, syncVars
<1>5. CASE UNCHANGED vars
  BY <1>5, BookkeepingUnchanged, ActiveUnchanged
     DEF vars, envVars, syncVars, workerVars, outVars, TypeOK, IndexInv
<1>6. QED BY <1>1, <1>2, <1>3, <1>4, <1>5 DEF Next

\* So it is an invariant of the specification.
LEMMA SpecIInv == Spec => []IInv
BY InitIInv, NextIInv, PTL DEF Spec

\* Every variable keeps its type.
THEOREM TypeCorrect == Spec => []TypeOK
BY SpecIInv, PTL DEF IInv

\* At most one goroutine whose context is alive works on a score name, and it
\* is the registered one.
THEOREM LiveWorkersAreRegisteredAlways == Spec => []LiveWorkersAreRegistered
BY SpecIInv, PTL DEF IInv, WorkerInv

\* A registered goroutine runs: no name is blocked by a dead registration.
THEOREM RegisteredWorkersRunAlways == Spec => []RegisteredWorkersRun
BY SpecIInv, PTL DEF IInv, WorkerInv

\* A step that takes a goroutine off a name is a restart, or the end of a sync
\* that did not find the name active.
LEMMA StepStopsOnlyWithdrawn ==
  ASSUME IInv, [Next]_vars, NEW n \in ScoreNames,
         scoringWorkers[n] # NoWorker, scoringWorkers'[n] # scoringWorkers[n]
  PROVE  \/ crashes' # crashes
         \/ \A i \in 1..Len(summaries) : summaries[i].scoreName # n
         \/ \E i \in 1..Len(summaries) :
              summaries[i].scoreName = n /\ summaries[i].auth
<1> USE DEF IInv
<1>1. Crash \/ StartWorker \/ StopWorkers
  <2>1. UNCHANGED scoringWorkers \/ Crash \/ StartWorker \/ StopWorkers
    BY DEF Next, vars, EditConfigMap, ChangeSecrets, Resync, SyncNext,
       SyncStart, FetchAuth, DeleteMetrics, WorkerNext, Tick, Exit, Answered,
       CallFails, Publish, CleanOldMetrics, RecordLabelSets, GetScore,
       PutScore, notWorker
  <2>2. QED BY <2>1
<1>2. CASE Crash
  BY <1>2, BoundsAssumption DEF BoundsAssumption, Crash, TypeOK
<1>3. CASE StartWorker
  <2>1. PICK w \in Workers : StartedBy(w)
    BY <1>3 DEF StartWorker, StartedBy
  <2>2. scoringWorkers[summaries[next].scoreName] = NoWorker
    BY <1>3 DEF StartWorker
  <2>3. QED BY <2>1, <2>2 DEF StartedBy, TypeOK
<1>4. CASE StopWorkers
  <2>1. n \notin active
    BY <1>4 DEF StopWorkers, Deregister, Stopped
  <2>2. ASSUME NEW i \in 1..Len(summaries), summaries[i].scoreName = n,
               NeedsNoToken(n)
        PROVE  FALSE
    BY <1>4, <2>1, <2>2 DEF StopWorkers, ActiveInv, TypeOK
  <2>3. QED BY <2>2 DEF NeedsNoToken
<1>5. QED BY <1>1, <1>2, <1>3, <1>4

\* Scoring of a name only stops with a restart, a withdrawal of the name, or
\* when the name needs a token.
THEOREM StopsOnlyWithdrawnAlways == Spec => StopsOnlyWithdrawn
<1>1. IInv /\ [Next]_vars =>
        [\A n \in ScoreNames :
           scoringWorkers[n] # NoWorker
             /\ scoringWorkers'[n] # scoringWorkers[n]
             => \/ crashes' # crashes
                \/ \A i \in 1..Len(summaries) : summaries[i].scoreName # n
                \/ \E i \in 1..Len(summaries) :
                     summaries[i].scoreName = n /\ summaries[i].auth]_vars
  BY StepStopsOnlyWithdrawn
<1>2. QED BY <1>1, SpecIInv, PTL DEF Spec, StopsOnlyWithdrawn

-----------------------------------------------------------------------------
(***************************************************************************)
(* What one sync achieves: the part of WorkersConverge that is a safety     *)
(* property.                                                               *)
(***************************************************************************)
Given(n) == \E i \in 1..Len(summaries) : summaries[i].scoreName = n

\* When a sync has stopped what it stops, exactly the names that it found active
\* have a goroutine: none that its ConfigMap does not give, and every one that
\* it gives without a token (handleConfigMapUpdate).
SyncDelivers ==
  syncPc = "metrics" =>
    \A n \in ScoreNames :
      /\ scoringWorkers[n] # NoWorker <=> n \in active
      /\ n \in active => Given(n)
      /\ Given(n) /\ NeedsNoToken(n) => n \in active

\* Until then an active name is given, and has its goroutine unless that is what
\* the sync does next.
Begun ==
  syncPc \in {"auth", "workers"} =>
    \A n \in active :
      /\ Given(n)
      /\ \/ scoringWorkers[n] # NoWorker
         \/ syncPc = "workers" /\ n = summaries[next].scoreName

DeliverInv == Begun /\ SyncDelivers

LEMMA DeliverUnchanged ==
  ASSUME DeliverInv, UNCHANGED <<syncVars, scoringWorkers>>
  PROVE  DeliverInv'
BY DEF DeliverInv, Begun, SyncDelivers, Given, NeedsNoToken, syncVars

LEMMA SyncDeliverInv ==
  ASSUME IInv, DeliverInv, SyncNext PROVE DeliverInv'
<1> USE DEF IInv, DeliverInv
<1>1. CASE SyncStart
  <2>1. CASE configMap = NoConfigMap
    BY <1>1, <2>1, DeliverUnchanged DEF SyncStart
  <2>2. CASE configMap # NoConfigMap
    BY <1>1, <2>2 DEF SyncStart, Begun, SyncDelivers
  <2>3. QED BY <2>1, <2>2
<1>2. CASE FetchAuth
  <2>1. /\ syncPc = "auth" /\ next \in 1..Len(summaries)
        /\ UNCHANGED <<summaries, scoringWorkers>>
    BY <1>2 DEF FetchAuth, TypeOK
  <2>2. \/ /\ active' = active \cup {summaries[next].scoreName}
           /\ syncPc' = "workers" /\ next' = next
        \/ active' \subseteq active /\ syncPc' = "auth"
    BY <1>2, <2>1 DEF FetchAuth
  <2>3. QED BY <2>1, <2>2 DEF Begun, SyncDelivers, Given
<1>3. CASE StartWorker
  <2> DEFINE m == summaries[next].scoreName
  <2>1. /\ syncPc = "workers" /\ syncPc' = "auth"
        /\ UNCHANGED <<summaries, active>>
    BY <1>3 DEF StartWorker
  <2>2. m \in ScoreNames
    <3>1. next \in 1..Len(summaries) /\ summaries[next] \in Summary
      BY <2>1 DEF TypeOK, IndexInv
    <3>2. QED BY <3>1 DEF Summary
  <2>3. /\ scoringWorkers'[m] # NoWorker
        /\ \A n \in ScoreNames : n # m => scoringWorkers'[n] = scoringWorkers[n]
    <3>1. CASE scoringWorkers[m] # NoWorker
      BY <1>3, <3>1 DEF StartWorker
    <3>2. CASE scoringWorkers[m] = NoWorker
      <4>1. PICK w \in Workers : StartedBy(w)
        BY <1>3, <3>2 DEF StartWorker, StartedBy
      <4>2. QED
        BY <2>2, <4>1, SentinelAssumption DEF StartedBy, TypeOK
    <3>3. QED BY <3>1, <3>2
  <2>4. QED BY <2>1, <2>3 DEF Begun, SyncDelivers, Given, TypeOK
<1>4. CASE StopWorkers
  <2>1. /\ syncPc = "auth" /\ syncPc' = "metrics" /\ next > Len(summaries)
        /\ UNCHANGED <<summaries, active>>
    BY <1>4 DEF StopWorkers
  <2>2. ASSUME NEW n \in ScoreNames
        PROVE  scoringWorkers'[n] # NoWorker <=> n \in active
    <3>1. scoringWorkers'[n] = IF n \in Stopped THEN NoWorker
                               ELSE scoringWorkers[n]
      BY <1>4 DEF StopWorkers, Deregister
    <3>2. n \in active => scoringWorkers[n] # NoWorker
      BY <2>1 DEF Begun
    <3>3. QED BY <3>1, <3>2 DEF Stopped
  <2>3. ASSUME NEW n \in ScoreNames, Given(n), NeedsNoToken(n)
        PROVE  n \in active
    <3>1. PICK i \in 1..Len(summaries) : summaries[i].scoreName = n
      BY <2>3 DEF Given
    <3>2. i < next
      BY <2>1 DEF TypeOK
    <3>3. QED BY <2>1, <2>3, <3>1, <3>2 DEF ActiveInv
  <2>4. QED
    BY <2>1, <2>2, <2>3 DEF Begun, SyncDelivers, Given, NeedsNoToken
<1>5. CASE DeleteMetrics
  BY <1>5 DEF DeleteMetrics, Begun, SyncDelivers, Given, NeedsNoToken
<1>6. QED BY <1>1, <1>2, <1>3, <1>4, <1>5 DEF SyncNext

LEMMA NextDeliver == IInv /\ DeliverInv /\ [Next]_vars => DeliverInv'
<1> SUFFICES ASSUME IInv, DeliverInv, [Next]_vars PROVE DeliverInv'
  OBVIOUS
<1>1. CASE SyncNext
  BY <1>1, SyncDeliverInv
<1>2. CASE Crash
  BY <1>2 DEF Crash, DeliverInv, Begun, SyncDelivers
<1>3. CASE ~SyncNext /\ ~Crash
  <2>1. UNCHANGED <<syncVars, scoringWorkers>>
    BY <1>3 DEF Next, vars, EditConfigMap, ChangeSecrets, Resync, WorkerNext,
       Tick, Exit, Answered, CallFails, Publish, CleanOldMetrics,
       RecordLabelSets, GetScore, PutScore, notWorker
  <2>2. QED BY <2>1, DeliverUnchanged
<1>4. QED BY <1>1, <1>2, <1>3

\* Whatever came before (restarts, goroutines that still run on, unreadable
\* secrets), one sync to its end gives the names of its ConfigMap their
\* goroutines and takes them from all others (handleConfigMapUpdate).
THEOREM SyncDeliversAlways == Spec => []SyncDelivers
<1>1. Init => DeliverInv
  BY DEF Init, DeliverInv, Begun, SyncDelivers
<1>2. DeliverInv => SyncDelivers
  BY DEF DeliverInv
<1>3. QED BY <1>1, <1>2, NextDeliver, SpecIInv, PTL DEF Spec

-----------------------------------------------------------------------------
(***************************************************************************)
(* The agent implements ScoreOwners.                                       *)
(***************************************************************************)

\* Owners change only with the bookkeeping.
LEMMA OwnersUnchanged ==
  ASSUME UNCHANGED <<workerSummary, cancelled>>,
         \A w \in Workers : Alive(w)' = Alive(w)
  PROVE  Publishing' = Publishing
BY DEF Publishing, NameOf

\* The initial states are initial states of ScoreOwners.
LEMMA InitOwners == Init => Owned!Init
BY DEF Init, Owned!Init, Publishing, Answering, AnswerPcs, Alive

\* A goroutine is only started for a name that nobody owns.
LEMMA StartAcquires ==
  ASSUME IInv, StartWorker
  PROVE  \/ UNCHANGED <<Publishing, Answering>>
         \/ \E w \in Workers, n \in ScoreNames : Owned!Acquire(n, w)
<1> USE DEF IInv
<1> DEFINE s == summaries[next]
<1>1. s.scoreName \in ScoreNames
  <2>1. next \in 1..Len(summaries)
    BY DEF StartWorker, TypeOK, IndexInv
  <2>2. s \in Summary
    BY <2>1 DEF TypeOK
  <2>3. QED BY <2>2 DEF Summary
<1>2. CASE scoringWorkers[s.scoreName] # NoWorker
  <2>1. UNCHANGED <<workerPc, workerSummary, cancelled>>
    BY <1>2 DEF StartWorker, workerVars
  <2>2. QED BY <2>1, OwnersUnchanged DEF Alive, Answering
<1>3. CASE scoringWorkers[s.scoreName] = NoWorker
  <2>1. PICK w \in Workers : StartedBy(w)
    BY <1>3 DEF StartWorker, StartedBy
  <2>2. \A v \in Workers : Alive(v) /\ ~cancelled[v] => NameOf(v) # s.scoreName
    BY <1>3, SentinelAssumption
       DEF SentinelAssumption, WorkerInv, LiveWorkersAreRegistered
  <2>3. Publishing[s.scoreName] = {}
    BY <1>1, <2>2 DEF Publishing
  <2>4. \A n \in ScoreNames : w \notin Publishing[n]
    BY <2>1 DEF StartedBy, Publishing
  <2>5. w \notin Answering
    BY <2>1 DEF StartedBy, Answering, AnswerPcs, Alive
  <2>6. Publishing' = [Publishing EXCEPT ![s.scoreName] = {w}]
    <3>1. /\ Alive(w)' /\ ~cancelled'[w] /\ NameOf(w)' = s.scoreName
          /\ \A v \in Workers \ {w} :
               /\ Alive(v)' = Alive(v) /\ cancelled'[v] = cancelled[v]
               /\ NameOf(v)' = NameOf(v)
      BY <2>1 DEF StartedBy, TypeOK, Alive, NameOf
    <3>2. \A n \in ScoreNames :
            {v \in Workers :
               Alive(v)' /\ ~cancelled'[v] /\ NameOf(v)' = n}
            = IF n = s.scoreName THEN {w} ELSE Publishing[n]
      <4> TAKE n \in ScoreNames
      <4>1. CASE n = s.scoreName
        BY <2>2, <3>1, <4>1
      <4>2. CASE n # s.scoreName
        BY <2>4, <3>1, <4>2 DEF Publishing
      <4>3. QED BY <4>1, <4>2
    <3>3. QED BY <1>1, <3>2 DEF Publishing
  <2>7. Answering' = Answering
    BY <2>1, <2>5 DEF StartedBy, TypeOK, Answering, AnswerPcs
  <2>8. Owned!Acquire(s.scoreName, w)
    BY <2>3, <2>4, <2>5, <2>6, <2>7 DEF Owned!Acquire, Owned!Owns
  <2>9. QED BY <1>1, <2>8
<1>4. QED BY <1>2, <1>3

\* The end of a sync withdraws the names it takes out of the map, because the
\* owner of a name is the registered goroutine.
LEMMA StopReleases ==
  ASSUME IInv, StopWorkers PROVE Owned!Release(Stopped)
<1> USE DEF IInv
<1>1. UNCHANGED <<workerPc, workerSummary>>
  BY DEF StopWorkers, workerVars
<1>2. ASSUME NEW n \in ScoreNames, NEW w \in Workers, Alive(w), NameOf(w) = n,
             ~cancelled[w]
      PROVE  cancelled'[w] <=> n \in Stopped
  <2>1. scoringWorkers[n] = w
    BY <1>2 DEF WorkerInv, LiveWorkersAreRegistered
  <2>2. ASSUME NEW m \in Stopped, scoringWorkers[m] = w PROVE m = n
    BY <1>2, <2>2, SentinelAssumption
       DEF SentinelAssumption, WorkerInv, RegisteredWorkersRun, Stopped
  <2>3. cancelled'[w] <=> \E m \in Stopped : scoringWorkers[m] = w
    BY <1>2 DEF StopWorkers, CancelContexts, TypeOK
  <2>4. QED BY <2>1, <2>2, <2>3
<1>3. \A w \in Workers : cancelled[w] => cancelled'[w]
  BY DEF StopWorkers, CancelContexts
<1>4. \A n \in ScoreNames :
        {w \in Workers : Alive(w)' /\ ~cancelled'[w] /\ NameOf(w)' = n}
        = IF n \in Stopped THEN {} ELSE Publishing[n]
  <2> TAKE n \in ScoreNames
  <2>1. \A w \in Workers : Alive(w)' = Alive(w) /\ NameOf(w)' = NameOf(w)
    BY <1>1 DEF Alive, NameOf
  <2>2. CASE n \in Stopped
    BY <1>2, <1>3, <2>1, <2>2
  <2>3. CASE n \notin Stopped
    BY <1>2, <1>3, <2>1, <2>3 DEF Publishing
  <2>4. QED BY <2>2, <2>3
<1>5. Publishing' = [n \in ScoreNames |->
                       IF n \in Stopped THEN {} ELSE Publishing[n]]
  BY <1>4 DEF Publishing
<1>6. QED BY <1>1, <1>5 DEF Owned!Release, Answering

\* A goroutine takes answers only while its context is alive.
LEMMA WorkerStepOwners ==
  ASSUME IInv, NEW w \in Workers, WorkerNext(w)
  PROVE  \/ UNCHANGED <<Publishing, Answering>>
         \/ Owned!TakeAnswer(w) \/ Owned!Done(w)
<1> USE DEF IInv
<1>1. CASE Exit(w)
  <2>1. /\ cancelled' = cancelled /\ cancelled[w]
        /\ \A v \in Workers \ {w} : UNCHANGED <<workerPc[v], workerSummary[v]>>
    BY <1>1 DEF Exit, Goto, TypeOK, notWorker
  <2>2. Publishing' = Publishing
    BY <2>1 DEF Publishing, Alive, NameOf
  <2>3. workerPc[w] \notin AnswerPcs /\ workerPc'[w] \notin AnswerPcs
    BY <1>1 DEF Exit, Goto, TypeOK, AnswerPcs
  <2>4. Answering' = Answering
    BY <2>1, <2>3 DEF Answering
  <2>5. QED BY <2>2, <2>4
<1>2. CASE ~Exit(w)
  <2>1. /\ UNCHANGED <<workerSummary, cancelled>>
        /\ \A v \in Workers : Alive(v)' = Alive(v)
    BY <1>2 DEF WorkerNext, Tick, Answered, CallFails, Publish,
       CleanOldMetrics, RecordLabelSets, GetScore, PutScore, Goto, TypeOK,
       Alive, notWorker
  <2>2. Publishing' = Publishing
    BY <2>1, OwnersUnchanged
  <2>3. \A v \in Workers \ {w} : workerPc'[v] = workerPc[v]
    BY <1>2 DEF WorkerNext, Tick, Answered, CallFails, Publish,
       CleanOldMetrics, RecordLabelSets, GetScore, PutScore, Goto, TypeOK
  <2>4. CASE Answered(w)
    <3>1. Alive(w) /\ ~cancelled[w] /\ workerPc'[w] = "publish"
      BY <2>4 DEF Answered, ContextAlive, Goto, Alive, TypeOK
    <3>2. NameOf(w) \in ScoreNames
      BY <3>1, NameTyped DEF WorkerInv
    <3>3. Owned!Owns(w)
      BY <3>1, <3>2 DEF Owned!Owns, Publishing
    <3>4. Answering' = Answering \cup {w}
      BY <2>3, <3>1 DEF Answering, AnswerPcs
    <3>5. QED BY <2>2, <3>3, <3>4 DEF Owned!TakeAnswer
  <2>5. CASE ~Answered(w)
    <3>1. workerPc'[w] \in AnswerPcs => workerPc[w] \in AnswerPcs
      BY <1>2, <2>5 DEF WorkerNext, Tick, CallFails, Publish,
         CleanOldMetrics, RecordLabelSets, GetScore, PutScore, Goto, TypeOK,
         AnswerPcs
    <3>2. Answering' = Answering \/ Answering' = Answering \ {w}
      BY <2>3, <3>1 DEF Answering
    <3>3. QED BY <2>2, <3>2 DEF Owned!Done
  <2>6. QED BY <2>4, <2>5
<1>3. QED BY <1>1, <1>2

\* Every step is a step of ScoreOwners, or leaves its variables alone.
LEMMA NextOwners ==
  ASSUME IInv, [Next]_vars
  PROVE  [Owned!Next]_<<Publishing, Answering>>
<1>1. CASE UNCHANGED <<workerPc, workerSummary, cancelled>>
  BY <1>1, OwnersUnchanged DEF Alive, Answering
<1>2. CASE Crash
  BY <1>2 DEF Crash, Publishing, Answering, AnswerPcs, Alive, Owned!Next,
     Owned!Restart
<1>3. CASE StartWorker
  BY <1>3, StartAcquires DEF Owned!Next
<1>4. CASE StopWorkers
  <2>1. Stopped \in SUBSET ScoreNames
    BY DEF Stopped
  <2>2. QED BY <1>4, <2>1, StopReleases DEF Owned!Next
<1>5. CASE \E w \in Workers : WorkerNext(w)
  BY <1>5, WorkerStepOwners DEF Owned!Next
<1>6. QED
  BY <1>1, <1>2, <1>3, <1>4, <1>5 DEF Next, SyncNext, vars, workerVars,
     EditConfigMap, ChangeSecrets, Resync, SyncStart, FetchAuth, DeleteMetrics

\* The agent implements ScoreOwners: whatever comes and goes, a name only gets
\* an owner when it has none, and only owners take answers.
THEOREM NamesHaveOneOwnerAlways == Spec => NamesHaveOneOwner
BY InitOwners, NextOwners, SpecIInv, PTL
   DEF Spec, NamesHaveOneOwner, Owned!Spec

-----------------------------------------------------------------------------
(***************************************************************************)
(* What is exported.                                                       *)
(***************************************************************************)

\* A name that stays is in whatever is synced, needs no token there, and so its
\* goroutine is never stopped.
StayInv ==
  \A n \in Staying :
    /\ syncPc \in {"auth", "workers"} =>
         /\ NeedsNoToken(n)
         /\ \E i \in 1..Len(summaries) : summaries[i].scoreName = n
    /\ n \notin workersToStop
    /\ \A w \in Workers : Alive(w) /\ NameOf(w) = n => ~cancelled[w]

\* The keys that the last round of a name's goroutine has left exported, while
\* it adds those of its answer and takes away the old ones.
Due(n) ==
  LET w == scoringWorkers[n] IN
  IF w = NoWorker THEN previousLabelSets[n]
  ELSE IF workerPc[w] = "clean"
       THEN previousLabelSets[n] \cup KeysOf(results[w])
  ELSE IF workerPc[w] = "record" THEN KeysOf(results[w])
  ELSE previousLabelSets[n]

ExportInv == \A n \in Staying : Exports(gauge[n], Due(n))

\* Setting the gauge for an answer exports its keys beside the old ones.
LEMMA PublishExports ==
  ASSUME NEW labelSets, NEW keys, NEW answer, Exports(labelSets, keys)
  PROVE  Exports(labelSets \cup answer, keys \cup KeysOf(answer))
BY DEF Exports, KeysOf

\* Deleting what the old keys split into leaves the keys of the answer: a key
\* never splits into a label set with another key.
LEMMA CleanExports ==
  ASSUME NEW labelSets \in SUBSET AllSeries, NEW old, NEW answer,
         Exports(labelSets, old \cup KeysOf(answer))
  PROVE  Exports(labelSets \ {SplitKey[k] : k \in old \ KeysOf(answer)},
                 KeysOf(answer))
<1> DEFINE removed == {SplitKey[k] : k \in old \ KeysOf(answer)}
           left == labelSets \ removed
<1>1. ASSUME NEW k \in KeysOf(answer) PROVE k \in KeysOf(left)
  <2>1. PICK s \in labelSets : LabelKey[s] = k
    BY <1>1 DEF Exports, KeysOf
  <2>2. ASSUME NEW j \in old \ KeysOf(answer), s = SplitKey[j] PROVE FALSE
    <3>1. j \in Keys
      <4>1. j \in KeysOf(labelSets)
        BY <2>2 DEF Exports
      <4>2. QED BY <4>1 DEF KeysOf, Keys
    <3>2. LabelKey[s] = j
      BY <2>1, <2>2, <3>1, KeysAssumption
    <3>3. QED BY <1>1, <2>1, <2>2, <3>2
  <2>3. s \in left
    BY <2>1, <2>2
  <2>4. QED BY <2>1, <2>3 DEF KeysOf
<1>2. ASSUME NEW s \in left, SplitKey[LabelKey[s]] = s
      PROVE  LabelKey[s] \in KeysOf(answer)
  <2>1. LabelKey[s] \in old \cup KeysOf(answer)
    BY <1>2 DEF Exports
  <2>2. QED BY <1>2, <2>1
<1>3. QED BY <1>1, <1>2 DEF Exports

LEMMA StayingName == ASSUME NEW n \in Staying PROVE n \in ScoreNames
BY DEF Staying

LEMMA InitExport == Init => StayInv /\ ExportInv
<1> SUFFICES ASSUME Init PROVE StayInv /\ ExportInv
  OBVIOUS
<1>1. StayInv
  BY DEF Init, StayInv, Alive
<1>2. ExportInv
  BY StayingName DEF Init, ExportInv, Due, Exports, KeysOf
<1>3. QED BY <1>1, <1>2

LEMMA StayUnchanged ==
  ASSUME StayInv, UNCHANGED <<syncPc, summaries, workersToStop, workerPc,
                              workerSummary, cancelled>>
  PROVE  StayInv'
BY DEF StayInv, NeedsNoToken, Alive, NameOf

LEMMA ExportUnchanged ==
  ASSUME ExportInv, UNCHANGED <<scoringWorkers, workerPc, results, gauge,
                                previousLabelSets>>
  PROVE  ExportInv'
BY DEF ExportInv, Due

LEMMA CrashExport == ASSUME Crash PROVE StayInv' /\ ExportInv'
<1>1. StayInv'
  BY DEF Crash, StayInv, Alive
<1>2. ExportInv'
  BY StayingName DEF Crash, ExportInv, Due, Exports, KeysOf
<1>3. QED BY <1>1, <1>2

LEMMA SyncStartExport ==
  ASSUME IInv, StayInv, ExportInv, SyncStart PROVE StayInv' /\ ExportInv'
<1>1. UNCHANGED <<scoringWorkers, workerPc, workerSummary, cancelled, results,
                  gauge, previousLabelSets, workersToStop>>
  BY DEF SyncStart, workerVars, outVars, syncVars
<1>2. CASE configMap = NoConfigMap
  BY <1>1, <1>2, StayUnchanged, ExportUnchanged DEF SyncStart, syncVars
<1>3. CASE configMap # NoConfigMap
  <2>1. configMap \in ConfigMaps /\ summaries' = configMap
    BY <1>3 DEF SyncStart, IInv, TypeOK
  <2>2. ASSUME NEW n \in Staying
        PROVE  /\ \E i \in 1..Len(summaries') : summaries'[i].scoreName = n
               /\ \A i \in 1..Len(summaries') :
                    summaries'[i].scoreName = n => ~summaries'[i].auth
    BY <2>1 DEF Staying
  <2>3. StayInv'
    BY <1>1, <2>2 DEF StayInv, NeedsNoToken, Alive, NameOf
  <2>4. QED BY <1>1, <2>3, ExportUnchanged
<1>4. QED BY <1>2, <1>3

LEMMA FetchAuthExport ==
  ASSUME StayInv, ExportInv, FetchAuth PROVE StayInv' /\ ExportInv'
<1>1. /\ UNCHANGED <<summaries, workersToStop, scoringWorkers, workerPc,
                     workerSummary, cancelled, results, gauge,
                     previousLabelSets>>
      /\ syncPc = "auth"
  BY DEF FetchAuth, workerVars, outVars
<1>2. StayInv'
  BY <1>1 DEF StayInv, NeedsNoToken, Alive, NameOf
<1>3. QED BY <1>1, <1>2, ExportUnchanged

LEMMA StartWorkerExport ==
  ASSUME IInv, StayInv, ExportInv, StartWorker PROVE StayInv' /\ ExportInv'
<1> DEFINE s == summaries[next]
<1>1. s.scoreName \in ScoreNames
  <2>1. next \in 1..Len(summaries)
    BY DEF IInv, StartWorker, TypeOK, IndexInv
  <2>2. s \in Summary
    BY <2>1 DEF IInv, TypeOK
  <2>3. QED BY <2>2 DEF Summary
<1>2. /\ UNCHANGED <<summaries, workersToStop, gauge, previousLabelSets>>
      /\ syncPc = "workers"
  BY DEF StartWorker, outVars
<1>3. CASE scoringWorkers[s.scoreName] # NoWorker
  <2>1. UNCHANGED <<scoringWorkers, cancelled, workerPc, workerSummary, results>>
    BY <1>3 DEF StartWorker, workerVars
  <2>2. StayInv'
    BY <1>2, <2>1 DEF StayInv, NeedsNoToken, Alive, NameOf
  <2>3. QED BY <1>2, <2>1, <2>2, ExportUnchanged
<1>4. CASE scoringWorkers[s.scoreName] = NoWorker
  <2>1. PICK w \in Workers : StartedBy(w)
    BY <1>4 DEF StartWorker, StartedBy
  <2>2. /\ scoringWorkers'[s.scoreName] = w
        /\ \A n \in ScoreNames : n # s.scoreName =>
             scoringWorkers'[n] = scoringWorkers[n]
        /\ workerPc'[w] = "loop" /\ cancelled'[w] = FALSE /\ results' = results
        /\ \A v \in Workers : v # w =>
             UNCHANGED <<workerPc[v], workerSummary[v], cancelled[v]>>
    BY <1>1, <2>1 DEF StartedBy, IInv, TypeOK
  <2>3. StayInv'
    BY <1>2, <2>2 DEF StayInv, NeedsNoToken, Alive, NameOf
  <2>4. ASSUME NEW n \in Staying PROVE Exports(gauge[n], Due(n))'
    <3>1. n \in ScoreNames /\ Exports(gauge[n], Due(n))
      BY StayingName DEF ExportInv
    <3>2. CASE n = s.scoreName
      <4>1. Exports(gauge[n], previousLabelSets[n])
        BY <1>4, <3>1, <3>2 DEF Due
      <4>2. QED BY <1>2, <2>2, <3>2, <4>1 DEF Due
    <3>3. CASE n # s.scoreName
      <4>1. scoringWorkers'[n] = scoringWorkers[n]
        BY <2>2, <3>1, <3>3
      <4>2. scoringWorkers[n] # NoWorker =>
              scoringWorkers[n] # w /\ scoringWorkers[n] \in Workers
        BY <2>1, <3>1 DEF StartedBy, IInv, TypeOK, WorkerInv, RegisteredWorkersRun
      <4>3. QED BY <1>2, <2>2, <3>1, <4>1, <4>2 DEF Due
    <3>4. QED BY <3>2, <3>3
  <2>5. QED BY <2>3, <2>4 DEF ExportInv
<1>5. QED BY <1>3, <1>4

LEMMA StopWorkersExport ==
  ASSUME IInv, StayInv, ExportInv, StopWorkers PROVE StayInv' /\ ExportInv'
<1>1. ASSUME NEW n \in Staying PROVE n \notin Stopped
  <2>1. PICK i \in 1..Len(summaries) : summaries[i].scoreName = n
    BY DEF StopWorkers, StayInv
  <2>2. NeedsNoToken(n)
    BY DEF StopWorkers, StayInv
  <2>3. i < next
    BY DEF StopWorkers, IInv, TypeOK
  <2>4. n \in active
    BY <2>1, <2>2, <2>3 DEF StopWorkers, IInv, ActiveInv
  <2>5. QED BY <2>4 DEF Stopped
<1>2. /\ UNCHANGED <<summaries, workerPc, workerSummary, results, gauge,
                     previousLabelSets>>
      /\ syncPc' = "metrics" /\ workersToStop' = Stopped
      /\ cancelled' = CancelContexts(Stopped)
      /\ scoringWorkers' = Deregister(Stopped)
  BY DEF StopWorkers, workerVars, outVars
<1>3. StayInv'
  <2> SUFFICES ASSUME NEW n \in Staying, NEW w \in Workers,
                      Alive(w), NameOf(w) = n
               PROVE  ~cancelled'[w]
    BY <1>1, <1>2 DEF StayInv, Alive, NameOf
  <2>1. ~cancelled[w]
    BY DEF StayInv
  <2>2. ASSUME NEW m \in Stopped, scoringWorkers[m] = w PROVE FALSE
    <3>1. m \in ScoreNames /\ scoringWorkers[m] # NoWorker
      BY <2>2 DEF Stopped
    <3>2. NameOf(w) = m
      BY <2>2, <3>1 DEF IInv, WorkerInv, RegisteredWorkersRun
    <3>3. QED BY <1>1, <2>2, <3>2
  <2>3. QED BY <1>2, <2>1, <2>2 DEF CancelContexts
<1>4. ExportInv'
  <2> SUFFICES ASSUME NEW n \in Staying PROVE Exports(gauge[n], Due(n))'
    BY DEF ExportInv
  <2>1. n \in ScoreNames /\ Exports(gauge[n], Due(n))
    BY StayingName DEF ExportInv
  <2>2. scoringWorkers'[n] = scoringWorkers[n]
    BY <1>1, <1>2, <2>1 DEF Deregister
  <2>3. QED BY <1>2, <2>1, <2>2 DEF Due
<1>5. QED BY <1>3, <1>4

LEMMA DeleteMetricsExport ==
  ASSUME IInv, StayInv, ExportInv, DeleteMetrics PROVE StayInv' /\ ExportInv'
<1>1. /\ UNCHANGED <<summaries, scoringWorkers, cancelled, workerPc,
                     workerSummary, results, previousLabelSets>>
      /\ syncPc' \in {"metrics", "idle"} /\ workersToStop' \subseteq workersToStop
  BY DEF DeleteMetrics, workerVars
<1>2. StayInv'
  BY <1>1 DEF StayInv, Alive, NameOf
<1>3. ASSUME NEW n \in Staying PROVE gauge'[n] = gauge[n]
  <2>1. n \in ScoreNames /\ n \notin workersToStop
    BY StayingName DEF StayInv
  <2>2. QED BY <2>1 DEF DeleteMetrics, IInv, TypeOK
<1>4. ExportInv'
  BY <1>1, <1>3 DEF ExportInv, Due
<1>5. QED BY <1>2, <1>4

\* A goroutine of a name that stays is the registered one.
LEMMA OwnerOfStaying ==
  ASSUME IInv, StayInv, NEW w \in Workers, Alive(w), NEW n \in Staying
  PROVE  scoringWorkers[n] = w <=> NameOf(w) = n
<1>1. ASSUME scoringWorkers[n] = w PROVE NameOf(w) = n
  BY <1>1, StayingName, SentinelAssumption
     DEF IInv, WorkerInv, RegisteredWorkersRun
<1>2. ASSUME NameOf(w) = n PROVE scoringWorkers[n] = w
  BY <1>2 DEF StayInv, IInv, WorkerInv, LiveWorkersAreRegistered
<1>3. QED BY <1>1, <1>2

\* A step of a goroutine is seen in the exports of the name that it is
\* registered for, if any.
LEMMA WorkerExport ==
  ASSUME IInv, StayInv, ExportInv, NEW w \in Workers, WorkerNext(w)
  PROVE  StayInv' /\ ExportInv'
<1> USE DEF Goto
<1>1. Alive(w) /\ NameOf(w) \in ScoreNames
  <2>1. Alive(w)
    BY DEF WorkerNext, Tick, Exit, Answered, CallFails, Publish,
       CleanOldMetrics, RecordLabelSets, GetScore, PutScore, Alive
  <2>2. QED BY <2>1, NameTyped DEF IInv, WorkerInv
<1>2. UNCHANGED <<syncPc, summaries, workersToStop, scoringWorkers, cancelled>>
  BY DEF WorkerNext, Tick, Exit, Answered, CallFails, Publish, CleanOldMetrics,
     RecordLabelSets, GetScore, PutScore, notWorker, syncVars
<1>3. \A v \in Workers : v # w =>
        UNCHANGED <<workerPc[v], workerSummary[v], results[v]>>
  BY DEF WorkerNext, Tick, Exit, Answered, CallFails, Publish, CleanOldMetrics,
     RecordLabelSets, GetScore, PutScore, IInv, TypeOK
<1>4. workerPc'[w] # "none" => workerSummary'[w] = workerSummary[w]
  BY DEF WorkerNext, Tick, Exit, Answered, CallFails, Publish, CleanOldMetrics,
     RecordLabelSets, GetScore, PutScore, IInv, TypeOK
<1>5. StayInv'
  BY <1>1, <1>2, <1>3, <1>4 DEF StayInv, NeedsNoToken, Alive, NameOf
<1>6. \A n \in ScoreNames : n # NameOf(w) =>
        UNCHANGED <<gauge[n], previousLabelSets[n]>>
  BY <1>1 DEF WorkerNext, Tick, Exit, Answered, CallFails, Publish,
     CleanOldMetrics, RecordLabelSets, GetScore, PutScore, outVars, IInv, TypeOK
<1>7. ASSUME NEW n \in Staying PROVE Exports(gauge[n], Due(n))'
  <2>1. n \in ScoreNames /\ Exports(gauge[n], Due(n))
    BY StayingName DEF ExportInv
  <2>2. CASE n # NameOf(w)
    <3>1. scoringWorkers[n] # w
      BY <1>1, <2>2, OwnerOfStaying
    <3>2. scoringWorkers[n] \in Workers \cup {NoWorker}
      BY <2>1 DEF IInv, TypeOK
    <3>3. UNCHANGED <<gauge[n], previousLabelSets[n]>>
      BY <1>6, <2>1, <2>2
    <3>4. QED BY <1>2, <1>3, <2>1, <3>1, <3>2, <3>3 DEF Due
  <2>3. CASE n = NameOf(w)
    <3>1. scoringWorkers[n] = w /\ w # NoWorker /\ scoringWorkers'[n] = w
      BY <1>1, <1>2, <2>3, OwnerOfStaying, SentinelAssumption
    <3>2. ~cancelled[w]
      BY <1>1, <2>3 DEF StayInv
    <3>3. Due(n) = IF workerPc[w] = "clean"
                   THEN previousLabelSets[n] \cup KeysOf(results[w])
                   ELSE IF workerPc[w] = "record" THEN KeysOf(results[w])
                   ELSE previousLabelSets[n]
      BY <3>1 DEF Due
    <3>4. Due(n)' = IF workerPc'[w] = "clean"
                    THEN previousLabelSets'[n] \cup KeysOf(results'[w])
                    ELSE IF workerPc'[w] = "record" THEN KeysOf(results'[w])
                    ELSE previousLabelSets'[n]
      BY <3>1 DEF Due, KeysOf
    <3>0. Exports(gauge'[n], Due(n)') => Exports(gauge[n], Due(n))'
      BY DEF Exports, KeysOf
    <3>5. CASE Tick(w) \/ Answered(w) \/ CallFails(w) \/ GetScore(w) \/ PutScore(w)
      <4>1. gauge' = gauge /\ previousLabelSets' = previousLabelSets
        BY <3>5 DEF Tick, Answered, CallFails, GetScore, PutScore, outVars
      <4>2. workerPc[w] \notin {"clean", "record"}
            /\ workerPc'[w] \notin {"clean", "record"}
        BY <3>5 DEF Tick, Answered, CallFails, GetScore, PutScore, IInv, TypeOK
      <4>3. QED BY <2>1, <3>0, <3>3, <3>4, <4>1, <4>2
    <3>6. CASE Publish(w)
      <4>1. /\ workerPc[w] = "publish" /\ workerPc'[w] = "clean"
            /\ gauge'[n] = gauge[n] \cup results[w]
            /\ results' = results /\ previousLabelSets' = previousLabelSets
        BY <2>1, <2>3, <3>6 DEF Publish, IInv, TypeOK
      <4>2. Due(n)' = Due(n) \cup KeysOf(results[w])
        BY <3>3, <3>4, <4>1
      <4>3. QED BY <2>1, <3>0, <4>1, <4>2, PublishExports
    <3>7. CASE CleanOldMetrics(w)
      <4>1. /\ workerPc[w] = "clean" /\ workerPc'[w] = "record"
            /\ gauge'[n] = gauge[n] \
                 {SplitKey[k] : k \in previousLabelSets[n] \ KeysOf(results[w])}
            /\ results' = results /\ gauge[n] \in SUBSET AllSeries
        BY <2>1, <2>3, <3>7 DEF CleanOldMetrics, OldSeries, IInv, TypeOK
      <4>2. Due(n) = previousLabelSets[n] \cup KeysOf(results[w])
            /\ Due(n)' = KeysOf(results[w])
        BY <3>3, <3>4, <4>1
      <4>3. Exports(gauge'[n], KeysOf(results[w]))
        BY <2>1, <4>1, <4>2, CleanExports
      <4>4. QED BY <3>0, <4>2, <4>3
    <3>8. CASE RecordLabelSets(w)
      <4>1. /\ workerPc[w] = "record" /\ workerPc'[w] \in {"get", "loop"}
            /\ previousLabelSets'[n] = KeysOf(results[w]) /\ gauge' = gauge
        BY <2>1, <2>3, <3>8 DEF RecordLabelSets, IInv, TypeOK
      <4>2. QED BY <2>1, <3>0, <3>3, <3>4, <4>1
    <3>9. QED BY <3>2, <3>5, <3>6, <3>7, <3>8 DEF WorkerNext, Exit
  <2>4. QED BY <2>2, <2>3
<1>8. QED BY <1>5, <1>7 DEF ExportInv

LEMMA NextExport ==
  ASSUME IInv, StayInv, ExportInv, [Next]_vars PROVE StayInv' /\ ExportInv'
<1>1. CASE EditConfigMap \/ ChangeSecrets \/ Resync \/ UNCHANGED vars
  <2>1. UNCHANGED <<syncVars, scoringWorkers, cancelled, workerVars, outVars>>
    BY <1>1 DEF EditConfigMap, ChangeSecrets, Resync, vars
  <2>2. QED BY <2>1, StayUnchanged, ExportUnchanged
            DEF syncVars, workerVars, outVars
<1>2. CASE Crash
  BY <1>2, CrashExport
<1>3. CASE SyncNext
  BY <1>3, SyncStartExport, FetchAuthExport, StartWorkerExport,
     StopWorkersExport, DeleteMetricsExport DEF SyncNext
<1>4. CASE \E w \in Workers : WorkerNext(w)
  BY <1>4, WorkerExport
<1>5. QED BY <1>1, <1>2, <1>3, <1>4 DEF Next

\* Between two rounds a name that stays exports what its last round recorded,
\* and no label set of an older answer that its key gives back, although no lock
\* is held from setting the gauge to recording what was set (performScoring).
THEOREM ExportsLastRoundAlways == Spec => []ExportsLastRound
<1>1. IInv /\ StayInv /\ ExportInv => ExportsLastRound
  <2> SUFFICES ASSUME IInv, StayInv, ExportInv, NEW n \in Staying,
                      \A w \in Workers : Alive(w) /\ NameOf(w) = n =>
                        workerPc[w] \notin {"clean", "record"}
               PROVE  Exports(gauge[n], previousLabelSets[n])
    BY DEF ExportsLastRound
  <2>1. Exports(gauge[n], Due(n)) /\ n \in ScoreNames
    BY StayingName DEF ExportInv
  <2>2. scoringWorkers[n] # NoWorker =>
          /\ scoringWorkers[n] \in Workers
          /\ Alive(scoringWorkers[n]) /\ NameOf(scoringWorkers[n]) = n
    BY <2>1 DEF IInv, TypeOK, WorkerInv, RegisteredWorkersRun
  <2>3. QED BY <2>1, <2>2 DEF Due
<1>2. Spec => [](IInv /\ StayInv /\ ExportInv)
  BY InitIInv, NextIInv, InitExport, NextExport, PTL DEF Spec
<1>3. QED BY <1>1, <1>2, PTL

=============================================================================
