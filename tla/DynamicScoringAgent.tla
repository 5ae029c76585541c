------------------------ MODULE DynamicScoringAgent ------------------------
(***************************************************************************)
(* The agent of the dynamic scoring framework on one managed cluster       *)
(* (dynamic-scoring-framework/pkg/dynamic_scoring_agent/agent.go).         *)
(*                                                                         *)
(* One controller goroutine syncs the ConfigMap of scorer summaries: it    *)
(* starts a scoring goroutine for a score name that has none, and cancels  *)
(* the goroutines of the names that are gone.  Every scoring goroutine     *)
(* asks its scoring API on each tick, exports the answer in the Prometheus *)
(* gauge and sends it to the AddOnPlacementScore of the hub.  A cancelled  *)
(* goroutine only notices at its next request or at the top of its loop,   *)
(* so goroutines of one name can overlap.                                  *)
(*                                                                         *)
(* A summary keeps its score name, whether it needs a token secret, and a  *)
(* value of Configs for all the rest.  A score value is not modelled: a    *)
(* gauge is the set of label sets that it exports for a score name.  What  *)
(* the agent remembers of a round are strings, the label values joined     *)
(* with "||", which it splits again to delete a series: two label sets may *)
(* have the same key, and a key may split into another label set, or into  *)
(* none when a value has a "||" in it.                                     *)
(***************************************************************************)
EXTENDS Naturals, Sequences, FiniteSets

CONSTANTS
  ScoreNames,     \* the names under which scores are published
  Configs,        \* everything else in a summary: endpoints, query, interval
  ToPlacement,    \* the configs whose destination is AddOnPlacementScore
  Series,         \* the label sets the API of a config may answer with
  LabelKey,       \* labelKey: the values of a label set joined with "||"
  SplitKey,       \* what splitting a key at "||" gives, label set or not
  ConfigMaps,     \* the contents the ConfigMap may be given
  NoConfigMap,    \* the ConfigMap does not exist, or has no valid summaries
  SanitizedName,  \* the resource name of the AddOnPlacementScore of a name
  Workers,        \* goroutine slots: the bound on goroutines alive at a time
  NoWorker, NoSummary,
  MaxEdits,       \* bound on changes made to the ConfigMap and the secrets
  MaxCrashes      \* bound on restarts of the agent

Summary == [scoreName : ScoreNames, config : Configs, auth : BOOLEAN]

ASSUME ConfigMapsAssumption ==
  /\ ConfigMaps \subseteq Seq(Summary)
  /\ NoConfigMap \notin ConfigMaps

ASSUME SentinelAssumption ==
  /\ NoWorker \notin Workers
  /\ NoSummary \notin Summary
  /\ ToPlacement \subseteq Configs

ASSUME SanitizedNameAssumption == DOMAIN SanitizedName = ScoreNames

ASSUME BoundsAssumption == MaxEdits \in Nat /\ MaxCrashes \in Nat

AllSeries == UNION {Series[c] : c \in Configs}

Keys == {LabelKey[s] : s \in AllSeries}

\* To join what a key was split into gives the key again.
ASSUME KeysAssumption ==
  /\ DOMAIN LabelKey = AllSeries /\ DOMAIN SplitKey = Keys
  /\ \A k \in Keys : SplitKey[k] \in AllSeries => LabelKey[SplitKey[k]] = k

KeysOf(labelSets) == {LabelKey[s] : s \in labelSets}

ResourceNames == {SanitizedName[n] : n \in ScoreNames}

VARIABLES
  configMap,       \* the ConfigMap as the lister sees it
  readable,        \* the names whose token secret can be read
  queued,          \* the key of the ConfigMap is in the workqueue
  syncPc,          \* where the controller goroutine is in handleConfigMapUpdate
  summaries,       \* the summaries that this sync handles
  next,            \* the index of the summary this sync handles next
  active,          \* the names this sync has found active
  workersToStop,   \* stopped names whose metrics are not deleted yet
  scoringWorkers,  \* c.scoringWorkers: the goroutine registered for a name
  workerPc,        \* where a goroutine is in startScoringLoop/performScoring
  workerSummary,   \* the summary the goroutine was started with
  cancelled,       \* the goroutine's context is cancelled
  results,         \* the label sets of the answer the goroutine handles
  seen,            \* what its Get told it of the AddOnPlacementScore
  gauge,           \* dynamicScoreGauge: label sets exported under a name
  previousLabelSets, \* the keys of the last round that got as far
  placementScore,  \* the AddOnPlacementScores on the hub
  edits, crashes

envVars    == <<configMap, readable, edits>>
syncVars   == <<syncPc, summaries, next, active, workersToStop>>
workerVars == <<workerPc, workerSummary, results, seen>>
outVars    == <<gauge, previousLabelSets, placementScore>>
vars == <<envVars, queued, syncVars, scoringWorkers, cancelled, workerVars,
          outVars, crashes>>

SyncPcs   == {"idle", "auth", "workers", "metrics"}
WorkerPcs == {"none", "loop", "request", "publish", "clean", "record",
              "get", "put"}

Alive(w) == workerPc[w] # "none"
NameOf(w) == workerSummary[w].scoreName

TypeOK ==
  /\ configMap \in ConfigMaps \cup {NoConfigMap}
  /\ readable \subseteq ScoreNames
  /\ queued \in BOOLEAN
  /\ syncPc \in SyncPcs
  /\ summaries \in Seq(Summary)
  /\ next \in Nat \ {0}
  /\ active \subseteq ScoreNames
  /\ workersToStop \subseteq ScoreNames
  /\ scoringWorkers \in [ScoreNames -> Workers \cup {NoWorker}]
  /\ workerPc \in [Workers -> WorkerPcs]
  /\ workerSummary \in [Workers -> Summary \cup {NoSummary}]
  /\ cancelled \in [Workers -> BOOLEAN]
  /\ results \in [Workers -> SUBSET AllSeries]
  /\ seen \in [Workers -> {"absent", "present", "stale"}]
  /\ gauge \in [ScoreNames -> SUBSET AllSeries]
  /\ previousLabelSets \in [ScoreNames -> SUBSET Keys]
  /\ placementScore \in [ResourceNames -> {"absent", "empty", "scores"}]
  /\ edits \in 0..MaxEdits
  /\ crashes \in 0..MaxCrashes

Init ==
  /\ syncPc = "idle" /\ summaries = <<>> /\ next = 1
  /\ active = {} /\ workersToStop = {}
  /\ scoringWorkers = [n \in ScoreNames |-> NoWorker]
  /\ workerPc = [w \in Workers |-> "none"]
  /\ workerSummary = [w \in Workers |-> NoSummary]
  /\ cancelled = [w \in Workers |-> FALSE]
  /\ results = [w \in Workers |-> {}]
  /\ seen = [w \in Workers |-> "absent"]
  /\ gauge = [n \in ScoreNames |-> {}]
  /\ previousLabelSets = [n \in ScoreNames |-> {}]
  /\ configMap \in ConfigMaps \cup {NoConfigMap}
  /\ readable = ScoreNames
  /\ queued = (configMap # NoConfigMap)
  /\ placementScore = [r \in ResourceNames |-> "absent"]
  /\ edits = 0 /\ crashes = 0

-----------------------------------------------------------------------------
(***************************************************************************)
(* Environment: the work agent changes the ConfigMap, secrets come and go, *)
(* the informer resyncs every ten minutes, the process dies.               *)
(***************************************************************************)
EditConfigMap ==
  /\ edits < MaxEdits
  /\ configMap' \in (ConfigMaps \cup {NoConfigMap}) \ {configMap}
  /\ edits' = edits + 1
  /\ queued' = TRUE
  /\ UNCHANGED <<readable, syncVars, scoringWorkers, cancelled, workerVars,
                 outVars, crashes>>

ChangeSecrets ==
  /\ edits < MaxEdits
  /\ readable' \in SUBSET ScoreNames \ {readable}
  /\ edits' = edits + 1
  /\ UNCHANGED <<configMap, queued, syncVars, scoringWorkers, cancelled,
                 workerVars, outVars, crashes>>

Resync ==
  /\ configMap # NoConfigMap
  /\ queued' = TRUE
  /\ UNCHANGED <<envVars, syncVars, scoringWorkers, cancelled, workerVars,
                 outVars, crashes>>

\* The process starts again with nothing in memory; the first list of the
\* informer queues the ConfigMap.
Crash ==
  /\ crashes < MaxCrashes
  /\ crashes' = crashes + 1
  /\ syncPc' = "idle" /\ summaries' = <<>> /\ next' = 1
  /\ active' = {} /\ workersToStop' = {}
  /\ scoringWorkers' = [n \in ScoreNames |-> NoWorker]
  /\ workerPc' = [w \in Workers |-> "none"]
  /\ workerSummary' = [w \in Workers |-> NoSummary]
  /\ cancelled' = [w \in Workers |-> FALSE]
  /\ results' = [w \in Workers |-> {}]
  /\ seen' = [w \in Workers |-> "absent"]
  /\ gauge' = [n \in ScoreNames |-> {}]
  /\ previousLabelSets' = [n \in ScoreNames |-> {}]
  /\ queued' = (configMap # NoConfigMap)
  /\ UNCHANGED <<envVars, placementScore>>

-----------------------------------------------------------------------------
(***************************************************************************)
(* The controller goroutine: sync and handleConfigMapUpdate.               *)
(***************************************************************************)

\* sync: a ConfigMap that is gone or malformed ends the sync without effect.
SyncStart ==
  /\ syncPc = "idle" /\ queued
  /\ queued' = FALSE
  /\ IF configMap = NoConfigMap
     THEN UNCHANGED syncVars
     ELSE /\ syncPc' = "auth"
          /\ summaries' = configMap
          /\ next' = 1
          /\ active' = {}
          /\ UNCHANGED workersToStop
  /\ UNCHANGED <<envVars, scoringWorkers, cancelled, workerVars, outVars,
                 crashes>>

\* fetchSourceAuth and fetchScoringAuth succeed.
AuthFetched(s) == s.auth => s.scoreName \in readable

\* Decide whether the next summary is active.
FetchAuth ==
  /\ syncPc = "auth" /\ next <= Len(summaries)
  /\ LET s == summaries[next] IN
       \/ /\ AuthFetched(s)
          /\ active' = active \cup {s.scoreName}
          /\ syncPc' = "workers"
          /\ UNCHANGED next
       \/ /\ ~AuthFetched(s)
          /\ active' = active \ {s.scoreName}
          /\ next' = next + 1
          /\ UNCHANGED syncPc
  /\ UNCHANGED <<envVars, queued, summaries, workersToStop, scoringWorkers,
                 cancelled, workerVars, outVars, crashes>>

\* The locked section: start a goroutine, or only replace the summary kept
\* in the map, which no goroutine reads.
StartWorker ==
  /\ syncPc = "workers"
  /\ LET s == summaries[next] IN
       IF scoringWorkers[s.scoreName] # NoWorker
       THEN UNCHANGED <<scoringWorkers, cancelled, workerVars>>
       ELSE \E w \in Workers :
              /\ ~Alive(w)
              /\ scoringWorkers' = [scoringWorkers EXCEPT ![s.scoreName] = w]
              /\ workerPc' = [workerPc EXCEPT ![w] = "loop"]
              /\ workerSummary' = [workerSummary EXCEPT ![w] = s]
              /\ cancelled' = [cancelled EXCEPT ![w] = FALSE]
              /\ UNCHANGED <<results, seen>>
  /\ syncPc' = "auth"
  /\ next' = next + 1
  /\ UNCHANGED <<envVars, queued, summaries, active, workersToStop, outVars,
                 crashes>>

\* Mutants of Stopped: every registered name; none.
StoppedAll  == {n \in ScoreNames : scoringWorkers[n] # NoWorker}
StoppedNone == {}

\* The registered names that this sync did not find active.
Stopped == {n \in ScoreNames \ active : scoringWorkers[n] # NoWorker}

\* Mutant of CancelContexts: the goroutines are only taken out of the map.
CancelNothing(ns) == cancelled

CancelContexts(ns) ==
  [w \in Workers |-> cancelled[w] \/ \E n \in ns : scoringWorkers[n] = w]

\* Mutants of Deregister: the goroutines stay in the map; a name without a
\* goroutine loses its entry.
DeregisterNothing(ns) == scoringWorkers
DeregisterDomain(ns)  == [n \in ScoreNames \ ns |-> scoringWorkers[n]]

Deregister(ns) ==
  [n \in ScoreNames |-> IF n \in ns THEN NoWorker ELSE scoringWorkers[n]]

StopWorkers ==
  /\ syncPc = "auth" /\ next > Len(summaries)
  /\ cancelled' = CancelContexts(Stopped)
  /\ scoringWorkers' = Deregister(Stopped)
  /\ workersToStop' = Stopped
  /\ syncPc' = "metrics"
  /\ UNCHANGED <<envVars, queued, summaries, next, active, workerVars,
                 outVars, crashes>>

DeleteMetrics ==
  /\ syncPc = "metrics"
  /\ \/ \E n \in workersToStop :
          /\ gauge' = [gauge EXCEPT ![n] = {}]
          /\ workersToStop' = workersToStop \ {n}
          /\ UNCHANGED syncPc
     \/ /\ workersToStop = {}
        /\ syncPc' = "idle"
        /\ UNCHANGED <<gauge, workersToStop>>
  /\ UNCHANGED <<envVars, queued, summaries, next, active, scoringWorkers,
                 cancelled, workerVars, previousLabelSets, placementScore,
                 crashes>>

SyncNext ==
  SyncStart \/ FetchAuth \/ StartWorker \/ StopWorkers \/ DeleteMetrics

-----------------------------------------------------------------------------
(***************************************************************************)
(* A scoring goroutine: startScoringLoop, performScoring and               *)
(* updateAddOnPlacementScore.                                              *)
(***************************************************************************)
notWorker == <<envVars, queued, syncVars, scoringWorkers, cancelled, crashes>>

Goto(w, pc) == workerPc' = [workerPc EXCEPT ![w] = pc]

\* The select of the loop: with both channels ready Go takes either.
Tick(w) ==
  /\ workerPc[w] = "loop"
  /\ Goto(w, "request")
  /\ UNCHANGED <<notWorker, workerSummary, results, seen, outVars>>

Exit(w) ==
  /\ workerPc[w] = "loop" /\ cancelled[w]
  /\ Goto(w, "none")
  /\ workerSummary' = [workerSummary EXCEPT ![w] = NoSummary]
  /\ results' = [results EXCEPT ![w] = {}]
  /\ seen' = [seen EXCEPT ![w] = "absent"]
  /\ UNCHANGED <<notWorker, outVars>>

\* Mutant of ContextAlive: the requests are made without the context.
ContextUnused(w) == TRUE

ContextAlive(w) == ~cancelled[w]

\* The source query and the scoring request: with the context alive they may
\* be answered, and may always fail.
Answered(w) ==
  /\ workerPc[w] = "request" /\ ContextAlive(w)
  /\ \E r \in SUBSET Series[workerSummary[w].config] :
       results' = [results EXCEPT ![w] = r]
  /\ Goto(w, "publish")
  /\ UNCHANGED <<notWorker, workerSummary, seen, outVars>>

\* The error paths of every call a round makes end the round.
CallFails(w) ==
  /\ workerPc[w] \in {"request", "get", "put"}
  /\ Goto(w, "loop")
  /\ UNCHANGED <<notWorker, workerSummary, results, seen, outVars>>

Publish(w) ==
  /\ workerPc[w] = "publish"
  /\ gauge' = [gauge EXCEPT ![NameOf(w)] = @ \cup results[w]]
  /\ Goto(w, "clean")
  /\ UNCHANGED <<notWorker, workerSummary, results, seen, previousLabelSets,
                 placementScore>>

\* Mutant of OldSeries: the last round's label sets are not cleaned up.
OldSeriesKept(w) == {}

\* DeleteLabelValues of what a key splits into: nothing is deleted if that is
\* no label set, or not the one that was exported.
OldSeries(w) ==
  {SplitKey[k] : k \in previousLabelSets[NameOf(w)] \ KeysOf(results[w])}

\* "Clean up old metrics": the label sets of the last round, without a lock.
CleanOldMetrics(w) ==
  /\ workerPc[w] = "clean"
  /\ gauge' = [gauge EXCEPT ![NameOf(w)] = @ \ OldSeries(w)]
  /\ Goto(w, "record")
  /\ UNCHANGED <<notWorker, workerSummary, results, seen, previousLabelSets,
                 placementScore>>

RecordLabelSets(w) ==
  /\ workerPc[w] = "record"
  /\ previousLabelSets' =
       [previousLabelSets EXCEPT ![NameOf(w)] = KeysOf(results[w])]
  /\ Goto(w, IF workerSummary[w].config \in ToPlacement THEN "get" ELSE "loop")
  /\ UNCHANGED <<notWorker, workerSummary, results, seen, gauge,
                 placementScore>>

GetScore(w) ==
  /\ workerPc[w] = "get"
  /\ seen' = [seen EXCEPT
                ![w] = IF placementScore[SanitizedName[NameOf(w)]] = "absent"
                       THEN "absent" ELSE "present"]
  /\ Goto(w, "put")
  /\ UNCHANGED <<notWorker, workerSummary, results, outVars>>

\* Mutant of Sent: Update in place of UpdateStatus.
SentBySpecUpdate(w) == "empty"

Sent(w) == IF seen[w] = "absent" THEN "empty" ELSE "scores"

\* Create leaves the status out (the resource has a status subresource), so
\* the scores only arrive with the UpdateStatus of a later round.  Both are
\* refused when another goroutine wrote the resource since the Get.
PutScore(w) ==
  LET r == SanitizedName[NameOf(w)] IN
  /\ workerPc[w] = "put" /\ seen[w] # "stale"
  /\ placementScore' = [placementScore EXCEPT ![r] = Sent(w)]
  /\ seen' = [v \in Workers |->
                IF v # w /\ workerPc[v] = "put" /\ SanitizedName[NameOf(v)] = r
                THEN "stale" ELSE seen[v]]
  /\ Goto(w, "loop")
  /\ UNCHANGED <<notWorker, workerSummary, results, gauge, previousLabelSets>>

WorkerNext(w) ==
  \/ Tick(w) \/ Exit(w) \/ Answered(w) \/ CallFails(w) \/ Publish(w)
  \/ CleanOldMetrics(w) \/ RecordLabelSets(w) \/ GetScore(w) \/ PutScore(w)

-----------------------------------------------------------------------------
Next ==
  \/ EditConfigMap \/ ChangeSecrets \/ Resync \/ Crash
  \/ SyncNext
  \/ \E w \in Workers : WorkerNext(w)

Spec == Init /\ [][Next]_vars

(***************************************************************************)
(* The controller runs, the informer resyncs, goroutines run (an HTTP call *)
(* returns: the client has a timeout of 30 seconds), a cancelled goroutine *)
(* does not take the ticker's branch for ever, and a scoring API and the   *)
(* hub that are asked again and again answer some day.                     *)
(***************************************************************************)
Fairness ==
  /\ WF_vars(SyncNext)
  /\ WF_vars(Resync)
  /\ \A w \in Workers : /\ WF_vars(WorkerNext(w))
                        /\ SF_vars(Exit(w))
                        /\ SF_vars(Answered(w))
                        /\ SF_vars(GetScore(w))
                        /\ SF_vars(PutScore(w))

FairSpec == Spec /\ Fairness

-----------------------------------------------------------------------------
(***************************************************************************)
(* Properties.                                                             *)
(***************************************************************************)

\* A goroutine that still may publish (its context is alive) is the one that
\* scoringWorkers has for its name.  In particular no two of them work on one
\* name, whatever stops, restarts and auth failures came before.
LiveWorkersAreRegistered ==
  \A w \in Workers :
    Alive(w) /\ ~cancelled[w] => scoringWorkers[NameOf(w)] = w

\* An entry of scoringWorkers is a running goroutine of that name whose
\* context is alive: a name never has an entry that blocks its restart
\* without anyone scoring it.
RegisteredWorkersRun ==
  \A n \in ScoreNames : LET w == scoringWorkers[n] IN
    w # NoWorker => Alive(w) /\ ~cancelled[w] /\ NameOf(w) = n

\* handleConfigMapUpdate never takes a goroutine off a score whose every
\* summary in the handled ConfigMap needs no token: only a restart of the
\* process, a withdrawn name or an unreadable secret can stop scoring.
StopsOnlyWithdrawn ==
  [][\A n \in ScoreNames :
       scoringWorkers[n] # NoWorker /\ scoringWorkers'[n] # scoringWorkers[n]
         => \/ crashes' # crashes
            \/ \A i \in 1..Len(summaries) : summaries[i].scoreName # n
            \/ \E i \in 1..Len(summaries) :
                 summaries[i].scoreName = n /\ summaries[i].auth]_vars

\* The goroutines that may take answers, with their names, and those that have
\* one at hand.
Publishing ==
  [n \in ScoreNames |->
     {w \in Workers : Alive(w) /\ ~cancelled[w] /\ NameOf(w) = n}]

AnswerPcs == {"publish", "clean", "record", "get", "put"}

Answering == {w \in Workers : workerPc[w] \in AnswerPcs}

Owned == INSTANCE ScoreOwners WITH owners <- Publishing, busy <- Answering

\* The agent implements ScoreOwners: for all its overlapping goroutines, a name
\* only gets a new owner when it has none, and no answer that is published was
\* taken by a goroutine that had been cancelled before.
NamesHaveOneOwner == Owned!Spec

SummariesOf(n) ==
  {configMap[i] : i \in {k \in 1..Len(configMap) : configMap[k].scoreName = n}}

\* Once the ConfigMap and the secrets stop changing, the names it asks to score
\* become and stay registered and the others become and stay unregistered: a
\* failed read of a secret is retried at the next resync although sync swallows
\* the error.  (A name given twice, once with a readable and once with an
\* unreadable token, is started and stopped at every resync.)
WorkersConverge ==
  <>[](configMap # NoConfigMap =>
         \A n \in ScoreNames :
           IF \A s \in SummariesOf(n) : s.auth /\ n \notin readable
           THEN scoringWorkers[n] = NoWorker
           ELSE (\A s \in SummariesOf(n) : s.auth => n \in readable)
                  => scoringWorkers[n] # NoWorker)

\* A name that stays registered with an AddOnPlacementScore destination has its
\* scores on the hub in the end, although Create stores none of them.
ScoresReachTheHub ==
  \A n \in ScoreNames :
    (\E w \in Workers : scoringWorkers[n] = w
                        /\ workerSummary[w].config \in ToPlacement)
      ~> \/ placementScore[SanitizedName[n]] = "scores"
         \/ scoringWorkers[n] = NoWorker

\* The names that every ConfigMap asks to score, and never with a token: a name
\* that is given twice is stopped when the second summary's token is missing.
Staying ==
  {n \in ScoreNames : \A m \in ConfigMaps :
     /\ \E i \in 1..Len(m) : m[i].scoreName = n
     /\ \A i \in 1..Len(m) : m[i].scoreName = n => ~m[i].auth}

\* All the keys are exported, and of the label sets that their key gives back
\* no others.
Exports(labelSets, keys) ==
  /\ keys \subseteq KeysOf(labelSets)
  /\ \A s \in labelSets : SplitKey[LabelKey[s]] = s => LabelKey[s] \in keys

\* As long as the name is never withdrawn, what is exported between two rounds
\* is what the last round recorded: no label set of an older answer stays that
\* its key gives back.  (One that its key does not give back, as a value has a
\* "||" in it or a "|" at its end, does stay: DeleteLabelValues gets other
\* values than were set, agent.go:548.)
ExportsLastRound ==
  \A n \in Staying :
    (\A w \in Workers :
       Alive(w) /\ NameOf(w) = n => workerPc[w] \notin {"clean", "record"})
      => Exports(gauge[n], previousLabelSets[n])

\* "After updating, ConfigMap will update automatically, and the
\* DynamicScoringAgent will access the Scoring API via Skupper"
\* (docs/quickstart.md:330): once the ConfigMap stops changing, the goroutine of
\* a name works with a summary of the ConfigMap.
UpdatesReachWorkers ==
  <>[](configMap # NoConfigMap
         => \A n \in ScoreNames : scoringWorkers[n] # NoWorker
              => \E i \in 1..Len(configMap) :
                   configMap[i] = workerSummary[scoringWorkers[n]])

=============================================================================
