-------------------------- MODULE FLSidecarProofs --------------------------
(***************************************************************************)
(* Proofs about FLSidecar, for every value of its constants: any number of *)
(* goroutines, any contents, any names.                                    *)
(***************************************************************************)
EXTENDS FLSidecar, FiniteSetTheorems, TLAPS

\* What is on its way was in the file: an event comes with a file, the watcher
\* has read one, and a goroutine has what the watcher sent.
FlowInv ==
  /\ events > 0 => file # NoFile
  /\ watcher = "send" => content # NoMetrics
  /\ \A w \in Workers : pc[w] = "update" => held[w] # NoMetrics

\* Who holds the reporter's lock is changing the gauges for the metrics it has
\* stored, and has unregistered the old callback before it registers a new one.
LockInv ==
  \A w \in Workers :
    /\ pc[w] \in {"unregister", "register"} => metrics # NoMetrics
    /\ pc[w] = "register" => registered = {}

\* There are gauges for accepted names only, and when nobody holds the lock
\* they are those of the metrics, and registered.
GaugeInv ==
  /\ gauges \cap Refused = {}
  /\ mu = Nobody => registered = gauges
  /\ mu = Nobody /\ metrics # NoMetrics => gauges = NamesOf(metrics) \ Refused

\* When no event is left, what the file holds is what the watcher sends; then
\* what every goroutine holds that has not stored its content yet; then what
\* the reporter has.
NewestInv ==
  Running /\ events = 0 =>
    /\ watcher = "send" => content = file
    /\ watcher = "wait" /\ ~overlapped =>
         /\ \A w \in Workers : pc[w] = "update" => held[w] = file
         /\ (\A w \in Workers : pc[w] # "update") /\ file \in Contents
              => Reported(file)

IInv == TypeOK /\ FlowInv /\ LockInv /\ GaugeInv /\ NewestInv

-----------------------------------------------------------------------------
LEMMA InitIInv == Init => IInv
<1> SUFFICES ASSUME Init PROVE IInv
  OBVIOUS
<1>1. TypeOK
  <2>1. writes \in 0..MaxWrites /\ events \in 0..MaxEvents
        /\ failures \in 0..MaxFailures
    <3>1. writes = 0 /\ events = 0 /\ failures = 0
      BY DEF Init
    <3>2. QED BY <3>1, BoundsAssumption
  <2>2. \A w \in Workers : (mu = w) = (pc[w] \in {"unregister", "register"})
    BY SentinelAssumption DEF Init
  <2>3. QED BY <2>1, <2>2 DEF Init, TypeOK
<1>2. FlowInv /\ LockInv /\ GaugeInv
  BY DEF Init, FlowInv, LockInv, GaugeInv
<1>3. NewestInv
  BY SentinelAssumption DEF Init, NewestInv
<1>4. QED BY <1>1, <1>2, <1>3 DEF IInv

\* An event leaves the queue of events nonempty.
LEMMA NewEventTyped ==
  ASSUME TypeOK, NewEvent PROVE events' \in 0..MaxEvents /\ events' # 0
BY BoundsAssumption DEF TypeOK, NewEvent

LEMMA TrainingIInv ==
  ASSUME IInv, BeginWrite \/ EndWrite \/ TrainingChanges PROVE IInv'
<1> USE DEF IInv, fileVars, watchVars, mainVars, workerVars, reporterVars,
            readerVars
<1>1. CASE BeginWrite
  <2>1. /\ UNCHANGED <<training, watchVars, mainVars, workerVars, reporterVars,
                       readerVars>>
        /\ file' \in Contents \cup {Partial} /\ NewEvent
        /\ target' \in Contents \cup {NoMetrics}
    BY <1>1 DEF BeginWrite, TypeOK
  <2>2. writes' \in 0..MaxWrites
    BY <1>1, BoundsAssumption DEF BeginWrite, TypeOK
  <2>3. file' # NoFile
    BY <2>1, SentinelAssumption
  <2>4. TypeOK'
    BY <2>1, <2>2, NewEventTyped DEF TypeOK
  <2>5. QED BY <2>1, <2>3, <2>4, NewEventTyped
            DEF FlowInv, LockInv, GaugeInv, NewestInv, Reported
<1>2. CASE EndWrite
  <2>1. /\ UNCHANGED <<training, writes, watchVars, mainVars, workerVars,
                       reporterVars, readerVars>>
        /\ file' \in Contents /\ target' = NoMetrics /\ NewEvent
    BY <1>2 DEF EndWrite, TypeOK
  <2>2. file' # NoFile
    BY <2>1, SentinelAssumption
  <2>3. TypeOK'
    BY <2>1, NewEventTyped DEF TypeOK
  <2>4. QED BY <2>1, <2>2, <2>3, NewEventTyped
            DEF FlowInv, LockInv, GaugeInv, NewestInv, Reported
<1>3. CASE TrainingChanges
  <2>1. /\ UNCHANGED <<file, target, events, writes, watchVars, mainVars,
                       workerVars, reporterVars, readerVars>>
        /\ training' \in {"running", "ended"}
    BY <1>3 DEF TrainingChanges
  <2>2. TypeOK'
    BY <2>1 DEF TypeOK
  <2>3. FlowInv' /\ LockInv' /\ GaugeInv'
    BY <2>1 DEF FlowInv, LockInv, GaugeInv
  <2>4. NewestInv'
    BY <2>1 DEF NewestInv, Reported, Running
  <2>5. QED BY <2>2, <2>3, <2>4
<1>4. QED BY <1>1, <1>2, <1>3

LEMMA WatcherIInv == ASSUME IInv, WatcherNext PROVE IInv'
<1> USE DEF IInv, fileVars, watchVars, mainVars, workerVars, reporterVars,
            readerVars
<1>1. CASE WatchEvent
  <2>1. /\ UNCHANGED <<training, file, target, writes, mainVars, workerVars,
                       reporterVars, readerVars>>
        /\ events > 0 /\ events' = events - 1
        /\ watcher' = "send" /\ content' = file
    BY <1>1 DEF WatchEvent
  <2>2. file \in Contents \cup {Partial} /\ file # NoMetrics
    BY <2>1, SentinelAssumption DEF TypeOK, FlowInv
  <2>3. events' \in 0..MaxEvents
    BY <2>1, BoundsAssumption DEF TypeOK
  <2>4. TypeOK'
    BY <2>1, <2>2, <2>3 DEF TypeOK
  <2>5. FlowInv' /\ LockInv' /\ GaugeInv'
    BY <2>1, <2>2 DEF FlowInv, LockInv, GaugeInv
  <2>6. NewestInv'
    BY <2>1 DEF NewestInv
  <2>7. QED BY <2>4, <2>5, <2>6
<1>2. CASE WatchClose
  <2>1. /\ UNCHANGED <<fileVars, content, mainVars, workerVars, reporterVars,
                       readerVars>>
        /\ watcher' = "closed"
    BY <1>2 DEF WatchClose
  <2>2. TypeOK'
    BY <2>1 DEF TypeOK
  <2>3. QED BY <2>1, <2>2 DEF FlowInv, LockInv, GaugeInv, NewestInv, Reported
<1>3. QED BY <1>1, <1>2 DEF WatcherNext

LEMMA ReceiveIInv == ASSUME IInv, Receive PROVE IInv'
<1> USE DEF IInv, fileVars, watchVars, mainVars, workerVars, reporterVars,
            readerVars
<1>1. PICK w \in Workers :
        /\ pc[w] = "free"
        /\ pc' = [pc EXCEPT ![w] = "update"]
        /\ held' = [held EXCEPT ![w] = content]
  BY DEF Receive
<1>2. /\ UNCHANGED <<fileVars, mainVars, reporterVars, readerVars>>
      /\ main = "loop" /\ watcher = "send"
      /\ watcher' = "wait" /\ content' = NoMetrics
      /\ overlapped' = (\E v \in Workers : pc[v] = "update")
  BY DEF Receive
<1>3. content \in Contents \cup {Partial} /\ content # NoMetrics
  BY <1>2 DEF TypeOK, FlowInv
<1>4. \A v \in Workers :
        /\ v = w => pc'[v] = "update" /\ held'[v] = content
        /\ v # w => pc'[v] = pc[v] /\ held'[v] = held[v]
  BY <1>1 DEF TypeOK
<1>5. TypeOK'
  <2>1. /\ pc' \in [Workers -> {"free", "update", "unregister", "register",
                                "flush"}]
        /\ held' \in [Workers -> Contents \cup {Partial, NoMetrics}]
    BY <1>1, <1>3 DEF TypeOK
  <2>2. \A v \in Workers : (mu' = v) = (pc'[v] \in {"unregister", "register"})
    BY <1>1, <1>2, <1>4 DEF TypeOK
  <2>3. overlapped' \in BOOLEAN
    BY <1>2
  <2>4. QED BY <1>2, <2>1, <2>2, <2>3 DEF TypeOK
<1>6. FlowInv' /\ LockInv' /\ GaugeInv'
  BY <1>2, <1>3, <1>4 DEF FlowInv, LockInv, GaugeInv
<1>7. NewestInv'
  <2>1. SUFFICES ASSUME events = 0, ~overlapped'
                 PROVE  /\ \A v \in Workers : pc'[v] = "update" => held'[v] = file
                        /\ \E v \in Workers : pc'[v] = "update"
    BY <1>2 DEF NewestInv
  <2>2. content = file
    BY <1>2, <2>1 DEF NewestInv, Reported, Running
  <2>3. \A v \in Workers : pc[v] # "update"
    BY <1>2, <2>1
  <2>4. QED BY <1>4, <2>2, <2>3
<1>8. QED BY <1>5, <1>6, <1>7

LEMMA MainIInv == ASSUME IInv, MainNext \/ Check \/ Signal PROVE IInv'
<1>1. /\ UNCHANGED <<fileVars, watchVars, workerVars, reporterVars, readerVars>>
      /\ main' \in {"loop", "shutdown", "lastCollect", "ended"}
      /\ main = "ended" => main' = "ended"
      /\ cancelled' \in BOOLEAN
  BY DEF MainNext, Leave, Shutdown, End, Check, Signal, IInv, TypeOK
<1>2. TypeOK'
  BY <1>1 DEF IInv, TypeOK, fileVars, watchVars, workerVars, reporterVars,
              readerVars
<1>3. FlowInv' /\ LockInv' /\ GaugeInv'
  BY <1>1 DEF IInv, FlowInv, LockInv, GaugeInv, fileVars, watchVars, workerVars,
              reporterVars
<1>4. NewestInv'
  BY <1>1 DEF IInv, NewestInv, Reported, Running, fileVars, watchVars,
              workerVars, reporterVars
<1>5. QED BY <1>2, <1>3, <1>4 DEF IInv

LEMMA ReaderIInv == ASSUME IInv, ReaderNext PROVE IInv'
<1>1. /\ UNCHANGED <<fileVars, watchVars, mainVars, workerVars, reporterVars>>
      /\ reader' \in {"idle", "collect", "export"}
      /\ collected' \in {collected, metrics, NoMetrics}
      /\ exported' \in {exported, collected}
      /\ \/ UNCHANGED failures
         \/ failures < MaxFailures /\ failures' = failures + 1
  BY DEF ReaderNext, ReaderCollect, ReaderObserve, ReaderExport, IInv, TypeOK
<1>2. failures' \in 0..MaxFailures
  BY <1>1, BoundsAssumption DEF IInv, TypeOK
<1>3. TypeOK'
  BY <1>1, <1>2 DEF IInv, TypeOK, fileVars, watchVars, mainVars, workerVars,
                    reporterVars
<1>4. FlowInv' /\ LockInv' /\ GaugeInv' /\ NewestInv'
  BY <1>1 DEF IInv, FlowInv, LockInv, GaugeInv, NewestInv, Reported, Running,
              fileVars, watchVars, mainVars, workerVars, reporterVars
<1>5. QED BY <1>3, <1>4 DEF IInv

-----------------------------------------------------------------------------
(***************************************************************************)
(* The goroutines.                                                         *)
(***************************************************************************)

\* A goroutine that ends.
Ends(w) ==
  /\ pc' = [pc EXCEPT ![w] = "free"]
  /\ held' = [held EXCEPT ![w] = NoMetrics]
  /\ UNCHANGED <<overlapped, fileVars, watchVars, mainVars, reporterVars,
                 collected, exported, failures>>
  /\ reader' \in {reader, "collect"}

LEMMA EndsIInv ==
  ASSUME IInv, NEW w \in Workers, Ends(w),
         pc[w] \in {"update", "flush"},
         pc[w] = "update" => held[w] = Partial
  PROVE  IInv'
<1> USE DEF IInv, Ends, fileVars, watchVars, mainVars, reporterVars
<1>1. \A v \in Workers :
        /\ v = w => pc'[v] = "free"
        /\ v # w => pc'[v] = pc[v] /\ held'[v] = held[v]
  BY DEF TypeOK
<1>2. TypeOK'
  <2>1. /\ pc' \in [Workers -> {"free", "update", "unregister", "register",
                                "flush"}]
        /\ held' \in [Workers -> Contents \cup {Partial, NoMetrics}]
    BY DEF TypeOK
  <2>2. \A v \in Workers : (mu' = v) = (pc'[v] \in {"unregister", "register"})
    BY <1>1 DEF TypeOK
  <2>3. QED BY <2>1, <2>2 DEF TypeOK
<1>3. FlowInv' /\ LockInv' /\ GaugeInv'
  BY <1>1 DEF FlowInv, LockInv, GaugeInv
<1>4. NewestInv'
  <2>1. SUFFICES ASSUME Running, events = 0, watcher = "wait", ~overlapped,
                        \A v \in Workers : pc'[v] # "update", file \in Contents
                 PROVE  Reported(file)'
    BY <1>1 DEF NewestInv, Reported, Running
  <2>2. pc[w] # "update"
    BY <2>1, SentinelAssumption DEF NewestInv
  <2>3. QED BY <1>1, <2>1, <2>2 DEF NewestInv, Reported
<1>5. QED BY <1>2, <1>3, <1>4

\* What UpdateMetrics takes for no change: the same content but for its time,
\* or one that has a time of its own in the place of a metric.
LEMMA UnchangedReported ==
  ASSUME NEW new \in Contents, Unchanged(new), metrics \in Contents
  PROVE  Reported(new)
<1>1. /\ IsFiniteSet(DOMAIN new.metrics) /\ IsFiniteSet(DOMAIN metrics.metrics)
      /\ metrics # NoMetrics /\ metrics.labels = new.labels
  BY ContentsAssumption, SentinelAssumption DEF Unchanged
<1>2. IsFiniteSet(Measured(metrics)) /\ IsFiniteSet(Measured(new))
  BY <1>1, FS_Subset DEF Measured
<1>3. /\ Measured(new) \subseteq Measured(metrics)
      /\ \A name \in Measured(new) :
           /\ name \in DOMAIN metrics.metrics
           /\ metrics.metrics[name] = new.metrics[name]
  BY DEF Unchanged, Measured
<1>4. Cardinality(DOMAIN new.metrics) = Cardinality(Measured(metrics))
  BY DEF Unchanged
<1>5. CASE Stamp \notin DOMAIN new.metrics
  <2>1. Measured(new) = DOMAIN new.metrics
    BY <1>5 DEF Measured
  <2>2. Measured(new) = Measured(metrics)
    BY <1>2, <1>3, <1>4, <2>1, FS_Subset
  <2>3. QED BY <1>1, <1>3, <2>2 DEF Reported
<1>6. CASE Stamp \in DOMAIN new.metrics
  <2>1. Cardinality(Measured(new)) = Cardinality(DOMAIN new.metrics) - 1
    BY <1>1, <1>6, FS_RemoveElement DEF Measured
  <2>2. /\ Cardinality(Measured(new)) \in Nat
        /\ Cardinality(DOMAIN new.metrics) \in Nat
    BY <1>1, <1>2, FS_CardinalityType
  <2>3. Measured(new) # Measured(metrics)
    BY <1>4, <2>1, <2>2
  <2>4. PICK name \in Measured(metrics) : name \notin Measured(new)
    BY <1>3, <2>3
  <2>5. /\ IsFiniteSet(Measured(metrics) \ {name})
        /\ Cardinality(Measured(metrics) \ {name})
             = Cardinality(Measured(metrics)) - 1
    BY <1>2, <2>4, FS_RemoveElement
  <2>6. Measured(new) \subseteq Measured(metrics) \ {name}
    BY <1>3, <2>4
  <2>7. Measured(new) = Measured(metrics) \ {name}
    BY <1>4, <2>1, <2>5, <2>6, FS_Subset
  <2>8. QED BY <1>1, <1>3, <1>6, <2>4, <2>7 DEF Reported
<1>7. QED BY <1>5, <1>6

LEMMA UpdateIInv == ASSUME IInv, NEW w \in Workers, Update(w) PROVE IInv'
<1> USE DEF IInv, fileVars, watchVars, mainVars, readerVars
<1>1. /\ UNCHANGED <<gauges, registered, held, overlapped, fileVars, watchVars,
                     mainVars, readerVars>>
      /\ pc[w] = "update" /\ mu = Nobody
  BY DEF Update, Step, Unlocked
<1>2. held[w] \in Contents
  BY <1>1 DEF Update, TypeOK, FlowInv
<1>3. \/ Unchanged(held[w]) /\ metrics' = metrics /\ metrics # NoMetrics
      \/ ~Unchanged(held[w]) /\ metrics' = held[w]
  BY DEF Update, Unchanged
<1>4. PICK to \in {"flush", "unregister", "register"} :
        pc' = [pc EXCEPT ![w] = to]
  BY DEF Update, Step
<1>5. \A v \in Workers :
        /\ v = w => pc'[v] = to
        /\ v # w => pc'[v] = pc[v]
  BY <1>4 DEF TypeOK
<1>6. \A v \in Workers : pc[v] \notin {"unregister", "register"}
  BY <1>1, SentinelAssumption DEF TypeOK
<1>7. \/ to = "flush" /\ mu' = Nobody
      \/ to \in {"unregister", "register"} /\ mu' = w
  BY <1>1, <1>5 DEF Update, Step, TypeOK
<1>8. TypeOK'
  <2>1. pc' \in [Workers -> {"free", "update", "unregister", "register",
                             "flush"}]
    BY <1>4 DEF TypeOK
  <2>2. \A v \in Workers : (mu' = v) = (pc'[v] \in {"unregister", "register"})
    BY <1>5, <1>6, <1>7, SentinelAssumption
  <2>3. QED BY <1>1, <1>2, <1>3, <1>7, <2>1, <2>2 DEF TypeOK
<1>9. FlowInv'
  BY <1>1, <1>5 DEF FlowInv
<1>10. LockInv'
  <2>1. metrics' # NoMetrics
    BY <1>2, <1>3, SentinelAssumption
  <2>2. to = "register" => registered = {}
    BY <1>5 DEF Update, Step, TypeOK
  <2>3. QED BY <1>1, <1>5, <1>6, <2>1, <2>2 DEF LockInv
<1>11. GaugeInv'
  <2>1. SUFFICES ASSUME mu' = Nobody
                 PROVE  gauges = NamesOf(metrics') \ Refused
    BY <1>1 DEF GaugeInv
  <2>2. CASE Unchanged(held[w])
    <3>1. metrics' = metrics /\ metrics # NoMetrics
      BY <1>3, <2>2
    <3>2. QED BY <1>1, <3>1 DEF GaugeInv, NamesOf
  <2>3. CASE ~Unchanged(held[w])
    <3>1. NamesOf(held[w]) = gauges
      BY <2>1, <2>3, SentinelAssumption DEF Update, NewNames
    <3>2. QED BY <1>3, <2>3, <3>1 DEF GaugeInv
  <2>4. QED BY <2>2, <2>3
<1>12. NewestInv'
  <2>1. SUFFICES ASSUME Running, events = 0, watcher = "wait", ~overlapped
                 PROVE  /\ \A v \in Workers : pc'[v] = "update" => held[v] = file
                        /\ Reported(file)'
    BY <1>1 DEF NewestInv, Reported, Running
  <2>2. \A v \in Workers : pc[v] = "update" => held[v] = file
    BY <2>1 DEF NewestInv
  <2>3. held[w] = file /\ file' = file
    BY <1>1, <2>2
  <2>4. Reported(file)'
    <3>1. CASE Unchanged(held[w])
      <4>1. Reported(file) /\ metrics' = metrics
        BY <1>2, <1>3, <2>3, <3>1, UnchangedReported DEF TypeOK
      <4>2. QED BY <2>3, <4>1 DEF Reported
    <3>2. CASE ~Unchanged(held[w])
      <4>1. metrics' = file /\ metrics' # NoMetrics
        BY <1>2, <1>3, <2>3, <3>2, SentinelAssumption
      <4>2. QED BY <2>3, <4>1 DEF Reported, Measured
    <3>3. QED BY <3>1, <3>2
  <2>5. QED BY <1>1, <1>5, <1>7, <2>2, <2>4
<1>13. QED BY <1>8, <1>9, <1>10, <1>11, <1>12

LEMMA GaugesIInv ==
  ASSUME IInv, NEW w \in Workers, Unregister(w) \/ Register(w) PROVE IInv'
<1> USE DEF IInv, fileVars, watchVars, mainVars, readerVars
<1>1. PICK to \in {"register", "flush"} : pc' = [pc EXCEPT ![w] = to]
  BY DEF Unregister, Register, Step
<1>2. /\ UNCHANGED <<metrics, held, overlapped, fileVars, watchVars, mainVars,
                     readerVars>>
      /\ pc[w] \in {"unregister", "register"}
  BY DEF Unregister, Register, Step
<1>3. mu = w /\ mu # Nobody /\ metrics \in Contents
  BY <1>2, SentinelAssumption DEF TypeOK, LockInv
<1>4. \A v \in Workers :
        /\ v = w => pc'[v] = to
        /\ v # w => pc'[v] = pc[v] /\ pc[v] \notin {"unregister", "register"}
  BY <1>1, <1>3 DEF TypeOK
<1>5. \/ to = "register" /\ mu' = w /\ gauges' = gauges /\ registered' = {}
      \/ /\ to = "flush" /\ mu' = Nobody /\ registered' = gauges'
         /\ gauges' = NamesOf(metrics) \ Refused
  BY <1>3, <1>4 DEF Unregister, Register, Step, TypeOK
<1>6. TypeOK'
  <2>1. pc' \in [Workers -> {"free", "update", "unregister", "register",
                             "flush"}]
    BY <1>1 DEF TypeOK
  <2>2. \A v \in Workers : (mu' = v) = (pc'[v] \in {"unregister", "register"})
    BY <1>4, <1>5, SentinelAssumption
  <2>3. gauges' \cup registered' \subseteq UNION {NamesOf(c) : c \in Contents}
    BY <1>3, <1>5 DEF TypeOK
  <2>4. QED BY <1>2, <1>5, <2>1, <2>2, <2>3 DEF TypeOK
<1>7. FlowInv' /\ LockInv'
  BY <1>2, <1>4, <1>5 DEF FlowInv, LockInv
<1>8. GaugeInv'
  BY <1>2, <1>3, <1>5 DEF GaugeInv
<1>9. NewestInv'
  BY <1>2, <1>4, <1>5 DEF NewestInv, Reported, Running
<1>10. QED BY <1>6, <1>7, <1>8, <1>9

LEMMA WorkerIInv == ASSUME IInv, NEW w \in Workers, WorkerNext(w) PROVE IInv'
<1>1. CASE Drop(w)
  <2>1. Ends(w) /\ pc[w] = "update" /\ held[w] = Partial /\ w \in Workers
    BY <1>1 DEF Drop, Ends, readerVars
  <2>2. QED BY <2>1, EndsIInv
<1>2. CASE Flush(w)
  <2>1. Ends(w) /\ pc[w] = "flush" /\ w \in Workers
    BY <1>2 DEF Flush, Ends
  <2>2. QED BY <2>1, EndsIInv
<1>3. QED BY <1>1, <1>2, UpdateIInv, GaugesIInv DEF WorkerNext

LEMMA NextIInv == IInv /\ [Next]_vars => IInv'
<1> SUFFICES ASSUME IInv, [Next]_vars PROVE IInv'
  OBVIOUS
<1>1. CASE UNCHANGED vars
  BY <1>1 DEF vars, fileVars, watchVars, mainVars, workerVars, reporterVars,
     readerVars, IInv, TypeOK, FlowInv, LockInv, GaugeInv, NewestInv, Reported,
     Running
<1>2. QED BY <1>1, TrainingIInv, WatcherIInv, ReceiveIInv, MainIInv, ReaderIInv,
             WorkerIInv DEF Next

LEMMA IInvAlways == Spec => []IInv
BY InitIInv, NextIInv, PTL DEF Spec

-----------------------------------------------------------------------------
\* Type correctness; among others, the reporter's lock has exactly one holder,
\* the goroutine that is changing the gauges (UpdateMetrics).
THEOREM TypeCorrect == Spec => []TypeOK
<1>1. IInv => TypeOK
  BY DEF IInv
<1>2. QED BY <1>1, IInvAlways, PTL

\* For any number of goroutines and any contents: once nothing is on its way,
\* the reporter has what the file holds, but perhaps for one metric that is gone
\* when the file has a time of its own, unless the last content was received
\* while an older one was still on its way; and when the reporter's lock is
\* free the callback is registered for exactly the metrics it will observe
\* (Run, parseAndPushMetrics, UpdateMetrics).
THEOREM ReporterFollowsFileAlways == Spec => []ReporterFollowsFile
<1>1. IInv => ReporterFollowsFile
  BY DEF IInv, GaugeInv, NewestInv, ReporterFollowsFile, Delivered
<1>2. QED BY <1>1, IInvAlways, PTL

=============================================================================
