------------------------------ MODULE FLSidecar ------------------------------
(***************************************************************************)
(* The sidecar of a federated training                                     *)
(* (federated-learning-controller/internal/sidecar).                       *)
(*                                                                         *)
(* The training writes its metrics to a file.  The watcher reads the file  *)
(* on every event and hands the content to the main loop, which starts a   *)
(* goroutine for it: it parses the content, stores the metrics in the      *)
(* reporter and asks the reader of the OpenTelemetry library to export     *)
(* them.  A second goroutine looks every five seconds whether the training *)
(* is still there, and ends the sidecar when it is not.                    *)
(*                                                                         *)
(* The goroutines meet at two locks: `mu' is the reporter's; the library's *)
(* lock is held while it collects, that is while it runs the callback that *)
(* the reporter registered, and taken to register or unregister one.       *)
(***************************************************************************)
EXTENDS Naturals, FiniteSets

CONSTANTS
  Contents,     \* parsable contents of the file: [metrics, labels], the first
                \* of them a function from names to values
  Stamp,        \* the name "timestamp"
  Refused,      \* names the library makes no gauge for
  Partial,      \* what the file holds while it is written
  NoFile,
  NoMetrics,
  Workers,      \* bound on the goroutines that run parseAndPushMetrics
  Nobody,
  MaxWrites,    \* bound on writes of the file
  MaxEvents,    \* bound on events of the file that nobody read yet
  MaxFailures   \* bound on exports that fail

VARIABLES
  training,     \* the main container's process: "starting", "running", "ended"
  file, target, \* the file, and what the training is writing to it
  events,       \* the events the watcher did not take yet
  watcher,      \* "wait", "send" or "closed"
  content,      \* what the watcher is about to send
  main,         \* "loop", "shutdown", "lastCollect" or "ended"
  cancelled,
  pc, held,     \* of the workers: where they are, with what content
  mu,           \* who holds the reporter's lock
  metrics,      \* the reporter's metrics and labels
  gauges,       \* the names there are gauges for
  registered,   \* the names the registered callback is for; {}: none
  reader,       \* "idle", "collect" or "export"
  collected,    \* what it collected
  exported,     \* what the collector on the cluster has
  overlapped,   \* the last content was received while another one was still
                \* on its way to the reporter
  writes, failures

ASSUME ContentsAssumption ==
  /\ Stamp \notin Refused
  /\ \A c \in Contents :
       IsFiniteSet(DOMAIN c.metrics) /\ DOMAIN c.metrics # {}

\* Partial, NoFile, NoMetrics are no contents, and Nobody is no goroutine.
ASSUME SentinelAssumption ==
  /\ {Partial, NoFile, NoMetrics} \cap Contents = {}
  /\ Partial # NoFile /\ Partial # NoMetrics
  /\ Nobody \notin Workers

ASSUME BoundsAssumption ==
  MaxWrites \in Nat /\ MaxEvents \in Nat /\ MaxFailures \in Nat

fileVars == <<training, file, target, events, writes>>
watchVars == <<watcher, content>>
mainVars == <<main, cancelled>>
workerVars == <<pc, held, overlapped>>
reporterVars == <<mu, metrics, gauges, registered>>
readerVars == <<reader, collected, exported, failures>>
vars == <<fileVars, watchVars, mainVars, workerVars, reporterVars, readerVars>>

\* The reporter adds the time of the update, or puts it in place of the
\* training's.
NamesOf(c) == DOMAIN c.metrics \cup {Stamp}

\* What it compares of the metrics.
Measured(c) == DOMAIN c.metrics \ {Stamp}

TypeOK ==
  /\ training \in {"starting", "running", "ended"}
  /\ file \in Contents \cup {Partial, NoFile}
  /\ target \in Contents \cup {NoMetrics}
  /\ events \in 0..MaxEvents
  /\ watcher \in {"wait", "send", "closed"}
  /\ content \in Contents \cup {Partial, NoMetrics}
  /\ main \in {"loop", "shutdown", "lastCollect", "ended"}
  /\ cancelled \in BOOLEAN
  /\ pc \in [Workers -> {"free", "update", "unregister", "register", "flush"}]
  /\ held \in [Workers -> Contents \cup {Partial, NoMetrics}]
  /\ mu \in Workers \cup {Nobody}
  /\ \A w \in Workers : (mu = w) = (pc[w] \in {"unregister", "register"})
  /\ {metrics, collected, exported} \subseteq Contents \cup {NoMetrics}
  /\ gauges \cup registered \subseteq UNION {NamesOf(c) : c \in Contents}
  /\ reader \in {"idle", "collect", "export"}
  /\ overlapped \in BOOLEAN
  /\ writes \in 0..MaxWrites /\ failures \in 0..MaxFailures

Init ==
  /\ training \in {"starting", "running"} /\ file = NoFile /\ target = NoMetrics
  /\ events = 0 /\ writes = 0
  /\ watcher = "wait" /\ content = NoMetrics
  /\ main = "loop" /\ cancelled = FALSE
  /\ pc = [w \in Workers |-> "free"] /\ held = [w \in Workers |-> NoMetrics]
  /\ overlapped = FALSE
  /\ mu = Nobody /\ metrics = NoMetrics
  /\ gauges = {} /\ registered = {}
  /\ reader = "idle"
  /\ collected = NoMetrics /\ exported = NoMetrics
  /\ failures = 0

Running == main # "ended"

-----------------------------------------------------------------------------
(***************************************************************************)
(* The training and the kernel.  Equal events in a row may become one.     *)
(* What the training does after the sidecar was told to end is left out.   *)
(***************************************************************************)
NewEvent ==
  \/ events < MaxEvents /\ events' = events + 1
  \/ events > 0 /\ UNCHANGED events

\* The training replaces the file, or empties it and then writes it.
BeginWrite ==
  /\ training = "running" /\ ~cancelled /\ target = NoMetrics
  /\ writes < MaxWrites
  /\ writes' = writes + 1
  /\ \E c \in Contents :
       \/ file' = c /\ UNCHANGED target
       \/ file' = Partial /\ target' = c
  /\ NewEvent
  /\ UNCHANGED <<training, watchVars, mainVars, workerVars, reporterVars,
                 readerVars>>

EndWrite ==
  /\ training = "running" /\ ~cancelled /\ target # NoMetrics
  /\ file' = target /\ target' = NoMetrics
  /\ NewEvent
  /\ UNCHANGED <<training, writes, watchVars, mainVars, workerVars,
                 reporterVars, readerVars>>

TrainingChanges ==
  /\ ~cancelled
  /\ \/ training = "starting" /\ training' = "running"
     \/ training = "running" /\ training' = "ended"
  /\ UNCHANGED <<file, target, events, writes, watchVars, mainVars, workerVars,
                 reporterVars, readerVars>>

-----------------------------------------------------------------------------
(***************************************************************************)
(* The watcher.                                                            *)
(***************************************************************************)
\* It takes an event and reads the file; a write in between has an event of
\* its own.
WatchEvent ==
  /\ Running /\ watcher = "wait" /\ events > 0
  /\ events' = events - 1
  /\ watcher' = "send" /\ content' = file
  /\ UNCHANGED <<training, file, target, writes, mainVars, workerVars,
                 reporterVars, readerVars>>

WatchClose ==
  /\ Running /\ watcher = "wait" /\ cancelled /\ watcher' = "closed"
  /\ UNCHANGED <<fileVars, content, mainVars, workerVars, reporterVars,
                 readerVars>>

-----------------------------------------------------------------------------
(***************************************************************************)
(* The main loop and the goroutine that looks for the training.            *)
(***************************************************************************)
\* The channel has no buffer: the watcher is at its send.
Receive ==
  /\ main = "loop" /\ watcher = "send"
  /\ \E w \in Workers :
       /\ pc[w] = "free"
       /\ pc' = [pc EXCEPT ![w] = "update"]
       /\ held' = [held EXCEPT ![w] = content]
  /\ overlapped' = (\E w \in Workers : pc[w] = "update")
  /\ watcher' = "wait" /\ content' = NoMetrics
  /\ UNCHANGED <<fileVars, mainVars, reporterVars, readerVars>>

Leave ==
  /\ main = "loop" /\ (cancelled \/ watcher = "closed")
  /\ main' = "shutdown"
  /\ UNCHANGED <<fileVars, watchVars, cancelled, workerVars, reporterVars,
                 readerVars>>

\* Mutant of TrainingExited: the training is looked for only at the start.
TrainingExitedEarly == training = "starting"

\* A training that is not up yet looks like one that has ended.
TrainingExited == training # "running"

Check ==
  /\ Running /\ ~cancelled /\ TrainingExited
  /\ cancelled' = TRUE
  /\ UNCHANGED <<fileVars, watchVars, main, workerVars, reporterVars,
                 readerVars>>

\* SIGTERM or SIGINT.
Signal ==
  /\ Running /\ ~cancelled /\ cancelled' = TRUE
  /\ UNCHANGED <<fileVars, watchVars, main, workerVars, reporterVars,
                 readerVars>>

\* Shutdown waits for the reader and lets it collect a last time; the context
\* is cancelled already, so that this is not exported.
Shutdown ==
  /\ main = "shutdown" /\ reader = "idle" /\ main' = "lastCollect"
  /\ UNCHANGED <<fileVars, watchVars, cancelled, workerVars, reporterVars,
                 readerVars>>

\* The callback can run: nobody holds the lock it takes.
CallbackRuns == registered = {} \/ mu = Nobody

End ==
  /\ main = "lastCollect" /\ CallbackRuns /\ main' = "ended"
  /\ UNCHANGED <<fileVars, watchVars, cancelled, workerVars, reporterVars,
                 readerVars>>

-----------------------------------------------------------------------------
(***************************************************************************)
(* The library's reader: one collection and export at a time, every        *)
(* interval or when a worker asks.                                         *)
(***************************************************************************)
Collecting == reader = "collect" \/ main = "lastCollect"

\* Mutant of ReaderCollect: there is no interval.
ReaderCollectNever == FALSE /\ UNCHANGED vars

ReaderCollect ==
  /\ main = "loop" /\ reader = "idle" /\ reader' = "collect"
  /\ UNCHANGED <<fileVars, watchVars, mainVars, workerVars, reporterVars,
                 collected, exported, failures>>

\* The callback: it observes the metrics under the reporter's lock.
ReaderObserve ==
  /\ Running /\ reader = "collect" /\ CallbackRuns
  /\ reader' = "export"
  /\ collected' = IF registered = {} THEN NoMetrics ELSE metrics
  /\ UNCHANGED <<fileVars, watchVars, mainVars, workerVars, reporterVars,
                 exported, failures>>

ReaderExport ==
  /\ Running /\ reader = "export" /\ reader' = "idle"
  /\ \/ /\ ~cancelled
        /\ exported' = IF collected = NoMetrics THEN exported ELSE collected
        /\ UNCHANGED failures
     \/ /\ failures < MaxFailures /\ failures' = failures + 1
        /\ UNCHANGED exported
     \/ cancelled /\ UNCHANGED <<exported, failures>>
  /\ collected' = NoMetrics
  /\ UNCHANGED <<fileVars, watchVars, mainVars, workerVars, reporterVars>>

-----------------------------------------------------------------------------
(***************************************************************************)
(* parseAndPushMetrics.                                                    *)
(***************************************************************************)

\* Mutant of Unlocked: nobody looks at the reporter's lock.
UnlockedAlways == TRUE

Unlocked == mu = Nobody

\* Mutant of Unchanged: only the names are compared.
UnchangedNames(new) ==
  metrics # NoMetrics /\ DOMAIN new.metrics = DOMAIN metrics.metrics

\* No time is compared, but the new content's own is counted.
Unchanged(new) ==
  /\ metrics # NoMetrics /\ new.labels = metrics.labels
  /\ Cardinality(DOMAIN new.metrics) = Cardinality(Measured(metrics))
  /\ \A name \in Measured(new) :
       /\ name \in DOMAIN metrics.metrics
       /\ new.metrics[name] = metrics.metrics[name]

NewNames(names) == names # gauges

Step(w, to) == pc' = [pc EXCEPT ![w] = to] /\ UNCHANGED <<held, overlapped>>

\* ParseContetnt.
Drop(w) ==
  /\ Running /\ pc[w] = "update" /\ held[w] = Partial
  /\ pc' = [pc EXCEPT ![w] = "free"]
  /\ held' = [held EXCEPT ![w] = NoMetrics]
  /\ UNCHANGED <<overlapped, fileVars, watchVars, mainVars, reporterVars,
                 readerVars>>

\* UpdateMetrics up to the change of the gauges, where it keeps its lock.
Update(w) ==
  LET new == held[w] IN
  /\ Running /\ pc[w] = "update" /\ new # Partial /\ Unlocked
  /\ \/ /\ Unchanged(new)
        /\ Step(w, "flush") /\ UNCHANGED <<mu, metrics>>
     \/ /\ ~Unchanged(new) /\ ~NewNames(NamesOf(new))
        /\ Step(w, "flush") /\ metrics' = new /\ UNCHANGED mu
     \/ /\ ~Unchanged(new) /\ NewNames(NamesOf(new))
        /\ Step(w, IF registered = {} THEN "register" ELSE "unregister")
        /\ metrics' = new /\ mu' = w
  /\ UNCHANGED <<gauges, registered, fileVars, watchVars, mainVars, readerVars>>

\* Unregister takes the library's lock.
Unregister(w) ==
  /\ Running /\ pc[w] = "unregister" /\ ~Collecting
  /\ registered' = {} /\ Step(w, "register")
  /\ UNCHANGED <<mu, metrics, gauges, fileVars, watchVars, mainVars, readerVars>>

\* So do the new gauges and RegisterCallback; a name that is refused has none.
Register(w) ==
  /\ Running /\ pc[w] = "register" /\ ~Collecting
  /\ gauges' = NamesOf(metrics) \ Refused /\ registered' = gauges'
  /\ mu' = Nobody /\ Step(w, "flush")
  /\ UNCHANGED <<metrics, fileVars, watchVars, mainVars, readerVars>>

\* ForceFlush: the reader collects at once, or when it is done; after ten
\* seconds the worker gives up.  It does nothing with the answer.
Flush(w) ==
  /\ Running /\ pc[w] = "flush"
  /\ IF main = "loop" /\ reader = "idle" THEN reader' = "collect"
                                       ELSE UNCHANGED reader
  /\ pc' = [pc EXCEPT ![w] = "free"]
  /\ held' = [held EXCEPT ![w] = NoMetrics]
  /\ UNCHANGED <<overlapped, fileVars, watchVars, mainVars, reporterVars,
                 collected, exported, failures>>

WorkerNext(w) ==
  \/ Drop(w) \/ Update(w) \/ Unregister(w) \/ Register(w)
  \/ Flush(w)

WatcherNext == WatchEvent \/ WatchClose

ReaderNext == ReaderCollect \/ ReaderObserve \/ ReaderExport

MainNext == Leave \/ Shutdown \/ End

Next ==
  \/ BeginWrite \/ EndWrite \/ TrainingChanges \/ Signal
  \/ WatcherNext \/ Receive \/ MainNext \/ Check \/ ReaderNext
  \/ \E w \in Workers : WorkerNext(w)

Spec == Init /\ [][Next]_vars

(***************************************************************************)
(* The goroutines run and the locks are fair; the training need not start, *)
(* write or end.                                                           *)
(***************************************************************************)
FairSpec ==
  /\ Spec
  /\ WF_vars(WatcherNext) /\ WF_vars(Receive) /\ WF_vars(MainNext)
  /\ WF_vars(Check) /\ WF_vars(ReaderNext)
  /\ \A w \in Workers : SF_vars(WorkerNext(w))

-----------------------------------------------------------------------------
(***************************************************************************)
(* Properties.                                                             *)
(***************************************************************************)

\* The reporter holds its lock and waits for the library's, while the library
\* collects and its callback waits for the reporter's: neither goes on.
Stuck ==
  /\ Collecting /\ registered # {}
  /\ \E w \in Workers : mu = w

\* Nothing is on its way from the file to the reporter.
Delivered ==
  /\ events = 0 /\ watcher = "wait" /\ \A w \in Workers : pc[w] # "update"

\* The reporter has what content c says; but from a content with a time of its
\* own it may not notice that one metric is gone, and keep that one.
Reported(c) ==
  /\ metrics # NoMetrics /\ metrics.labels = c.labels
  /\ \A name \in Measured(c) :
       /\ name \in DOMAIN metrics.metrics
       /\ metrics.metrics[name] = c.metrics[name]
  /\ \/ Measured(metrics) = Measured(c)
     \/ /\ Stamp \in DOMAIN c.metrics
        /\ \E name \in Measured(metrics) :
             Measured(c) = Measured(metrics) \ {name}

\* The file is never read for the last time before it is written, though it
\* may be read empty and several writes may make one event: once nothing is on
\* its way, the reporter has what the file holds (see Reported), unless the
\* last content was on its way together with an older one, which may have come
\* after it.  And whenever the reporter's lock is free, the callback is
\* registered for all the metrics it will observe and for nothing else,
\* whatever names appear, go or are refused.
ReporterFollowsFile ==
  /\ Running /\ Delivered /\ ~overlapped /\ file \in Contents => Reported(file)
  /\ mu = Nobody /\ metrics # NoMetrics =>
       registered = gauges /\ gauges = NamesOf(metrics) \ Refused

\* The collector always gets what the reporter holds, whatever exports failed,
\* until the sidecar is told to end or is stuck.
MetricsAreSent == []<>(exported = metrics \/ cancelled \/ Stuck)

\* When the training has ended the sidecar ends too, though its watcher may
\* wait for somebody to receive; otherwise the Job would never complete.  The
\* one exception is a sidecar that is stuck.
EndsWithTraining == training = "ended" ~> (main = "ended" \/ Stuck)

=============================================================================
