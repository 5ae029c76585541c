---------------------- MODULE FederatedLearningProofs ----------------------
(***************************************************************************)
(* Proofs about FederatedLearning, for every value of its constants: any   *)
(* clusters, kinds, addresses, edits, failures and restarts.               *)
(***************************************************************************)
EXTENDS FederatedLearning, TLAPS

\* The steps that only OpenFL has, all that deploy, and those of a deletion.
Serving ==
  {"service", "job", "address", "client", "decisions", "works", "running"}

Deploying ==
  Serving \cup {"phase", "placement", "serverApp", "clientApp", "check"}

Pruning == {"pruneServer", "pruneClient", "pruneWorks", "removeFinalizer"}

\* m is a version of the FederatedLearning: deletion and finalizer stay.
Older(m) ==
  /\ inst = Gone => m.deleting \/ ~m.finalizer
  /\ inst # Gone /\ m.deleting => inst.deleting
  /\ inst # Gone /\ m.finalizer => inst.finalizer

\* What the deferred update writes over inst.
MayWrite(m) ==
  /\ inst.phase = m.phase \/ <<inst.phase, m.phase>> \in PhaseSteps
  /\ inst.address # NoAddress => m.address # NoAddress
  /\ ~inst.deleting /\ m.address # NoAddress => ingress # NoAddress

\* The copy in memory is the stored object as long as its resource version is
\* current, up to what a failed step has left in it for the deferred update.
CopyInv ==
  /\ (pc = "idle") <=> (mem = Gone)
  /\ cache # Gone => Older(cache)
  /\ mem # Gone => Older(mem)
  /\ fresh => inst # Gone /\ mem # Gone
  /\ fresh /\ pc # "end" => mem = inst
  /\ fresh /\ pc = "end" => MayWrite(mem)

\* What Reconcile has found out when it comes to a step.
StepInv ==
  /\ pc = "finalizer" => ~mem.deleting
  /\ pc \in Deploying => mem.finalizer /\ ~mem.deleting
  /\ pc \in Pruning => mem.deleting /\ (cache # Gone => cache.deleting)
  /\ pc = "phase" => mem.phase = ""
  /\ pc \in Deploying \ {"phase"} =>
       \/ mem.phase \in {"Waiting", "Running"}
       \/ mem.phase = "Completed" /\ pc = "check"
  /\ pc \in Serving => kind # "Flower"

\* The status has an address only when the network gave one, and has it before
\* the clients are deployed.
AddressInv ==
  /\ inst # Gone /\ ~inst.deleting /\ inst.address # NoAddress
       => ingress # NoAddress
  /\ inst # Gone /\ pc \in {"client", "decisions", "works"}
       => inst.address # NoAddress
  /\ \A c \in Clusters :
       inst # Gone /\ HasWork(c) => inst.address # NoAddress /\ inst.finalizer

\* The clean-up finds every work that is not lost: its cluster is decided, by
\* a Placement that the cache has, until the clean-up takes it up.
WorksInv ==
  /\ \A c \in Clusters : HasWork(c) => kind # "Flower"
  /\ \A c \in Clusters : HasWork(c) /\ c \notin lost =>
       /\ inst # Gone /\ placement = "seen" /\ c \in decided
       /\ pc # "removeFinalizer"
       /\ pc = "pruneWorks" => c \in todo
  /\ pc \in {"address", "client", "decisions", "works"} => placement = "seen"
  /\ pc = "works" => todo \subseteq decided \cup lost

SpecInv == inst # Gone => inst.spec <= edits

IInv == TypeOK /\ CopyInv /\ StepInv /\ AddressInv /\ WorksInv /\ SpecInv

-----------------------------------------------------------------------------
LEMMA InitIInv == Init => IInv
<1> SUFFICES ASSUME Init PROVE IInv
  OBVIOUS
<1>1. Created \in Instance /\ Created # Gone
  <2>1. Created \in Instance
    BY BoundsAssumption DEF Created, Instance, Phases
  <2>2. QED BY <2>1, SentinelAssumption
<1>2. TypeOK
  <2>1. edits \in 0..MaxEdits /\ failures \in 0..MaxFailures
        /\ restarts \in 0..MaxRestarts
    <3>1. edits = 0 /\ failures = 0 /\ restarts = 0
      BY DEF Init
    <3>2. QED BY <3>1, BoundsAssumption
  <2>2. QED BY <1>1, <2>1 DEF Init, TypeOK, Steps
<1>3. CopyInv /\ StepInv
  BY <1>1 DEF Init, CopyInv, StepInv, Older, Created, Deploying, Serving,
              Pruning
<1>4. AddressInv /\ SpecInv
  <2>1. inst.address = NoAddress /\ inst.spec = 0 /\ edits = 0 /\ pc = "idle"
    BY DEF Init, Created
  <2>2. \A c \in Clusters : ~HasWork(c)
    BY DEF Init, HasWork
  <2>3. QED BY <2>1, <2>2 DEF AddressInv, SpecInv
<1>5. WorksInv
  BY DEF Init, WorksInv, HasWork
<1>6. QED BY <1>2, <1>3, <1>4, <1>5 DEF IInv

\* During a call, but for its last step, there is a copy, and it is the stored
\* object when its resource version is current.
LEMMA CopyTyped ==
  ASSUME IInv, pc # "idle"
  PROVE  /\ mem \in Instance /\ mem # Gone
         /\ fresh => inst \in Instance /\ inst # Gone
         /\ fresh /\ pc # "end" => mem = inst
BY DEF IInv, TypeOK, CopyInv

\* The invariant speaks of nothing else.
LEMMA FrameIInv ==
  ASSUME IInv, TypeOK',
         UNCHANGED <<kind, inst, cache, mem, fresh, pc, placement, decided,
                     ingress, works, todo, lost, edits>>
  PROVE  IInv'
<1>1. CopyInv'
  BY DEF IInv, CopyInv, Older, MayWrite
<1>2. StepInv'
  BY DEF IInv, StepInv
<1>3. AddressInv' /\ WorksInv' /\ SpecInv'
  BY DEF IInv, AddressInv, WorksInv, SpecInv, HasWork
<1>4. QED BY <1>1, <1>2, <1>3 DEF IInv

-----------------------------------------------------------------------------
(***************************************************************************)
(* Steps that go to the deferred update with m as the copy.                *)
(***************************************************************************)
Ends(m) ==
  /\ pc' = "end" /\ mem' = m
  /\ requeue' \in BOOLEAN /\ replicaSet' \in BOOLEAN
  /\ failures' \in 0..MaxFailures
  /\ service' \in {"none", "new", "seen"}
  /\ UNCHANGED <<kind, inst, placement, decided, ingress, job, clients,
                 serverApp, copies, queued, fresh, todo, lost, edits, restarts>>

LEMMA EndsIInv ==
  ASSUME IInv, pc # "idle", NEW m \in Instance, Ends(m),
         m.deleting = mem.deleting, m.finalizer = mem.finalizer,
         fresh => MayWrite(m)
  PROVE  IInv'
<1> USE DEF Ends, clients, copies
<1>1. m # Gone /\ mem # Gone
  BY SentinelAssumption, CopyTyped
<1>2. TypeOK'
  BY DEF IInv, TypeOK, Steps
<1>3. CopyInv'
  <2>1. Older(m)
    BY <1>1 DEF IInv, CopyInv, Older
  <2>2. fresh' => MayWrite(m)'
    BY DEF MayWrite
  <2>3. QED BY <1>1, <2>1, <2>2 DEF IInv, CopyInv, Older, MayWrite
<1>4. StepInv' /\ AddressInv' /\ WorksInv' /\ SpecInv'
  BY DEF IInv, StepInv, AddressInv, WorksInv, SpecInv, HasWork, Deploying,
         Serving, Pruning
<1>5. QED BY <1>2, <1>3, <1>4 DEF IInv

\* The copy that has not been changed may be written, and so may a failure.
LEMMA CopyMayBeWritten ==
  ASSUME IInv, pc # "idle", pc # "end", fresh
  PROVE  MayWrite(mem) /\ MayWrite([mem EXCEPT !.phase = "Failed"])
<1>1. mem = inst /\ inst \in Instance /\ inst # Gone
  BY CopyTyped
<1>2. ~inst.deleting /\ inst.address # NoAddress => ingress # NoAddress
  BY <1>1 DEF IInv, AddressInv
<1>3. <<inst.phase, "Failed">> \in PhaseSteps
  BY <1>1 DEF PhaseSteps, Instance, Phases
<1>4. QED BY <1>1, <1>2, <1>3 DEF MayWrite, Instance

LEMMA RetriesIInv ==
  ASSUME IInv, pc # "idle", pc # "end", Ends(mem)
  PROVE  IInv'
BY CopyTyped, CopyMayBeWritten, EndsIInv

LEMMA FailsIInv ==
  ASSUME IInv, pc # "idle", pc # "end", Ends([mem EXCEPT !.phase = "Failed"])
  PROVE  IInv'
<1> DEFINE m == [mem EXCEPT !.phase = "Failed"]
<1>1. /\ m \in Instance /\ m.deleting = mem.deleting
      /\ m.finalizer = mem.finalizer
  BY CopyTyped DEF Instance, Phases
<1>2. fresh => MayWrite(m)
  BY CopyMayBeWritten
<1> HIDE DEF m
<1>3. Ends(m)
  BY DEF m
<1>4. QED BY <1>1, <1>2, <1>3, EndsIInv

-----------------------------------------------------------------------------
(***************************************************************************)
(* Steps that write m to the status, and those that only go on to another  *)
(* step of the deployment.                                                 *)
(***************************************************************************)
Saves(m) ==
  /\ inst' = m /\ mem' = m
  /\ requeue' \in BOOLEAN /\ replicaSet' \in BOOLEAN
  /\ UNCHANGED <<kind, selection, endpoint, job, clients, serverApp, copies,
                 queued, fresh, todo, lost, bounds>>

LEMMA SavesIInv ==
  ASSUME IInv, fresh, pc # "idle", pc # "end", NEW m \in Instance, Saves(m),
         m.spec = mem.spec, m.deleting = mem.deleting,
         m.finalizer = mem.finalizer,
         inst.address # NoAddress => m.address # NoAddress,
         ~m.deleting /\ m.address # NoAddress => ingress # NoAddress,
         \/ pc' = "end"
         \/ /\ pc' \in {"placement", "client", "check"}
            /\ m.finalizer /\ ~m.deleting /\ m.phase \in {"Waiting", "Running"}
            /\ pc' = "client" => /\ m.address # NoAddress /\ kind # "Flower"
                                 /\ placement = "seen"
  PROVE  IInv'
<1> USE DEF Saves, selection, endpoint, clients, copies, bounds
<1>1. mem = inst /\ inst \in Instance /\ inst # Gone /\ m # Gone
  BY SentinelAssumption, CopyTyped
<1>2. TypeOK'
  BY DEF IInv, TypeOK, Steps
<1>3. CopyInv'
  BY <1>1 DEF IInv, CopyInv, Older, MayWrite
<1>4. StepInv'
  BY DEF StepInv, Deploying, Serving, Pruning
<1>5. AddressInv'
  BY <1>1 DEF IInv, AddressInv, HasWork
<1>6. WorksInv'
  BY <1>1 DEF IInv, WorksInv, HasWork
<1>7. SpecInv'
  BY <1>1 DEF IInv, SpecInv
<1>8. QED BY <1>2, <1>3, <1>4, <1>5, <1>6, <1>7 DEF IInv

LEMMA ForwardIInv ==
  ASSUME IInv, TypeOK',
         pc \in Deploying \ {"phase", "check"}, pc' \in Deploying \ {"phase"},
         UNCHANGED <<kind, inst, cache, mem, fresh, decided, works, lost, edits>>,
         placement = "seen" => placement' = "seen",
         ingress # NoAddress => ingress' # NoAddress,
         pc' \in Serving => kind # "Flower",
         pc' = "address" => placement' = "seen",
         pc' \in {"client", "decisions", "works"} =>
           pc \in {"client", "decisions", "works"},
         pc' = "works" => todo' \subseteq decided \cup lost
  PROVE  IInv'
<1>1. pc # "idle" /\ pc # "end" /\ pc' # "idle" /\ pc' # "end"
      /\ pc' \notin Pruning /\ pc' # "finalizer" /\ pc' # "phase"
  BY DEF Deploying, Serving, Pruning
<1>2. CopyInv'
  BY <1>1 DEF IInv, CopyInv, Older
<1>3. StepInv'
  BY <1>1 DEF IInv, StepInv
<1>4. AddressInv' /\ SpecInv'
  BY <1>1 DEF IInv, AddressInv, SpecInv, HasWork
<1>5. WorksInv'
  BY <1>1 DEF IInv, WorksInv, HasWork, Pruning
<1>6. QED BY <1>2, <1>3, <1>4, <1>5 DEF IInv

-----------------------------------------------------------------------------
(***************************************************************************)
(* The steps of Reconcile.                                                 *)
(***************************************************************************)
LEMMA BeginIInv == ASSUME IInv, Begin PROVE IInv'
<1> USE DEF hub, selection, endpoint, clients, flower, copies, bounds
<1>1. CASE cache = Gone
  <2>1. /\ UNCHANGED <<kind, inst, hub, copies, pc, mem, fresh, todo, requeue,
                       lost, bounds>>
        /\ queued' \in BOOLEAN
    BY <1>1 DEF Begin, run
  <2>2. TypeOK'
    BY <2>1 DEF IInv, TypeOK
  <2>3. QED BY <2>1, <2>2, FrameIInv
<1>2. CASE cache # Gone
  <2>1. /\ UNCHANGED <<kind, inst, hub, copies, todo, lost, bounds>>
        /\ mem' = cache /\ queued' = FALSE /\ requeue' = FALSE
        /\ pc' = IF cache.deleting THEN "pruneServer" ELSE "finalizer"
    BY <1>2 DEF Begin, Goto, FirstStep
  <2>2. fresh' \in BOOLEAN /\ (fresh' => cache = inst)
    BY <1>2 DEF Begin, CacheIsCurrent
  <2>3. TypeOK'
    <3>1. pc' \in Steps
      BY <2>1 DEF Steps
    <3>2. fresh' \in BOOLEAN
      BY <2>2
    <3>3. QED BY <2>1, <3>1, <3>2 DEF IInv, TypeOK
  <2>4. CopyInv'
    <3>1. Older(cache)
      BY <1>2 DEF IInv, CopyInv
    <3>2. Older(cache)' /\ Older(mem)'
      BY <2>1, <3>1 DEF Older
    <3>3. pc' # "idle" /\ pc' # "end" /\ mem' # Gone
      BY <1>2, <2>1
    <3>4. fresh' => mem' = inst' /\ inst' # Gone
      BY <1>2, <2>1, <2>2
    <3>5. QED BY <3>2, <3>3, <3>4 DEF CopyInv, Older
  <2>5. StepInv'
    BY <2>1 DEF StepInv, Deploying, Serving, Pruning
  <2>6. AddressInv' /\ WorksInv' /\ SpecInv'
    BY <2>1 DEF IInv, AddressInv, WorksInv, SpecInv, HasWork
  <2>7. QED BY <2>3, <2>4, <2>5, <2>6 DEF IInv
<1>3. QED BY <1>1, <1>2

LEMMA AddFinalizerIInv == ASSUME IInv, AddFinalizer PROVE IInv'
<1> USE DEF hub, selection, endpoint, clients, flower, copies, bounds
<1>1. /\ pc = "finalizer" /\ mem \in Instance /\ mem # Gone /\ ~mem.deleting
      /\ fresh => mem = inst /\ inst # Gone
  BY CopyTyped DEF AddFinalizer, IInv, StepInv
<1>2. CASE ~mem.finalizer /\ ~fresh
  <2>1. Ends([mem EXCEPT !.phase = "Failed"])
    BY <1>2 DEF AddFinalizer, Fail, Retry, Goto, Ends, IInv, TypeOK
  <2>2. QED BY <1>1, <2>1, FailsIInv
<1>3. CASE mem.finalizer \/ fresh
  <2>1. /\ UNCHANGED <<kind, hub, copies, queued, fresh, todo, requeue, lost,
                       bounds>>
        /\ pc' = AfterFinalizer
        /\ \/ mem.finalizer /\ UNCHANGED <<inst, mem>>
           \/ fresh /\ inst' = [inst EXCEPT !.finalizer = TRUE] /\ mem' = inst'
    BY <1>3 DEF AddFinalizer, Goto
  <2>2. /\ mem' \in Instance /\ mem'.finalizer /\ ~mem'.deleting
        /\ mem'.phase = mem.phase
    BY <1>1, <2>1 DEF Instance
  <2>3. inst' \in Instance \cup {Gone}
    BY <2>1, <2>2 DEF IInv, TypeOK
  <2>4. inst # Gone => /\ inst' # Gone /\ inst'.spec = inst.spec
                       /\ inst'.address = inst.address
                       /\ inst'.deleting = inst.deleting
                       /\ inst.finalizer => inst'.finalizer
    <3>1. CASE inst' = inst
      BY <3>1
    <3>2. CASE inst' = [inst EXCEPT !.finalizer = TRUE] /\ inst \in Instance
      <4>1. inst' \in Instance
        BY <3>2 DEF Instance
      <4>2. QED BY <3>2, <4>1, SentinelAssumption DEF Instance
    <3>3. QED BY <1>1, <2>1, <3>1, <3>2
  <2>5. inst = Gone => inst' = Gone
    BY <1>1, <2>1
  <2>6. /\ pc' \in {"end", "phase", "placement", "check"}
        /\ pc' = "phase" => mem.phase = ""
        /\ pc' = "placement" => mem.phase \in {"Waiting", "Running"}
        /\ pc' = "check" => mem.phase = "Completed"
    BY <1>1, <2>1 DEF AfterFinalizer, Instance, Phases
  <2>7. TypeOK'
    BY <2>1, <2>2, <2>3, <2>6 DEF IInv, TypeOK, Steps
  <2>8. CopyInv'
    <3>1. mem' # Gone
      BY <2>2, SentinelAssumption
    <3>2. fresh' => mem' = inst' /\ inst' # Gone
      BY <1>1, <2>1, <2>4
    <3>3. ~inst'.deleting /\ fresh' /\ inst'.address # NoAddress
            => ingress' # NoAddress
      BY <1>1, <2>1, <2>4 DEF IInv, AddressInv
    <3>4. fresh' => MayWrite(mem)'
      BY <3>2, <3>3 DEF MayWrite
    <3>5. (cache # Gone => Older(cache)') /\ Older(mem)'
      BY <1>1, <2>1, <2>2, <2>4, <2>5 DEF IInv, CopyInv, Older
    <3>6. QED BY <2>1, <2>6, <3>1, <3>2, <3>4, <3>5 DEF CopyInv, Older
  <2>9. StepInv'
    BY <2>2, <2>6 DEF StepInv, Deploying, Serving, Pruning
  <2>10. AddressInv'
    BY <2>1, <2>4, <2>5, <2>6 DEF IInv, AddressInv, HasWork
  <2>11. WorksInv'
    BY <1>1, <2>1, <2>4, <2>6 DEF IInv, WorksInv, HasWork
  <2>12. SpecInv'
    BY <2>1, <2>4, <2>5 DEF IInv, SpecInv
  <2>13. QED BY <2>7, <2>8, <2>9, <2>10, <2>11, <2>12 DEF IInv
<1>4. QED BY <1>2, <1>3

\* The status of a copy that differs in nothing else is all of the copy.
LEMMA StatusOfCopy ==
  ASSUME NEW m \in Instance, inst \in Instance, m.spec = inst.spec,
         m.deleting = inst.deleting, m.finalizer = inst.finalizer
  PROVE  WithStatus(m) = m
BY DEF WithStatus, Instance

\* A step that ends in Save.
LEMMA SaveIInv ==
  ASSUME IInv, pc # "idle", pc # "end", NEW m \in Instance, mem' = m,
         NEW step \in {"placement", "client", "check"}, Save(step),
         UNCHANGED <<kind, hub, copies, queued, fresh, todo, lost, bounds>>,
         m.spec = mem.spec, m.deleting = mem.deleting,
         m.finalizer = mem.finalizer, m.finalizer, ~m.deleting,
         m.phase \in {"Waiting", "Running"},
         fresh => /\ inst.address # NoAddress => m.address # NoAddress
                  /\ m.address # NoAddress => ingress # NoAddress,
         step = "client" => /\ m.address # NoAddress /\ kind # "Flower"
                            /\ placement = "seen"
  PROVE  IInv'
<1>1. CASE fresh
  <2>1. mem = inst /\ inst \in Instance
    BY <1>1, CopyTyped
  <2>2. inst' = WithStatus(m)
    BY <1>1 DEF Save, WithStatus
  <2>3. inst' = m
    BY <2>1, <2>2, StatusOfCopy
  <2>4. pc' = step /\ requeue' = requeue
    BY <1>1 DEF Save, Goto
  <2>5. Saves(m)
    BY <2>3, <2>4 DEF Saves, hub, flower, IInv, TypeOK
  <2>6. QED BY <1>1, <2>4, <2>5, SavesIInv
<1>2. CASE ~fresh
  <2>1. Ends(m)
    BY <1>2 DEF Save, Retry, Goto, Ends, hub, flower, selection, endpoint,
                bounds, IInv, TypeOK
  <2>2. QED BY <1>2, <2>1, EndsIInv
<1>3. QED BY <1>1, <1>2 DEF IInv, TypeOK

\* The copy with another phase.
LEMMA OtherPhase ==
  ASSUME mem \in Instance, NEW phase \in Phases,
         NEW m, m = [mem EXCEPT !.phase = phase]
  PROVE  /\ m \in Instance /\ m.phase = phase /\ m.address = mem.address
         /\ m.spec = mem.spec /\ m.deleting = mem.deleting
         /\ m.finalizer = mem.finalizer
BY DEF Instance

\* In a deployment a current copy has the address of the object.
LEMMA AddressOfCopy ==
  ASSUME IInv, pc \in Deploying, fresh
  PROVE  /\ mem = inst /\ ~mem.deleting /\ mem.finalizer
         /\ mem.address # NoAddress => ingress # NoAddress
<1>1. pc # "idle" /\ pc # "end"
  BY DEF Deploying, Serving
<1>2. mem = inst /\ inst # Gone
  BY <1>1, CopyTyped
<1>3. ~mem.deleting /\ mem.finalizer
  BY DEF IInv, StepInv
<1>4. QED BY <1>2, <1>3 DEF IInv, AddressInv

-----------------------------------------------------------------------------
LEMMA StartWaitingIInv == ASSUME IInv, StartWaiting PROVE IInv'
<1>1. pc = "phase" /\ pc \in Deploying
  BY DEF StartWaiting, Deploying
<1>2. mem \in Instance /\ mem.finalizer /\ ~mem.deleting
  BY <1>1, CopyTyped DEF IInv, StepInv
<1> DEFINE m == [mem EXCEPT !.phase = "Waiting"]
<1>3. /\ m \in Instance /\ m.phase = "Waiting" /\ m.address = mem.address
      /\ m.spec = mem.spec /\ m.deleting = mem.deleting
      /\ m.finalizer = mem.finalizer
  BY <1>2, OtherPhase DEF Phases
<1>4. /\ mem' = m /\ Save("placement")
      /\ UNCHANGED <<kind, hub, copies, queued, fresh, todo, lost, bounds>>
  BY DEF StartWaiting
<1>5. fresh => /\ inst.address # NoAddress => m.address # NoAddress
               /\ m.address # NoAddress => ingress # NoAddress
  BY <1>1, <1>3, AddressOfCopy
<1> HIDE DEF m
<1>6. QED BY <1>1, <1>2, <1>3, <1>4, <1>5, SaveIInv

LEMMA SwitchToRunningIInv == ASSUME IInv, SwitchToRunning PROVE IInv'
<1>1. pc = "running" /\ pc \in Deploying
  BY DEF SwitchToRunning, Deploying, Serving
<1>2. mem \in Instance /\ mem.finalizer /\ ~mem.deleting
  BY <1>1, CopyTyped DEF IInv, StepInv
<1> DEFINE m == [mem EXCEPT !.phase = "Running"]
<1>3. /\ m \in Instance /\ m.phase = "Running" /\ m.address = mem.address
      /\ m.spec = mem.spec /\ m.deleting = mem.deleting
      /\ m.finalizer = mem.finalizer
  BY <1>2, OtherPhase DEF Phases
<1>4. /\ mem' = m /\ Save("check")
      /\ UNCHANGED <<kind, hub, copies, queued, fresh, todo, lost, bounds>>
  BY DEF SwitchToRunning
<1>5. fresh => /\ inst.address # NoAddress => m.address # NoAddress
               /\ m.address # NoAddress => ingress # NoAddress
  BY <1>1, <1>3, AddressOfCopy
<1> HIDE DEF m
<1>6. QED BY <1>1, <1>2, <1>3, <1>4, <1>5, SaveIInv

LEMMA UpdateAddressIInv == ASSUME IInv, UpdateAddress PROVE IInv'
<1>1. pc = "address" /\ pc \in Deploying /\ pc \in Serving
  BY DEF UpdateAddress, Deploying, Serving
<1>2. /\ mem \in Instance /\ mem.finalizer /\ ~mem.deleting
      /\ mem.phase \in {"Waiting", "Running"}
      /\ kind # "Flower" /\ placement = "seen"
  BY <1>1, CopyTyped DEF IInv, StepInv, WorksInv
<1>3. CASE AddressAssigned
  <2> DEFINE m == [mem EXCEPT !.address = ingress]
  <2>1. ingress # NoAddress
    BY <1>3 DEF AddressAssigned
  <2>2. /\ m \in Instance /\ m.phase = mem.phase /\ m.address = ingress
        /\ m.spec = mem.spec /\ m.deleting = mem.deleting
        /\ m.finalizer = mem.finalizer
    BY <1>2 DEF Instance, IInv, TypeOK
  <2>3. /\ mem' = m /\ Save("client")
        /\ UNCHANGED <<kind, hub, copies, queued, fresh, todo, lost, bounds>>
    BY <1>3 DEF UpdateAddress
  <2> HIDE DEF m
  <2>4. QED BY <1>1, <1>2, <2>1, <2>2, <2>3, SaveIInv
<1>4. CASE ~AddressAssigned
  <2>1. Ends(mem)
    BY <1>4 DEF UpdateAddress, Retry, Goto, Ends, hub, flower, selection,
                endpoint, bounds, IInv, TypeOK
  <2>2. QED BY <1>1, <2>1, RetriesIInv
<1>5. QED BY <1>3, <1>4

\* A step that writes a later phase and ends.
LEMMA PhaseIInv ==
  ASSUME IInv, fresh, pc \in Deploying, NEW m, NEW phase \in Phases,
         m = [mem EXCEPT !.phase = phase], mem' = m, inst' = WithStatus(m),
         pc' = "end", requeue' \in BOOLEAN, replicaSet' \in BOOLEAN,
         UNCHANGED <<kind, selection, endpoint, job, clients, serverApp, copies,
                     queued, fresh, todo, lost, bounds>>
  PROVE  IInv'
<1>1. /\ mem = inst /\ ~mem.deleting /\ mem.finalizer
      /\ mem.address # NoAddress => ingress # NoAddress
  BY AddressOfCopy
<1>2. pc # "idle" /\ pc # "end"
  BY DEF Deploying, Serving
<1>3. mem \in Instance
  BY <1>2, CopyTyped
<1>4. /\ m \in Instance /\ m.phase = phase /\ m.address = mem.address
      /\ m.spec = mem.spec /\ m.deleting = mem.deleting
      /\ m.finalizer = mem.finalizer
  BY <1>3, OtherPhase
<1>5. inst' = m
  BY <1>1, <1>3, <1>4, StatusOfCopy
<1>6. Saves(m)
  BY <1>5 DEF Saves
<1>7. QED BY <1>1, <1>2, <1>4, <1>6, SavesIInv

LEMMA DeployClientAppIInv == ASSUME IInv, DeployClientApp PROVE IInv'
<1>1. pc = "clientApp" /\ pc \in Deploying /\ pc # "idle" /\ pc # "end"
  BY DEF DeployClientApp, Deploying
<1> USE DEF DeployClientApp
<1>2. CASE Ends([mem EXCEPT !.phase = "Failed"])
  BY <1>1, <1>2, FailsIInv
<1>3. CASE Ends(mem)
  BY <1>1, <1>3, RetriesIInv
<1>4. CASE placement = "seen" /\ Enough /\ (fresh \/ mem.phase = "Running")
  <2> DEFINE m == [mem EXCEPT !.phase = "Running"]
  <2>1. /\ mem' = m /\ pc' = "end" /\ requeue' = TRUE /\ replicaSet' = TRUE
        /\ UNCHANGED <<kind, selection, endpoint, job, clients, serverApp,
                       copies, queued, fresh, todo, lost, bounds>>
    BY <1>4 DEF Retry, Goto
  <2>2. CASE fresh
    <3>1. inst' = WithStatus(m)
      BY <1>4, <2>2 DEF WithStatus
    <3> HIDE DEF m
    <3>2. m = [mem EXCEPT !.phase = "Running"]
      BY DEF m
    <3>3. QED BY <1>1, <2>1, <2>2, <3>1, <3>2, PhaseIInv DEF Phases
  <2>3. CASE ~fresh
    <3>1. inst' = inst /\ mem.phase = "Running"
      BY <1>4, <2>3
    <3>2. mem \in Instance
      BY <1>1, CopyTyped
    <3>3. m \in Instance /\ m.deleting = mem.deleting
          /\ m.finalizer = mem.finalizer
      BY <3>2, OtherPhase DEF Phases
    <3> HIDE DEF m
    <3>4. Ends(m)
      BY <2>1, <3>1 DEF Ends, selection, endpoint, bounds, IInv, TypeOK
    <3>5. QED BY <1>1, <2>3, <3>3, <3>4, EndsIInv
  <2>4. QED BY <2>2, <2>3 DEF IInv, TypeOK
<1>5. QED
  BY <1>2, <1>3, <1>4
     DEF Ends, Fail, Retry, Goto, selection, endpoint, bounds, IInv, TypeOK

LEMMA CheckJobIInv == ASSUME IInv, CheckJob PROVE IInv'
<1>1. pc = "check" /\ pc \in Deploying /\ pc # "idle" /\ pc # "end"
  BY DEF CheckJob, Deploying
<1> USE DEF CheckJob
<1>2. CASE Ends([mem EXCEPT !.phase = "Failed"])
  BY <1>1, <1>2, FailsIInv
<1>3. CASE Ends(mem)
  BY <1>1, <1>3, RetriesIInv
<1>4. CASE mem.phase = "Running" /\ jobSeen = "done" /\ fresh
  <2> DEFINE m == [mem EXCEPT !.phase = "Completed"]
  <2>1. /\ mem' = m /\ pc' = "end" /\ requeue' = FALSE
        /\ UNCHANGED <<kind, hub, copies, queued, fresh, todo, lost, bounds>>
        /\ inst' = WithStatus(m)
    BY <1>4 DEF Leave, Goto, WithStatus
  <2>2. m = [mem EXCEPT !.phase = "Completed"]
    OBVIOUS
  <2> HIDE DEF m
  <2>3. replicaSet' \in BOOLEAN
    BY <2>1 DEF hub, flower, IInv, TypeOK
  <2>4. QED
    BY <1>1, <1>4, <2>1, <2>2, <2>3, PhaseIInv DEF Phases, hub, flower
<1>5. QED
  BY <1>2, <1>3, <1>4
     DEF Ends, Fail, Retry, Leave, Goto, hub, flower, selection, endpoint,
         bounds, IInv, TypeOK

LEMMA DeployPlacementIInv == ASSUME IInv, DeployPlacement PROVE IInv'
<1>1. pc = "placement" /\ pc \in Deploying \ {"phase", "check"}
      /\ pc # "idle" /\ pc # "end"
  BY DEF DeployPlacement, Deploying
<1>2. CASE placement = "new"
  <2>1. Ends([mem EXCEPT !.phase = "Failed"])
    BY <1>2 DEF DeployPlacement, Fail, Retry, Goto, Ends, flower, endpoint,
                bounds, IInv, TypeOK
  <2>2. QED BY <1>1, <2>1, FailsIInv
<1>3. CASE placement # "new"
  <2>1. /\ placement' \in {"new", "seen"}
        /\ placement = "seen" => placement' = "seen"
        /\ pc' = IF kind = "Flower" THEN "serverApp" ELSE "service"
        /\ UNCHANGED <<kind, inst, decided, endpoint, job, clients, flower,
                       copies, queued, mem, fresh, todo, requeue, lost, bounds>>
    BY <1>3 DEF DeployPlacement, Goto, IInv, TypeOK
  <2>2. /\ pc' \in Deploying \ {"phase"} /\ pc' \in Steps
        /\ pc' \in Serving => kind # "Flower"
        /\ pc' \notin {"address", "client", "decisions", "works"}
    BY <2>1 DEF Deploying, Serving, Steps
  <2>3. TypeOK'
    BY <2>1, <2>2
       DEF IInv, TypeOK, endpoint, clients, flower, copies, bounds
  <2>4. QED
    BY <1>1, <2>1, <2>2, <2>3, ForwardIInv
       DEF endpoint, clients, copies, bounds
<1>4. QED BY <1>2, <1>3

LEMMA DeployServiceIInv == ASSUME IInv, DeployService PROVE IInv'
<1>1. pc = "service" /\ pc \in Deploying \ {"phase", "check"}
      /\ pc # "idle" /\ pc # "end" /\ pc \in Serving
  BY DEF DeployService, Deploying, Serving
<1>2. service' \in {"none", "new", "seen"}
  BY DEF DeployService, LoadBalancerService, IInv, TypeOK
<1>3. CASE kind = "LoadBalancer" /\ ~AddressAssigned
  <2>1. Ends(mem)
    BY <1>2, <1>3 DEF DeployService, Retry, Goto, Ends, flower, selection,
                      bounds, IInv, TypeOK
  <2>2. QED BY <1>1, <2>1, RetriesIInv
<1>4. CASE ~(kind = "LoadBalancer" /\ ~AddressAssigned)
  <2>1. /\ pc' = "job"
        /\ UNCHANGED <<kind, inst, selection, ingress, job, clients, flower,
                       copies, queued, mem, fresh, todo, requeue, lost, bounds>>
    BY <1>4 DEF DeployService, Goto
  <2>2. pc' \in Deploying \ {"phase"} /\ pc' \in Steps
    BY <2>1 DEF Deploying, Serving, Steps
  <2>3. TypeOK'
    BY <1>2, <2>1, <2>2
       DEF IInv, TypeOK, selection, clients, flower, copies, bounds
  <2>4. kind # "Flower"
    BY <1>1 DEF IInv, StepInv
  <2>5. QED
    BY <1>1, <2>1, <2>2, <2>3, <2>4, ForwardIInv
       DEF selection, clients, copies, bounds
<1>5. QED BY <1>3, <1>4

\* The Job that is there or asked for.
LEMMA DeployedTyped ==
  ASSUME TypeOK, mem \in Instance
  PROVE  Deployed \in Job
<1>1. Desired \in Job
  BY DEF Desired, Job, Instance, TypeOK
<1>2. job # NoJob => job \in Job
  BY DEF TypeOK
<1>3. job \in Job => [job EXCEPT !.deleting = TRUE] \in Job
  BY DEF Job
<1>4. QED BY <1>1, <1>2, <1>3 DEF Deployed

LEMMA DeployJobIInv == ASSUME IInv, DeployJob PROVE IInv'
<1>1. pc = "job" /\ pc \in Deploying \ {"phase", "check"}
      /\ pc # "idle" /\ pc # "end" /\ pc \in Serving
  BY DEF DeployJob, Deploying, Serving
<1>2. mem \in Instance
  BY <1>1, CopyTyped
<1>3. CASE ~DecisionsReadable
  <2>1. Ends(mem)
    BY <1>3 DEF DeployJob, Retry, Goto, Ends, flower, selection, endpoint,
                bounds, IInv, TypeOK
  <2>2. QED BY <1>1, <2>1, RetriesIInv
<1>4. CASE DecisionsReadable
  <2>1. /\ pc' = "address" /\ placement = "seen" /\ job' = Deployed
        /\ service' \in {"none", "new", "seen"}
        /\ ingress' \in Addresses \cup {ingress}
        /\ UNCHANGED <<kind, inst, selection, clients, flower, copies, queued,
                       mem, fresh, todo, requeue, lost, bounds>>
    BY <1>4 DEF DeployJob, Goto, DecisionsReadable, IInv, TypeOK
  <2>2. pc' \in Deploying \ {"phase"} /\ pc' \in Steps
    BY <2>1 DEF Deploying, Serving, Steps
  <2>3. job' \in Job
    BY <1>2, <2>1, DeployedTyped DEF IInv
  <2>4. TypeOK'
    BY <2>1, <2>2, <2>3
       DEF IInv, TypeOK, selection, clients, flower, copies, bounds
  <2>5. kind # "Flower"
    BY <1>1 DEF IInv, StepInv
  <2>6. ingress # NoAddress => ingress' # NoAddress
    BY <2>1, SentinelAssumption
  <2>7. QED
    BY <1>1, <2>1, <2>2, <2>4, <2>5, <2>6, ForwardIInv
       DEF selection, clients, copies, bounds
<1>5. QED BY <1>3, <1>4

LEMMA CountClientsIInv == ASSUME IInv, CountClients PROVE IInv'
<1> USE DEF CountClients, Goto, hub, selection, endpoint, clients, flower,
            copies, bounds
<1>1. /\ pc = "client" /\ pc \in Deploying \ {"phase", "check"}
      /\ pc' \in {"decisions", "check"}
      /\ pc' \in Deploying \ {"phase"} /\ pc' \in Steps
      /\ pc \in Serving
  BY DEF Deploying, Serving, Steps
<1>2. kind # "Flower"
  BY <1>1 DEF IInv, StepInv
<1>3. TypeOK'
  BY <1>1 DEF IInv, TypeOK
<1>4. QED BY <1>1, <1>2, <1>3, ForwardIInv

LEMMA ReadDecisionsIInv == ASSUME IInv, ReadDecisions PROVE IInv'
<1> USE DEF ReadDecisions, Goto, hub, selection, endpoint, clients, flower,
            copies, bounds
<1>1. /\ pc = "decisions" /\ pc \in Deploying \ {"phase", "check"}
      /\ pc' = "works"
      /\ pc' \in Deploying \ {"phase"} /\ pc' \in Steps
      /\ pc \in Serving
  BY DEF Deploying, Serving, Steps
<1>2. kind # "Flower"
  BY <1>1 DEF IInv, StepInv
<1>3. TypeOK'
  BY <1>1 DEF IInv, TypeOK
<1>4. QED BY <1>1, <1>2, <1>3, ForwardIInv

LEMMA DeployServerAppIInv == ASSUME IInv, DeployServerApp PROVE IInv'
<1> USE DEF DeployServerApp, Goto, selection, endpoint, clients, copies, bounds
<1>1. /\ pc = "serverApp" /\ pc \in Deploying \ {"phase", "check"}
      /\ pc' = "clientApp" /\ pc' \notin Serving
      /\ pc' \in Deploying \ {"phase"} /\ pc' \in Steps
  BY DEF Deploying, Serving, Steps
<1>2. TypeOK'
  BY <1>1 DEF IInv, TypeOK
<1>3. QED BY <1>1, <1>2, ForwardIInv

\* A work is placed for a deployment that has its finalizer and its address.
LEMMA PlaceWorkIInv ==
  ASSUME IInv, pc = "works", NEW c \in todo, PlaceWork(c),
         UNCHANGED <<kind, inst, selection, endpoint, job, flower, copies,
                     queued, mem, fresh, lost, bounds>>
  PROVE  IInv'
<1> USE DEF selection, endpoint, clients, flower, copies, bounds
<1>1. pc \in Deploying /\ pc \in Serving /\ pc # "idle" /\ pc # "end"
  BY DEF Deploying, Serving
<1>2. mem \in Instance /\ mem # Gone
  BY <1>1, CopyTyped
<1>3. CASE ~(c \in Claimed /\ mem.address # NoAddress)
  <2>1. Ends(mem)
    BY <1>3 DEF PlaceWork, Retry, Goto, Ends, IInv, TypeOK
  <2>2. QED BY <1>1, <2>1, RetriesIInv
<1>4. CASE c \in Claimed /\ mem.address # NoAddress
  <2> DEFINE work == [spec |-> mem.spec, address |-> mem.address]
  <2>1. /\ works' = [works EXCEPT ![c] = work]
        /\ unseen' = IF HasWork(c) THEN unseen ELSE unseen \cup {c}
        /\ todo' = todo \ {c} /\ pc' = pc /\ requeue' = requeue
    BY <1>4 DEF PlaceWork
  <2>2. work \in Work
    BY <1>2, <1>4 DEF Work, Instance
  <2>3. c \in Clusters /\ works \in [Clusters -> Work \cup {NoWork}]
    BY DEF IInv, TypeOK
  <2> HIDE DEF work
  <2>4. TypeOK'
    BY <2>1, <2>2, <2>3 DEF IInv, TypeOK
  <2>5. \A d \in Clusters : d # c => HasWork(d)' = HasWork(d)
    BY <2>1, <2>3 DEF HasWork
  <2>6. /\ inst # Gone /\ inst.finalizer /\ inst.address # NoAddress
        /\ kind # "Flower" /\ placement = "seen" /\ c \in decided \cup lost
    <3>1. mem.finalizer /\ ~mem.deleting /\ kind # "Flower"
      BY <1>1 DEF IInv, StepInv
    <3>2. inst # Gone /\ inst.finalizer
      BY <1>2, <3>1 DEF IInv, CopyInv, Older
    <3>3. inst.address # NoAddress
      BY <3>2 DEF IInv, AddressInv
    <3>4. placement = "seen" /\ c \in decided \cup lost
      BY DEF IInv, WorksInv
    <3>5. QED BY <3>1, <3>2, <3>3, <3>4
  <2>7. CopyInv' /\ StepInv' /\ SpecInv'
    BY <2>1 DEF IInv, CopyInv, Older, MayWrite, StepInv, SpecInv
  <2>8. AddressInv'
    BY <2>1, <2>6 DEF IInv, AddressInv
  <2>9. WorksInv'
    BY <2>1, <2>5, <2>6 DEF IInv, WorksInv
  <2>10. QED BY <2>4, <2>7, <2>8, <2>9 DEF IInv
<1>5. QED BY <1>3, <1>4

LEMMA DeployWorkIInv == ASSUME IInv, DeployWork PROVE IInv'
<1>1. CASE todo # {}
  BY <1>1, PlaceWorkIInv DEF DeployWork
<1>2. CASE todo = {}
  <2> USE DEF selection, endpoint, clients, flower, copies, bounds
  <2>1. /\ pc = "works" /\ pc' = "running"
        /\ UNCHANGED <<kind, inst, selection, endpoint, job, clients, flower,
                       copies, queued, mem, fresh, todo, requeue, lost, bounds>>
    BY <1>2 DEF DeployWork, Goto
  <2>2. /\ pc \in Deploying \ {"phase", "check"} /\ pc \in Serving
        /\ pc' \in Deploying \ {"phase"} /\ pc' \in Steps
    BY <2>1 DEF Deploying, Serving, Steps
  <2>3. kind # "Flower"
    BY <2>2 DEF IInv, StepInv
  <2>4. TypeOK'
    BY <2>1, <2>2 DEF IInv, TypeOK
  <2>5. QED BY <2>1, <2>2, <2>3, <2>4, ForwardIInv
<1>3. QED BY <1>1, <1>2

-----------------------------------------------------------------------------
\* Steps after which no call is under way.
LEMMA IdlesIInv ==
  ASSUME IInv, TypeOK', pc' = "idle", mem' = Gone, fresh' = FALSE,
         UNCHANGED <<kind, decided, ingress, works, lost, edits>>,
         cache' \in {cache, inst}, cache' # Gone => Older(cache'),
         placement = "seen" => placement' = "seen",
         inst = Gone => inst' = Gone,
         inst # Gone => /\ inst' # Gone /\ inst'.spec = inst.spec
                        /\ inst'.deleting = inst.deleting
                        /\ inst'.finalizer = inst.finalizer
                        /\ inst.address # NoAddress => inst'.address # NoAddress
                        /\ ~inst.deleting /\ inst'.address # NoAddress
                             => ingress # NoAddress
  PROVE  IInv'
<1>1. CopyInv'
  BY DEF CopyInv, Older
<1>2. StepInv'
  BY DEF StepInv, Deploying, Serving, Pruning
<1>3. AddressInv' /\ SpecInv'
  BY DEF IInv, AddressInv, SpecInv, HasWork
<1>4. WorksInv'
  BY DEF IInv, WorksInv, HasWork
<1>5. QED BY <1>1, <1>2, <1>3, <1>4 DEF IInv

LEMMA FinishIInv == ASSUME IInv, Finish PROVE IInv'
<1> USE DEF Finish, Goto, hub, selection, endpoint, clients, flower, copies,
            bounds
<1>1. /\ mem \in Instance /\ pc = "end"
      /\ fresh => inst \in Instance /\ inst # Gone /\ MayWrite(mem)
  BY CopyTyped DEF IInv, CopyInv
<1>2. \/ inst' = inst
      \/ /\ inst \in Instance /\ inst' \in Instance /\ inst' # Gone
         /\ inst'.spec = inst.spec /\ inst'.deleting = inst.deleting
         /\ inst'.finalizer = inst.finalizer /\ inst'.address = mem.address
         /\ fresh
  <2>1. CASE fresh
    <3>1. inst' = WithStatus(mem)
      BY <2>1
    <3>2. /\ inst' \in Instance
          /\ inst'.spec = inst.spec /\ inst'.deleting = inst.deleting
          /\ inst'.finalizer = inst.finalizer /\ inst'.address = mem.address
      BY <1>1, <2>1, <3>1 DEF WithStatus, Instance
    <3>3. QED BY <1>1, <2>1, <3>2, SentinelAssumption
  <2>2. CASE ~fresh
    BY <2>2
  <2>3. QED BY <2>1, <2>2 DEF IInv, TypeOK
<1>3. /\ pc' = "idle" /\ mem' = Gone /\ fresh' = FALSE /\ requeue' = FALSE
      /\ todo' = {} /\ queued' \in BOOLEAN
      /\ UNCHANGED <<kind, hub, copies, lost, bounds>>
  BY DEF IInv, TypeOK
<1>4. TypeOK'
  <2>1. inst' \in Instance \cup {Gone} /\ pc' \in Steps
    BY <1>2, <1>3 DEF IInv, TypeOK, Steps
  <2>2. QED BY <1>3, <2>1 DEF IInv, TypeOK
<1>5. cache # Gone => Older(cache)
  BY DEF IInv, CopyInv
<1>6. inst # Gone => /\ ~inst.deleting /\ inst.address # NoAddress
                          => ingress # NoAddress
  BY DEF IInv, AddressInv
<1>7. /\ inst = Gone => inst' = Gone
      /\ inst # Gone =>
           /\ inst' # Gone /\ inst'.spec = inst.spec
           /\ inst'.deleting = inst.deleting
           /\ inst'.finalizer = inst.finalizer
           /\ inst.address # NoAddress => inst'.address # NoAddress
           /\ ~inst.deleting /\ inst'.address # NoAddress
                => ingress # NoAddress
  <2>1. CASE inst' = inst
    BY <1>6, <2>1
  <2>2. CASE inst' # inst
    BY <1>1, <1>2, <2>2 DEF MayWrite
  <2>3. QED BY <2>1, <2>2
<1>8. QED BY <1>3, <1>4, <1>5, <1>7, IdlesIInv

-----------------------------------------------------------------------------
LEMMA PruneServerIInv == ASSUME IInv, PruneServer PROVE IInv'
<1> USE DEF selection, clients, copies, bounds
<1>1. /\ pc = "pruneServer" /\ pc' = "pruneClient" /\ pc' \in Steps
      /\ pc \in Pruning /\ pc' \in Pruning
      /\ service' \in {"none", "new", "seen"} /\ serverApp' \in BOOLEAN
      /\ ingress' \in {ingress, NoAddress}
      /\ UNCHANGED <<kind, inst, selection, job, clients, replicaSet, copies,
                     queued, mem, fresh, todo, requeue, lost, bounds>>
  BY DEF PruneServer, Goto, Pruning, Steps, IInv, TypeOK, endpoint
<1>2. TypeOK'
  BY <1>1 DEF IInv, TypeOK
<1>3. CopyInv'
  BY <1>1 DEF IInv, CopyInv, Older
<1>4. StepInv'
  BY <1>1 DEF IInv, StepInv, Deploying, Serving
<1>5. inst # Gone => inst.deleting
  BY <1>1 DEF IInv, CopyInv, StepInv, Older
<1>6. AddressInv' /\ SpecInv'
  BY <1>1, <1>5 DEF IInv, AddressInv, SpecInv, HasWork
<1>7. WorksInv'
  BY <1>1 DEF IInv, WorksInv, HasWork
<1>8. QED BY <1>2, <1>3, <1>4, <1>6, <1>7 DEF IInv

\* A step of the clean-up that leaves the object and its address alone.
LEMMA PruneIInv ==
  ASSUME IInv, TypeOK', pc \in Pruning, pc' \in Pruning, WorksInv',
         UNCHANGED <<kind, inst, ingress, cache, mem, fresh, edits>>,
         \A c \in Clusters : HasWork(c)' => HasWork(c)
  PROVE  IInv'
<1>1. pc # "idle" /\ pc' # "idle" /\ pc # "end" /\ pc' # "end"
  BY DEF Pruning
<1>2. CopyInv'
  BY <1>1 DEF IInv, CopyInv, Older
<1>3. StepInv'
  BY DEF IInv, StepInv, Pruning, Deploying, Serving
<1>4. AddressInv' /\ SpecInv'
  BY DEF IInv, AddressInv, SpecInv, Pruning
<1>5. QED BY <1>2, <1>3, <1>4 DEF IInv

LEMMA PruneClientIInv == ASSUME IInv, PruneClient PROVE IInv'
<1> USE DEF endpoint, clients, copies, bounds, Goto
<1>1. pc = "pruneClient" /\ pc \in Pruning
  BY DEF PruneClient, Pruning
<1>2. UNCHANGED <<kind, inst, endpoint, job, clients, serverApp, copies, queued,
                  mem, fresh, requeue, lost, bounds>>
  BY DEF PruneClient
<1>3. /\ placement' \in {"none", "new", "seen"} /\ decided' \subseteq Clusters
      /\ todo' \subseteq Clusters /\ replicaSet' \in BOOLEAN
      /\ pc' \in {"removeFinalizer", "pruneWorks"}
  BY DEF PruneClient, FindWorks, selection, IInv, TypeOK
<1>4. pc' \in Steps /\ pc' \in Pruning
  BY <1>3 DEF Steps, Pruning
<1>5. TypeOK'
  BY <1>2, <1>3, <1>4 DEF IInv, TypeOK
<1>6. WorksInv'
  <2>1. CASE kind = "Flower"
    <3>1. \A c \in Clusters : ~HasWork(c)
      BY <2>1 DEF IInv, WorksInv
    <3>2. \A c \in Clusters : ~HasWork(c)'
      BY <1>2, <3>1 DEF HasWork
    <3>3. QED BY <1>3, <3>2 DEF WorksInv
  <2>2. CASE kind # "Flower"
    <3>1. /\ pc' = IF placement = "seen" THEN "pruneWorks" ELSE "removeFinalizer"
          /\ todo' = decided /\ UNCHANGED <<placement, decided>>
      BY <2>2 DEF PruneClient, FindWorks, selection
    <3>2. QED BY <1>2, <2>2, <3>1 DEF IInv, WorksInv, HasWork
  <2>3. QED BY <2>1, <2>2
<1>7. QED BY <1>1, <1>2, <1>4, <1>5, <1>6, PruneIInv DEF HasWork

LEMMA PruneWorkIInv == ASSUME IInv, PruneWork PROVE IInv'
<1> USE DEF selection, endpoint, flower, copies, bounds
<1>1. PICK c \in todo :
        /\ todo' = todo \ {c}
        /\ works' = [works EXCEPT ![c] = IF c \in unseen THEN @ ELSE NoWork]
        /\ lost' = IF c \in unseen THEN lost \cup {c} ELSE lost
  BY DEF PruneWork
<1>2. /\ pc = "pruneWorks" /\ pc' = pc
      /\ UNCHANGED <<kind, inst, selection, endpoint, job, unseen, flower,
                     copies, queued, mem, fresh, requeue, bounds>>
  BY DEF PruneWork
<1>3. pc \in Pruning /\ c \in Clusters
      /\ works \in [Clusters -> Work \cup {NoWork}]
  BY <1>2 DEF Pruning, IInv, TypeOK
<1>4. works' \in [Clusters -> Work \cup {NoWork}] /\ lost' \subseteq Clusters
  BY <1>1, <1>3 DEF IInv, TypeOK
<1>5. TypeOK'
  BY <1>1, <1>2, <1>4 DEF IInv, TypeOK
<1>6. /\ \A d \in Clusters : HasWork(d)' => HasWork(d)
      /\ HasWork(c)' => c \in lost'
  BY <1>1, <1>3 DEF HasWork
<1>7. WorksInv'
  BY <1>1, <1>2, <1>6 DEF IInv, WorksInv
<1>8. QED BY <1>2, <1>3, <1>5, <1>6, <1>7, PruneIInv

LEMMA PrunePlacementIInv == ASSUME IInv, PrunePlacement PROVE IInv'
<1> USE DEF endpoint, clients, flower, copies, bounds
<1>1. /\ pc = "pruneWorks" /\ todo = {} /\ pc' = "removeFinalizer"
      /\ placement' = "none" /\ decided' = {}
      /\ pc \in Pruning /\ pc' \in Pruning /\ pc' \in Steps
      /\ UNCHANGED <<kind, inst, endpoint, job, clients, flower, copies, queued,
                     mem, fresh, todo, requeue, lost, bounds>>
  BY DEF PrunePlacement, Goto, Pruning, Steps
<1>2. TypeOK'
  BY <1>1 DEF IInv, TypeOK
<1>3. WorksInv'
  BY <1>1 DEF IInv, WorksInv, HasWork
<1>4. QED BY <1>1, <1>2, <1>3, PruneIInv DEF HasWork

LEMMA RemoveFinalizerIInv == ASSUME IInv, RemoveFinalizer PROVE IInv'
<1>1. pc = "removeFinalizer" /\ pc \in Pruning /\ pc # "idle" /\ pc # "end"
  BY DEF RemoveFinalizer, Pruning
<1>2. CASE ~mem.finalizer
  <2>1. Ends(mem)
    BY <1>2 DEF RemoveFinalizer, Leave, Goto, Ends, selection, endpoint, flower,
                bounds, IInv, TypeOK
  <2>2. QED BY <1>1, <2>1, RetriesIInv
<1>3. CASE mem.finalizer /\ ~fresh
  <2>1. Ends([mem EXCEPT !.phase = "Failed"])
    BY <1>3 DEF RemoveFinalizer, Fail, Retry, Goto, Ends, selection, endpoint,
                flower, bounds, IInv, TypeOK
  <2>2. QED BY <1>1, <2>1, FailsIInv
<1>4. CASE mem.finalizer /\ fresh
  <2> USE DEF endpoint, clients, copies, bounds
  <2>1. /\ inst' = Gone /\ fresh' = FALSE /\ placement' = "none"
        /\ decided' = {} /\ job' = NoJob /\ serverApp' = FALSE
        /\ replicaSet' = FALSE /\ pc' = "end" /\ requeue' = FALSE
        /\ UNCHANGED <<kind, endpoint, clients, copies, queued, mem, todo, lost,
                       bounds>>
    BY <1>4 DEF RemoveFinalizer, CollectOwned, Leave, Goto
  <2>2. TypeOK'
    BY <2>1 DEF IInv, TypeOK, Steps
  <2>3. mem # Gone /\ mem.deleting /\ (cache # Gone => cache.deleting)
    BY <1>1, CopyTyped DEF IInv, StepInv
  <2>4. CopyInv'
    BY <2>1, <2>3 DEF CopyInv, Older
  <2>5. StepInv'
    BY <2>1 DEF StepInv, Pruning, Deploying, Serving
  <2>6. AddressInv' /\ SpecInv'
    BY <2>1 DEF AddressInv, SpecInv
  <2>7. WorksInv'
    BY <1>1, <2>1 DEF IInv, WorksInv, HasWork
  <2>8. QED BY <2>2, <2>4, <2>5, <2>6, <2>7 DEF IInv
<1>5. QED BY <1>2, <1>3, <1>4 DEF IInv, TypeOK

LEMMA ReconcileStepIInv == ASSUME IInv, ReconcileStep PROVE IInv'
BY BeginIInv, AddFinalizerIInv, StartWaitingIInv, DeployPlacementIInv,
   DeployServiceIInv, DeployJobIInv, UpdateAddressIInv, CountClientsIInv,
   ReadDecisionsIInv, DeployWorkIInv, SwitchToRunningIInv, DeployServerAppIInv,
   DeployClientAppIInv, CheckJobIInv, FinishIInv, PruneServerIInv,
   PruneClientIInv, PruneWorkIInv, PrunePlacementIInv, RemoveFinalizerIInv
   DEF ReconcileStep

-----------------------------------------------------------------------------
(***************************************************************************)
(* Failing calls and restarts.                                             *)
(***************************************************************************)

\* What a failed write leaves in the copy may be written at the end.
LEMMA UnsavedMayBeWritten ==
  ASSUME IInv, pc # "idle", pc # "end"
  PROVE  /\ Unsaved \in Instance /\ Unsaved.deleting = mem.deleting
         /\ Unsaved.finalizer = mem.finalizer
         /\ fresh => MayWrite(Unsaved)
<1>1. mem \in Instance
  BY CopyTyped
<1>2. CASE pc = "phase"
  <2> DEFINE m == [mem EXCEPT !.phase = "Waiting"]
  <2>1. Unsaved = m
    BY <1>2 DEF Unsaved
  <2>2. /\ m \in Instance /\ m.phase = "Waiting" /\ m.address = mem.address
        /\ m.deleting = mem.deleting /\ m.finalizer = mem.finalizer
    BY <1>1, OtherPhase DEF Phases
  <2>3. pc \in Deploying /\ mem.phase = ""
    BY <1>2 DEF Deploying, IInv, StepInv
  <2>4. fresh => /\ mem = inst
                 /\ mem.address # NoAddress => ingress # NoAddress
    BY <2>3, AddressOfCopy
  <2>5. <<"", "Waiting">> \in PhaseSteps
    BY DEF PhaseSteps
  <2> HIDE DEF m
  <2>6. fresh => MayWrite(m)
    BY <2>2, <2>3, <2>4, <2>5 DEF MayWrite
  <2>7. QED BY <2>1, <2>2, <2>6
<1>3. CASE pc = "running"
  <2> DEFINE m == [mem EXCEPT !.phase = "Running"]
  <2>1. Unsaved = m
    BY <1>3 DEF Unsaved
  <2>2. /\ m \in Instance /\ m.phase = "Running" /\ m.address = mem.address
        /\ m.deleting = mem.deleting /\ m.finalizer = mem.finalizer
    BY <1>1, OtherPhase DEF Phases
  <2>3. pc \in Deploying /\ mem.phase \in {"Waiting", "Running"}
    BY <1>3 DEF Deploying, Serving, IInv, StepInv
  <2>4. fresh => /\ mem = inst
                 /\ mem.address # NoAddress => ingress # NoAddress
    BY <2>3, AddressOfCopy
  <2>5. <<"Waiting", "Running">> \in PhaseSteps
    BY DEF PhaseSteps
  <2> HIDE DEF m
  <2>6. fresh => MayWrite(m)
    BY <2>2, <2>3, <2>4, <2>5 DEF MayWrite
  <2>7. QED BY <2>1, <2>2, <2>6
<1>4. CASE pc = "address"
  <2> DEFINE m == [mem EXCEPT !.address = ingress]
  <2>1. Unsaved = m
    BY <1>4 DEF Unsaved
  <2>2. /\ m \in Instance /\ m.phase = mem.phase /\ m.address = ingress
        /\ m.deleting = mem.deleting /\ m.finalizer = mem.finalizer
    BY <1>1 DEF Instance, IInv, TypeOK
  <2>3. pc \in Deploying
    BY <1>4 DEF Deploying, Serving
  <2>4. fresh => /\ mem = inst
                 /\ mem.address # NoAddress => ingress # NoAddress
    BY <2>3, AddressOfCopy
  <2> HIDE DEF m
  <2>5. fresh => MayWrite(m)
    BY <2>2, <2>4 DEF MayWrite
  <2>6. QED BY <2>1, <2>2, <2>5
<1>5. CASE pc \notin {"phase", "running", "address"}
  <2>1. Unsaved = mem
    BY <1>5 DEF Unsaved
  <2>2. QED BY <1>1, <2>1, CopyMayBeWritten
<1>6. QED BY <1>2, <1>3, <1>4, <1>5

LEMMA CallFailsIInv == ASSUME IInv, CallFails PROVE IInv'
<1>1. /\ failures' \in 0..MaxFailures /\ pc # "idle"
      /\ UNCHANGED <<kind, inst, hub, copies, lost, edits, restarts>>
  BY BoundsAssumption DEF CallFails, Calls, IInv, TypeOK
<1>2. /\ UNCHANGED <<selection, endpoint, job, clients, flower>>
      /\ UNCHANGED <<placement, decided, service, ingress, works, unseen,
                     serverApp, replicaSet, cache, jobSeen>>
  BY <1>1 DEF hub, selection, endpoint, clients, flower, copies
<1>3. CASE pc \in Fatal /\ Fail /\ UNCHANGED <<queued, fresh, todo>>
  <2>1. Ends([mem EXCEPT !.phase = "Failed"])
    BY <1>1, <1>2, <1>3 DEF Fail, Retry, Goto, Ends, IInv, TypeOK
  <2>2. QED BY <1>1, <1>3, <2>1, FailsIInv DEF Fatal
<1>4. CASE /\ pc \notin Fatal \cup {"end"}
           /\ Retry /\ mem' = Unsaved /\ UNCHANGED <<queued, fresh, todo>>
  <2>1. Ends(Unsaved)
    BY <1>1, <1>2, <1>4 DEF Retry, Goto, Ends, IInv, TypeOK
  <2>2. QED BY <1>1, <1>4, <2>1, UnsavedMayBeWritten, EndsIInv
<1>5. CASE /\ queued' = (queued \/ requeue)
           /\ Goto("idle") /\ mem' = Gone /\ fresh' = FALSE
           /\ todo' = {} /\ requeue' = FALSE
  <2>1. pc' = "idle" /\ queued' \in BOOLEAN
    BY <1>5 DEF Goto, IInv, TypeOK
  <2>2. TypeOK'
    BY <1>1, <1>2, <1>5, <2>1 DEF IInv, TypeOK, Steps
  <2>3. cache # Gone => Older(cache)
    BY DEF IInv, CopyInv
  <2>4. inst # Gone /\ ~inst.deleting /\ inst.address # NoAddress
          => ingress # NoAddress
    BY DEF IInv, AddressInv
  <2>5. QED BY <1>1, <1>2, <1>5, <2>1, <2>2, <2>3, <2>4, IdlesIInv
<1>6. QED BY <1>3, <1>4, <1>5 DEF CallFails

LEMMA RestartIInv == ASSUME IInv, Restart PROVE IInv'
<1>1. /\ pc' = "idle" /\ mem' = Gone /\ fresh' = FALSE
      /\ todo' = {} /\ requeue' = FALSE /\ queued' \in BOOLEAN
      /\ cache' = inst /\ unseen' = {}
      /\ UNCHANGED <<kind, inst, decided, ingress, job, works, flower, lost,
                     edits, failures>>
  BY DEF Restart, Goto
<1>2. jobSeen' \in {"none", "running", "done"}
  BY DEF Restart, JobAsSeen
<1>3. /\ placement' \in {"none", "new", "seen"}
      /\ service' \in {"none", "new", "seen"}
      /\ placement = "seen" => placement' = "seen"
  BY DEF Restart, Seen, IInv, TypeOK
<1>4. restarts' \in 0..MaxRestarts
  BY BoundsAssumption DEF Restart, IInv, TypeOK
<1>5. TypeOK'
  BY <1>1, <1>2, <1>3, <1>4 DEF IInv, TypeOK, Steps, flower
<1>6. inst # Gone => Older(inst)
  BY DEF Older
<1>7. inst # Gone /\ ~inst.deleting /\ inst.address # NoAddress
        => ingress # NoAddress
  BY DEF IInv, AddressInv
<1>8. cache' # Gone => Older(cache')
  BY <1>1, <1>6 DEF Older
<1>9. QED BY <1>1, <1>3, <1>5, <1>7, <1>8, IdlesIInv

-----------------------------------------------------------------------------
(***************************************************************************)
(* The informers.                                                          *)
(***************************************************************************)
LEMMA SyncInstanceIInv == ASSUME IInv, SyncInstance PROVE IInv'
<1>1. /\ cache' = inst /\ queued' \in BOOLEAN
      /\ UNCHANGED <<kind, inst, hub, jobSeen, run, lost, bounds>>
  BY DEF SyncInstance, IInv, TypeOK
<1> USE DEF hub, selection, endpoint, clients, flower, run, bounds
<1>2. TypeOK'
  BY <1>1 DEF IInv, TypeOK
<1>3. CopyInv'
  BY <1>1 DEF IInv, CopyInv, Older, MayWrite
<1>4. pc \in Pruning /\ inst # Gone => inst.deleting
  <2>1. pc \in Pruning => mem # Gone /\ mem.deleting
    BY DEF IInv, CopyInv, StepInv, Pruning
  <2>2. QED BY <2>1 DEF IInv, CopyInv, Older
<1>5. StepInv'
  BY <1>1, <1>4 DEF IInv, StepInv
<1>6. AddressInv' /\ WorksInv' /\ SpecInv'
  BY <1>1 DEF IInv, AddressInv, WorksInv, SpecInv, HasWork
<1>7. QED BY <1>2, <1>3, <1>5, <1>6 DEF IInv

LEMMA SyncPlacementIInv == ASSUME IInv, SyncPlacement PROVE IInv'
<1>1. /\ placement' = "seen"
      /\ UNCHANGED <<kind, inst, decided, endpoint, job, clients, flower,
                     copies, queued, run, lost, bounds>>
  BY DEF SyncPlacement
<1> USE DEF endpoint, clients, flower, copies, run, bounds
<1>2. TypeOK'
  BY <1>1 DEF IInv, TypeOK
<1>3. CopyInv' /\ StepInv'
  BY <1>1 DEF IInv, CopyInv, Older, MayWrite, StepInv
<1>4. AddressInv' /\ WorksInv' /\ SpecInv'
  BY <1>1 DEF IInv, AddressInv, WorksInv, SpecInv, HasWork
<1>5. QED BY <1>2, <1>3, <1>4 DEF IInv

LEMMA OtherInformersIInv ==
  ASSUME IInv, SyncService \/ SyncJob \/ SyncWorks PROVE IInv'
<1> USE DEF hub, selection, endpoint, clients, flower, copies, run, bounds
<1>1. CASE SyncService
  <2>1. TypeOK'
    BY <1>1 DEF SyncService, IInv, TypeOK
  <2>2. QED BY <1>1, <2>1, FrameIInv DEF SyncService
<1>2. CASE SyncJob
  <2>1. TypeOK'
    BY <1>2 DEF SyncJob, JobAsSeen, IInv, TypeOK
  <2>2. QED BY <1>2, <2>1, FrameIInv DEF SyncJob
<1>3. CASE SyncWorks
  <2>1. TypeOK'
    BY <1>3 DEF SyncWorks, IInv, TypeOK
  <2>2. QED BY <1>3, <2>1, FrameIInv DEF SyncWorks
<1>4. QED BY <1>1, <1>2, <1>3

-----------------------------------------------------------------------------
(***************************************************************************)
(* Users, placement, network and the job controller.                       *)
(***************************************************************************)
LEMMA EditSpecIInv == ASSUME IInv, EditSpec PROVE IInv'
<1> USE DEF hub, selection, endpoint, clients, flower, copies
<1>1. /\ inst # Gone /\ fresh' = FALSE /\ edits' = edits + 1
      /\ edits < MaxEdits /\ inst' = [inst EXCEPT !.spec = @ + 1]
      /\ UNCHANGED <<kind, hub, copies, queued, pc, mem, todo, requeue, lost,
                     failures, restarts>>
  BY DEF EditSpec, Edit
<1>2. inst \in Instance /\ inst.spec <= edits /\ edits \in 0..MaxEdits
  BY <1>1 DEF IInv, TypeOK, SpecInv
<1>3. /\ inst.spec + 1 \in 0..MaxEdits /\ inst.spec + 1 <= edits'
      /\ edits' \in 0..MaxEdits
  BY <1>1, <1>2, BoundsAssumption DEF Instance
<1>4. /\ inst' \in Instance /\ inst'.spec = inst.spec + 1
      /\ inst'.deleting = inst.deleting /\ inst'.finalizer = inst.finalizer
      /\ inst'.address = inst.address
  BY <1>1, <1>2, <1>3 DEF Instance
<1>5. inst' # Gone
  BY <1>4, SentinelAssumption
<1>6. TypeOK'
  BY <1>1, <1>3, <1>4 DEF IInv, TypeOK
<1>7. CopyInv'
  BY <1>1, <1>4, <1>5 DEF IInv, CopyInv, Older
<1>8. StepInv'
  BY <1>1 DEF IInv, StepInv
<1>9. AddressInv'
  BY <1>1, <1>4, <1>5 DEF IInv, AddressInv, HasWork
<1>10. WorksInv'
  BY <1>1, <1>5 DEF IInv, WorksInv, HasWork
<1>11. SpecInv'
  BY <1>3, <1>4 DEF SpecInv
<1>12. QED BY <1>6, <1>7, <1>8, <1>9, <1>10, <1>11 DEF IInv

LEMMA DeleteIInv == ASSUME IInv, Delete PROVE IInv'
<1> USE DEF hub, selection, endpoint, clients, flower, copies, bounds
<1>1. /\ inst # Gone /\ ~inst.deleting /\ fresh' = FALSE
      /\ UNCHANGED <<kind, hub, copies, queued, pc, mem, todo, requeue, lost,
                     bounds>>
  BY DEF Delete
<1>2. inst \in Instance
  BY <1>1 DEF IInv, TypeOK
<1>3. CASE inst.finalizer
  <2>1. inst' = [inst EXCEPT !.deleting = TRUE]
    BY <1>3 DEF Delete
  <2>2. /\ inst' \in Instance /\ inst'.deleting /\ inst'.finalizer
        /\ inst'.address = inst.address /\ inst'.spec = inst.spec
    BY <1>2, <1>3, <2>1 DEF Instance
  <2>3. inst' # Gone
    BY <2>2, SentinelAssumption
  <2>4. TypeOK'
    BY <1>1, <2>2 DEF IInv, TypeOK
  <2>5. CopyInv'
    BY <1>1, <2>2, <2>3 DEF IInv, CopyInv, Older
  <2>6. StepInv'
    BY <1>1 DEF IInv, StepInv
  <2>7. AddressInv' /\ SpecInv'
    BY <1>1, <2>2, <2>3 DEF IInv, AddressInv, SpecInv, HasWork
  <2>8. WorksInv'
    BY <1>1, <2>3 DEF IInv, WorksInv, HasWork
  <2>9. QED BY <2>4, <2>5, <2>6, <2>7, <2>8 DEF IInv
<1>4. CASE ~inst.finalizer
  <2>1. inst' = Gone
    BY <1>4 DEF Delete
  <2>2. TypeOK'
    BY <1>1, <2>1 DEF IInv, TypeOK
  <2>3. CopyInv'
    BY <1>1, <1>4, <2>1 DEF IInv, CopyInv, Older
  <2>4. StepInv'
    BY <1>1 DEF IInv, StepInv
  <2>5. AddressInv' /\ SpecInv'
    BY <2>1 DEF AddressInv, SpecInv
  <2>6. \A c \in Clusters : ~HasWork(c)
    BY <1>1, <1>4 DEF IInv, AddressInv
  <2>7. WorksInv'
    BY <1>1, <2>6 DEF IInv, WorksInv, HasWork
  <2>8. QED BY <2>2, <2>3, <2>4, <2>5, <2>7 DEF IInv
<1>5. QED BY <1>3, <1>4

LEMMA DecideIInv == ASSUME IInv, Decide PROVE IInv'
<1> USE DEF endpoint, clients, flower, copies, run
<1>1. /\ edits' = edits + 1 /\ edits < MaxEdits /\ decided' \subseteq Clusters
      /\ lost' = lost \cup (decided \ decided')
      /\ UNCHANGED <<kind, inst, placement, endpoint, job, clients, flower,
                     copies, queued, run, failures, restarts>>
  BY DEF Decide, Edit
<1>2. edits' \in 0..MaxEdits /\ edits <= edits'
  BY <1>1, BoundsAssumption DEF IInv, TypeOK
<1>3. TypeOK'
  BY <1>1, <1>2 DEF IInv, TypeOK
<1>4. CopyInv' /\ StepInv'
  BY <1>1 DEF IInv, CopyInv, Older, MayWrite, StepInv
<1>5. AddressInv'
  BY <1>1 DEF IInv, AddressInv, HasWork
<1>6. WorksInv'
  BY <1>1 DEF IInv, WorksInv, HasWork
<1>7. SpecInv'
  <2>1. inst # Gone => inst.spec \in Nat /\ inst.spec <= edits
    BY BoundsAssumption DEF IInv, TypeOK, SpecInv, Instance
  <2>2. edits \in Nat
    BY BoundsAssumption DEF IInv, TypeOK
  <2>3. QED BY <1>1, <2>1, <2>2 DEF SpecInv
<1>8. QED BY <1>3, <1>4, <1>5, <1>6, <1>7 DEF IInv

LEMMA AssignIngressIInv == ASSUME IInv, AssignIngress PROVE IInv'
<1> USE DEF selection, clients, flower, copies, run, bounds
<1>1. /\ ingress' \in Addresses
      /\ UNCHANGED <<kind, inst, selection, service, job, clients, flower,
                     copies, queued, run, lost, bounds>>
  BY DEF AssignIngress
<1>2. ingress' # NoAddress
  BY <1>1, SentinelAssumption
<1>3. TypeOK'
  BY <1>1 DEF IInv, TypeOK
<1>4. CopyInv' /\ StepInv'
  BY <1>1, <1>2 DEF IInv, CopyInv, Older, MayWrite, StepInv
<1>5. AddressInv' /\ WorksInv' /\ SpecInv'
  BY <1>1, <1>2 DEF IInv, AddressInv, WorksInv, SpecInv, HasWork
<1>6. QED BY <1>3, <1>4, <1>5 DEF IInv

LEMMA JobIInv == ASSUME IInv, FinishJob \/ CollectJob PROVE IInv'
<1> USE DEF selection, endpoint, clients, flower, copies, run, bounds
<1>1. job' \in Job \cup {NoJob}
  <2>1. CASE FinishJob
    <3>1. job \in Job
      BY <2>1 DEF FinishJob, IInv, TypeOK
    <3>2. QED BY <2>1, <3>1 DEF FinishJob, Job
  <2>2. CASE CollectJob
    BY <2>2 DEF CollectJob
  <2>3. QED BY <2>1, <2>2
<1>2. UNCHANGED <<kind, inst, selection, endpoint, clients, flower, copies,
                  queued, run, lost, bounds>>
  BY DEF FinishJob, CollectJob
<1>3. TypeOK'
  BY <1>1, <1>2 DEF IInv, TypeOK
<1>4. QED BY <1>2, <1>3, FrameIInv

-----------------------------------------------------------------------------
LEMMA StutterIInv == ASSUME IInv, UNCHANGED vars PROVE IInv'
<1> USE DEF vars, hub, selection, endpoint, clients, flower, copies, run, bounds
<1>1. TypeOK'
  BY DEF IInv, TypeOK
<1>2. QED BY <1>1, FrameIInv

LEMMA NextIInv == ASSUME IInv, [Next]_vars PROVE IInv'
BY ReconcileStepIInv, CallFailsIInv, RestartIInv, SyncInstanceIInv,
   SyncPlacementIInv, OtherInformersIInv, EditSpecIInv, DeleteIInv, DecideIInv,
   AssignIngressIInv, JobIInv, StutterIInv DEF Next, Informers

LEMMA IInvAlways == Spec => []IInv
BY InitIInv, NextIInv, PTL DEF Spec

\* The state of the controller, its caches and the API server keep their types
\* in every run of Reconcile (federatedlearning_controller.go:62-215).
THEOREM TypeCorrect == Spec => []TypeOK
<1>1. IInv => TypeOK
  BY DEF IInv
<1>2. QED BY <1>1, IInvAlways, PTL

\* deployClients (federatedlearning_controller.go:165-176) is never reached
\* with an address that is not in the stored status, whatever fails, restarts
\* or is edited in between.
THEOREM ClientsFollowAddressAlways == Spec => []ClientsFollowAddress
<1>1. IInv => ClientsFollowAddress
  BY DEF IInv, AddressInv, ClientsFollowAddress
<1>2. QED BY <1>1, IInvAlways, PTL

\* The clean-up of a deleted training (federatedlearning_controller.go:99-118)
\* removes every work but those of clusters that had left the decisions or that
\* the cache did not hold.
THEOREM LeavesOnlyLostWorksAlways == Spec => []LeavesOnlyLostWorks
<1>1. IInv => LeavesOnlyLostWorks
  BY DEF IInv, WorksInv, LeavesOnlyLostWorks
<1>2. QED BY <1>1, IInvAlways, PTL

-----------------------------------------------------------------------------
(***************************************************************************)
(* The stored phase.                                                       *)
(***************************************************************************)
PhaseStep ==
  inst # Gone /\ inst' # Gone /\ inst'.phase # inst.phase
    => <<inst.phase, inst'.phase>> \in PhaseSteps

LEMMA SaveWrites ==
  ASSUME TypeOK, NEW m, mem' = m, NEW step, Save(step)
  PROVE  inst' # inst => fresh /\ inst' = WithStatus(m)
<1>1. CASE fresh
  BY <1>1 DEF Save, WithStatus
<1>2. CASE ~fresh
  BY <1>2 DEF Save
<1>3. QED BY <1>1, <1>2 DEF TypeOK

\* A step of a deployment that writes its copy, with the phase of the copy the
\* same or one further.
LEMMA WritePhaseStep ==
  ASSUME IInv, pc \in Deploying, NEW m \in Instance,
         inst' # inst => fresh /\ inst' = WithStatus(m),
         m.phase # mem.phase => <<mem.phase, m.phase>> \in PhaseSteps
  PROVE  PhaseStep
<1>1. CASE fresh /\ inst' = WithStatus(m)
  <2>1. pc # "idle" /\ pc # "end"
    BY DEF Deploying, Serving
  <2>2. mem = inst /\ inst \in Instance
    BY <1>1, <2>1, CopyTyped
  <2>3. inst'.phase = m.phase
    BY <1>1, <2>2 DEF WithStatus, Instance
  <2>4. QED BY <2>2, <2>3 DEF PhaseStep
<1>2. CASE inst' = inst
  BY <1>2 DEF PhaseStep
<1>3. QED BY <1>1, <1>2

LEMMA ReconcilePhaseStep == ASSUME IInv, ReconcileStep PROVE PhaseStep
<1>1. CASE inst' = inst
  BY <1>1 DEF PhaseStep
<1>2. CASE AddFinalizer
  <2>1. inst' = inst \/ (fresh /\ inst' = [inst EXCEPT !.finalizer = TRUE])
    BY <1>2 DEF AddFinalizer
  <2>2. fresh => inst \in Instance
    BY <1>2, CopyTyped DEF AddFinalizer
  <2>3. inst'.phase = inst.phase
    BY <2>1, <2>2 DEF Instance
  <2>4. QED BY <2>3 DEF PhaseStep
<1>3. CASE StartWaiting
  <2>1. pc = "phase" /\ pc \in Deploying /\ pc # "idle"
    BY <1>3 DEF StartWaiting, Deploying
  <2>2. mem.phase = "" /\ mem \in Instance
    BY <2>1, CopyTyped DEF IInv, StepInv
  <2> DEFINE m == [mem EXCEPT !.phase = "Waiting"]
  <2>3. mem' = m /\ Save("placement")
    BY <1>3 DEF StartWaiting
  <2>4. m \in Instance /\ m.phase = "Waiting"
    BY <2>2 DEF Instance, Phases
  <2>5. <<"", "Waiting">> \in PhaseSteps
    BY DEF PhaseSteps
  <2> HIDE DEF m
  <2>6. inst' # inst => fresh /\ inst' = WithStatus(m)
    BY <2>3, SaveWrites DEF IInv
  <2>7. QED BY <2>1, <2>2, <2>4, <2>5, <2>6, WritePhaseStep
<1>4. CASE UpdateAddress
  <2>1. pc = "address" /\ pc \in Deploying /\ pc # "idle"
    BY <1>4 DEF UpdateAddress, Deploying, Serving
  <2>2. mem \in Instance
    BY <2>1, CopyTyped
  <2> DEFINE m == [mem EXCEPT !.address = ingress]
  <2>3. inst' # inst => mem' = m /\ Save("client")
    BY <1>4 DEF UpdateAddress
  <2>4. m \in Instance /\ m.phase = mem.phase
    BY <2>2 DEF Instance, IInv, TypeOK
  <2> HIDE DEF m
  <2>5. inst' # inst => fresh /\ inst' = WithStatus(m)
    BY <2>3, SaveWrites DEF IInv
  <2>6. QED BY <2>1, <2>4, <2>5, WritePhaseStep
<1>5. CASE SwitchToRunning \/ DeployClientApp
  <2>1. pc \in {"running", "clientApp"} /\ pc \in Deploying /\ pc # "idle"
    BY <1>5 DEF SwitchToRunning, DeployClientApp, Deploying, Serving
  <2>2. mem.phase \in {"Waiting", "Running"} /\ mem \in Instance
    BY <2>1, CopyTyped DEF IInv, StepInv
  <2> DEFINE m == [mem EXCEPT !.phase = "Running"]
  <2>3. \/ inst' = inst
        \/ mem' = m /\ Save("check")
        \/ fresh /\ inst' = WithStatus(m)
    BY <1>5 DEF SwitchToRunning, DeployClientApp, WithStatus
  <2>4. m \in Instance /\ m.phase = "Running"
    BY <2>2 DEF Instance, Phases
  <2>5. <<"Waiting", "Running">> \in PhaseSteps
    BY DEF PhaseSteps
  <2> HIDE DEF m
  <2>6. inst' # inst => fresh /\ inst' = WithStatus(m)
    BY <2>3, SaveWrites DEF IInv
  <2>7. QED BY <2>1, <2>2, <2>4, <2>5, <2>6, WritePhaseStep
<1>6. CASE CheckJob
  <2>1. pc = "check" /\ pc \in Deploying /\ pc # "idle"
    BY <1>6 DEF CheckJob, Deploying
  <2>2. mem \in Instance
    BY <2>1, CopyTyped
  <2> DEFINE m == [mem EXCEPT !.phase = "Completed"]
  <2>3. inst' # inst =>
          mem.phase = "Running" /\ fresh /\ inst' = WithStatus(m)
    BY <1>6 DEF CheckJob, WithStatus
  <2>4. m \in Instance /\ m.phase = "Completed"
    BY <2>2 DEF Instance, Phases
  <2>5. <<"Running", "Completed">> \in PhaseSteps
    BY DEF PhaseSteps
  <2>6. CASE inst' = inst
    BY <2>6 DEF PhaseStep
  <2> HIDE DEF m
  <2>7. QED BY <2>1, <2>3, <2>4, <2>5, <2>6, WritePhaseStep
<1>7. CASE Finish
  <2>1. inst' = inst \/ (fresh /\ inst' = WithStatus(mem))
    BY <1>7 DEF Finish
  <2>2. fresh => mem \in Instance /\ inst \in Instance /\ MayWrite(mem)
    BY <1>7, CopyTyped DEF Finish, IInv, CopyInv
  <2>3. fresh /\ inst' = WithStatus(mem) => inst'.phase = mem.phase
    BY <2>2 DEF WithStatus, Instance
  <2>4. QED BY <2>1, <2>2, <2>3 DEF PhaseStep, MayWrite
<1>8. CASE RemoveFinalizer
  BY <1>8 DEF RemoveFinalizer, PhaseStep
<1>9. QED
  BY <1>1, <1>2, <1>3, <1>4, <1>5, <1>6, <1>7, <1>8
     DEF ReconcileStep, Begin, DeployPlacement, DeployService, DeployJob,
         CountClients, ReadDecisions, DeployWork, DeployServerApp, PruneServer,
         PruneClient, PruneWork, PrunePlacement

LEMMA NextPhaseStep == ASSUME IInv, [Next]_vars PROVE PhaseStep
<1>1. CASE inst' = inst
  BY <1>1 DEF PhaseStep
<1>2. CASE EditSpec \/ Delete
  <2>1. inst \in Instance
    BY <1>2 DEF EditSpec, Delete, IInv, TypeOK
  <2>2. \/ inst' = Gone
        \/ inst' = [inst EXCEPT !.spec = @ + 1]
        \/ inst' = [inst EXCEPT !.deleting = TRUE]
    BY <1>2 DEF EditSpec, Delete
  <2>3. inst' = Gone \/ inst'.phase = inst.phase
    BY <2>1, <2>2 DEF Instance
  <2>4. QED BY <2>3 DEF PhaseStep
<1>3. QED
  BY <1>1, <1>2, ReconcilePhaseStep
     DEF Next, CallFails, Restart, Informers, SyncInstance, SyncPlacement,
         SyncService, SyncJob, SyncWorks, Decide, AssignIngress, FinishJob,
         CollectJob, vars

\* The deferred update (federatedlearning_controller.go:75-83) writes a status
\* that follows the stored one, also after failures, restarts and edits.
THEOREM PhaseOrderAlways == Spec => PhaseOrder
<1>1. IInv /\ [Next]_vars =>
        [inst # Gone /\ inst' # Gone /\ inst'.phase # inst.phase
           => <<inst.phase, inst'.phase>> \in PhaseSteps]_vars
  BY NextPhaseStep DEF PhaseStep
<1>2. QED BY <1>1, IInvAlways, PTL DEF Spec, PhaseOrder

=============================================================================
