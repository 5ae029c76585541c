---------------------------- MODULE DeviceAgent ----------------------------
(***************************************************************************)
(* The agent of the device addon on a managed cluster (device-addon/pkg):  *)
(* the driver controller and the device controller, the equipment they     *)
(* share, and the goroutines of the OPC-UA driver.                         *)
(*                                                                         *)
(* A Driver object is installed as an instance in the equipment; a Device  *)
(* object is an entry of the installed instance, under the name that its   *)
(* spec gives it, and with OPC-UA a goroutine that subscribes to the       *)
(* device's data.  Everything in the equipment is in memory.  The module   *)
(* has the one Driver of one type, of either kind: types share nothing but *)
(* the workers.  A Device may be of this type, `ours', or of another one,  *)
(* whose driver is there too and is left out.                              *)
(*                                                                         *)
(* Two history variables: `raced', the unlocked write of a subscription    *)
(* (toRequest) has undone a change that AddDevice or RemoveDevice made;    *)
(* `left', names that a Device of this type had before an edit of its name *)
(* or type, since the start of the process.                                *)
(***************************************************************************)
EXTENDS Naturals

CONSTANTS
  Devices,        \* names of Device objects
  Specs,          \* specs of Devices: the name of the device, whether its
                  \* driver is of this type, and the rest of the spec
  DriverConfigs,
  Unparsable,     \* the driver configs that ToConfigObj cannot parse
  Subs,           \* goroutine slots: the bound on goroutines alive at a time
  NoObject, NoEntry, NoSub,
  MaxEdits,       \* bound on changes by users
  MaxFaults       \* bound on failing calls to API server, broker, OPC-UA, on
                  \* restarts that nothing here causes, and on interruptions of
                  \* a goroutine between the read and the write of toRequest,
                  \* together

VARIABLES
  kind,                     \* of the driver: "opcua" or "mqtt"
  driver, driverSeen,       \* the Driver, and the lister's copy
  devices, deviceSeen,      \* the Devices, and the lister's copies
  left,
  installed,                \* the installed instance; 0: none
  instances,                \* every instance made since the start
  subs,                     \* goroutines of subscriptions
  drvPc, drvSnap, report,                \* the driver controller
  devPc, devKey, devSnap, devInstance,   \* the device controller
  raced,
  edits, failures, crashes, races

objects   == <<driver, devices>>
caches    == <<driverSeen, deviceSeen, left>>
equipment == <<installed, instances, subs, raced>>
drvVars   == <<drvPc, drvSnap, report>>
devVars   == <<devPc, devKey, devSnap, devInstance>>
bounds    == <<edits, failures, crashes, races>>
vars == <<kind, objects, caches, equipment, drvVars, devVars, bounds>>

ASSUME BoundsAssumption == MaxEdits \in Nat /\ MaxFaults \in Nat

ASSUME SpecsAssumption == \A spec \in Specs : spec.ours \in BOOLEAN

Names == {spec.name : spec \in Specs}

\* Between two restarts every instance but the first takes an edit.
Instances == 1..(MaxEdits + 1)

Driver == [config : DriverConfigs, deleting : BOOLEAN, finalizer : BOOLEAN,
           reported : {"", "installed", "failed"}]

Device == [spec : Specs, deleting : BOOLEAN, finalizer : BOOLEAN,
           reported : BOOLEAN]

\* opcuaDevice; `sub' is what its cancelFunc reaches, NoSub once that is done.
\* Of its requests there is the config whose resource comes first, for
\* findRequest looks no further (each config has a resource, of one handle).
\* `over' is history: when AddDevice made the entry, another config's request
\* was to come before its own.
Entry == [config : Specs, sub : Subs \cup {NoSub},
          first : Specs \cup {NoObject}, over : BOOLEAN]

\* A driver without devices, or a place where no driver was made yet.
EmptyInstance == [config |-> NoObject, entries |-> [n \in Names |-> NoEntry]]

\* A goroutine of AddDevice; `held' is the entry between toRequest's read and
\* its write.
IdleSub == [pc |-> "none", instance |-> 0, config |-> NoObject,
            cancelled |-> FALSE, held |-> NoEntry]

SubPcs == {"connect", "read", "write", "monitor", "listen"}

Sub == [pc : SubPcs, instance : Instances, config : Specs,
        cancelled : BOOLEAN, held : Entry \cup {NoEntry}]

\* What stands for no object, no entry or no goroutine is none.
ASSUME SentinelAssumption ==
  /\ NoObject \notin Driver \cup Device \cup Devices \cup DriverConfigs
  /\ NoEntry \notin Entry /\ NoSub \notin Subs

TypeOK ==
  /\ kind \in {"opcua", "mqtt"}
  /\ {driver, driverSeen, drvSnap} \subseteq Driver \cup {NoObject}
  /\ {devices, deviceSeen} \subseteq [Devices -> Device \cup {NoObject}]
  /\ installed \in Instances \cup {0}
  /\ instances \in [Instances ->
       [config  : DriverConfigs \cup {NoObject},
        entries : [Names -> Entry \cup {NoEntry}]]]
  /\ subs \in [Subs -> Sub \cup {IdleSub}]
  /\ drvPc \in {"idle", "finalizer", "install", "status", "uninstall",
                "release"}
  /\ report \in {"", "installed", "failed"}
  /\ devPc \in {"idle", "finalizer", "add", "status", "remove", "release"}
  /\ devKey \in Devices \cup {NoObject}
  /\ devSnap \in Device \cup {NoObject}
  /\ devInstance \in Instances \cup {0}
  /\ devPc # "idle" =>
       devKey # NoObject /\ (devSnap.spec.ours => devInstance # 0)
  /\ left \subseteq Names
  /\ raced \in BOOLEAN
  /\ edits \in 0..MaxEdits /\ failures \in 0..MaxFaults
  /\ crashes \in 0..MaxFaults /\ races \in 0..MaxFaults

NoInstances == [i \in Instances |-> EmptyInstance]

Idle == [g \in Subs |-> IdleSub]

FreshDriver == [config |-> NoObject, deleting |-> FALSE, finalizer |-> FALSE,
                reported |-> ""]

New(configs) == {[FreshDriver EXCEPT !.config = c] : c \in configs}

NewDevices ==
  [spec : Specs, deleting : {FALSE}, finalizer : {FALSE}, reported : {FALSE}]

\* NewEquipment, and controllers whose informers list the objects there are.
Init ==
  /\ kind \in {"opcua", "mqtt"}
  /\ driver = NoObject /\ devices = [d \in Devices |-> NoObject]
  /\ installed = 0 /\ instances = NoInstances /\ subs = Idle
  /\ driverSeen = driver /\ deviceSeen = devices
  /\ drvPc = "idle" /\ drvSnap = NoObject /\ report = ""
  /\ devPc = "idle" /\ devKey = NoObject /\ devSnap = NoObject
  /\ devInstance = 0
  /\ raced = FALSE /\ left = {}
  /\ edits = 0 /\ failures = 0 /\ crashes = 0 /\ races = 0

-----------------------------------------------------------------------------
(***************************************************************************)
(* Users, the informers, and restarts.                                     *)
(***************************************************************************)
Edit == edits < MaxEdits /\ edits' = edits + 1

\* What users may make of an object: create it, give it another spec, or delete
\* it, at once when it has no finalizer.
Edited(object, new, changed) ==
  IF object = NoObject THEN new
  ELSE IF object.deleting THEN {}
  ELSE (changed \ {object})
       \cup {IF object.finalizer THEN [object EXCEPT !.deleting = TRUE]
                                 ELSE NoObject}

EditDriver ==
  /\ Edit
  /\ driver' \in Edited(driver, New(DriverConfigs),
                       {[driver EXCEPT !.config = c] : c \in DriverConfigs})
  /\ UNCHANGED <<kind, devices, caches, equipment, drvVars, devVars, failures,
                 crashes, races>>

\* The name of this type that an edit takes from a Device, if it takes one.
LeftBy(old, new) ==
  {n \in Names : /\ old # NoObject /\ new # NoObject
                 /\ old.spec.ours /\ old.spec.name = n
                 /\ new.spec.ours => new.spec.name # n}

EditDevice(d) ==
  /\ Edit
  /\ \E new \in Edited(devices[d], NewDevices,
                      {[devices[d] EXCEPT !.spec = spec] : spec \in Specs}) :
       /\ devices' = [devices EXCEPT ![d] = new]
       /\ left' = left \cup LeftBy(devices[d], new)
  /\ UNCHANGED <<kind, driver, driverSeen, deviceSeen, equipment, drvVars,
                 devVars, failures, crashes, races>>

\* The informers.  They resync every ten minutes, so that the key of an object
\* in a lister may be handled at any time; the queues, which also bring back a
\* key whose sync failed and, after five seconds, one of a device without a
\* driver, are left out for that.
ObserveDriver ==
  /\ driverSeen # driver /\ driverSeen' = driver
  /\ UNCHANGED <<kind, objects, deviceSeen, left, equipment, drvVars, devVars,
                 bounds>>

ObserveDevice(d) ==
  /\ deviceSeen[d] # devices[d]
  /\ deviceSeen' = [deviceSeen EXCEPT ![d] = devices[d]]
  /\ UNCHANGED <<kind, objects, driverSeen, left, equipment, drvVars, devVars,
                 bounds>>

\* The process ends; its next one has nothing in memory, and informers that
\* list the objects.
Restart ==
  /\ installed' = 0 /\ instances' = NoInstances /\ subs' = Idle
  /\ driverSeen' = driver /\ deviceSeen' = devices /\ left' = {}
  /\ drvPc' = "idle" /\ drvSnap' = NoObject /\ report' = ""
  /\ devPc' = "idle" /\ devKey' = NoObject /\ devSnap' = NoObject
  /\ devInstance' = 0
  /\ UNCHANGED <<kind, objects, raced, edits, failures, races>>

Crash ==
  /\ failures + crashes + races < MaxFaults /\ crashes' = crashes + 1
  /\ Restart

\* A nil pointer is dereferenced.
Panic == Restart /\ UNCHANGED crashes

-----------------------------------------------------------------------------
(***************************************************************************)
(* The equipment and its drivers.                                          *)
(***************************************************************************)

\* The goroutines that the cancelFuncs of entries reach are told to stop.
Cancelled(entries) ==
  [g \in Subs |-> IF \E e \in entries : e # NoEntry /\ e.sub = g
                  THEN [subs[g] EXCEPT !.cancelled = TRUE] ELSE subs[g]]

EntriesOf(i) == {instances[i].entries[n] : n \in Names}

IsNil(config) == config \in Unparsable

\* The place of the next instance.
NextInstance ==
  CHOOSE i \in Instances :
    /\ instances[i].config = NoObject
    /\ \A j \in Instances : instances[j].config = NoObject => i <= j

\* InstallDriver does nothing for the config that is installed; otherwise it
\* stops the new driver - not the old one - when there is an old one, starts
\* the new one and lets it take the place.  A driver whose config cannot be
\* parsed is a nil pointer in an interface, which is not nil; Stop panics on it,
\* and on an MQTT driver that was never started.
SameDriver(config) == installed # 0 /\ instances[installed].config = config

StartPanics(config) ==
  IF installed # 0 THEN kind = "mqtt" \/ IsNil(config)
                   ELSE kind = "mqtt" /\ IsNil(config)

InstallInto(i, config) ==
  /\ installed' = i
  /\ instances' = [instances EXCEPT ![i].config = config]
  /\ UNCHANGED <<subs, raced>>

StopDriver(i) == Cancelled(EntriesOf(i))

-----------------------------------------------------------------------------
(***************************************************************************)
(* driversController.sync                                                  *)
(***************************************************************************)
Failure ==
  failures + crashes + races < MaxFaults /\ failures' = failures + 1

DrvFinish == drvPc' = "idle" /\ drvSnap' = NoObject /\ report' = ""

DrvBegin ==
  /\ drvPc = "idle" /\ driverSeen # NoObject
  /\ drvSnap' = driverSeen
  /\ drvPc' = IF driverSeen.deleting THEN "uninstall"
              ELSE IF driverSeen.finalizer THEN "install" ELSE "finalizer"
  /\ UNCHANGED <<kind, objects, caches, equipment, report, devVars, bounds>>

\* A finalizer is written without a resource version, whatever object has the
\* name now.
DrvAddFinalizer ==
  /\ drvPc = "finalizer"
  /\ \/ /\ driver # NoObject /\ driver' = [driver EXCEPT !.finalizer = TRUE]
        /\ DrvFinish /\ UNCHANGED failures
     \/ driver = NoObject /\ DrvFinish /\ UNCHANGED <<driver, failures>>
     \/ Failure /\ DrvFinish /\ UNCHANGED driver
  /\ UNCHANGED <<kind, devices, caches, equipment, devVars, edits, crashes, races>>

DrvReport(outcome) ==
  /\ drvPc' = "status" /\ report' = outcome
  /\ UNCHANGED drvSnap

\* Starting an MQTT driver connects to its broker.
DrvInstall ==
  LET config == drvSnap.config IN
  /\ drvPc = "install"
  /\ \/ /\ SameDriver(config) /\ DrvReport("installed")
        /\ UNCHANGED <<equipment, failures>>
     \/ /\ ~SameDriver(config) /\ ~StartPanics(config)
        /\ \/ /\ InstallInto(NextInstance, config) /\ DrvReport("installed")
              /\ UNCHANGED failures
           \/ /\ kind = "mqtt" /\ Failure /\ DrvReport("failed")
              /\ UNCHANGED equipment
  /\ UNCHANGED <<kind, objects, caches, devVars, edits, crashes, races>>

DrvInstallPanics ==
  /\ drvPc = "install"
  /\ ~SameDriver(drvSnap.config) /\ StartPanics(drvSnap.config)
  /\ Panic

\* PatchStatus sends the resource version of the lister's copy.
DrvStatus ==
  /\ drvPc = "status"
  /\ \/ drvSnap.reported = report /\ DrvFinish
        /\ UNCHANGED <<driver, failures>>
     \/ /\ drvSnap.reported # report /\ driver = drvSnap
        /\ driver' = [driver EXCEPT !.reported = report]
        /\ DrvFinish /\ UNCHANGED failures
     \/ /\ drvSnap.reported # report /\ driver # drvSnap
        /\ DrvFinish /\ UNCHANGED <<driver, failures>>
     \/ drvSnap.reported # report /\ Failure /\ DrvFinish
        /\ UNCHANGED driver
  /\ UNCHANGED <<kind, devices, caches, equipment, devVars, edits, crashes, races>>

\* UnInstallDriver; a nil driver panics when it is stopped.
DrvUninstall ==
  /\ drvPc = "uninstall"
  /\ installed # 0 => ~IsNil(instances[installed].config)
  /\ \/ /\ installed # 0
        /\ subs' = StopDriver(installed) /\ installed' = 0
     \/ installed = 0 /\ UNCHANGED <<subs, installed>>
  /\ drvPc' = "release"
  /\ UNCHANGED <<kind, objects, caches, instances, raced, drvSnap, report,
                 devVars, bounds>>

DrvUninstallPanics ==
  /\ drvPc = "uninstall"
  /\ installed # 0 /\ IsNil(instances[installed].config)
  /\ Panic

DrvRemoveFinalizer ==
  /\ drvPc = "release"
  /\ \/ /\ driver # NoObject
        /\ driver' = IF driver.deleting THEN NoObject
                     ELSE [driver EXCEPT !.finalizer = FALSE]
        /\ DrvFinish /\ UNCHANGED failures
     \/ driver = NoObject /\ DrvFinish /\ UNCHANGED <<driver, failures>>
     \/ Failure /\ DrvFinish /\ UNCHANGED driver
  /\ UNCHANGED <<kind, devices, caches, equipment, devVars, edits, crashes, races>>

DrvNext ==
  \/ DrvBegin \/ DrvAddFinalizer \/ DrvInstall \/ DrvInstallPanics
  \/ DrvStatus \/ DrvUninstall \/ DrvUninstallPanics \/ DrvRemoveFinalizer

-----------------------------------------------------------------------------
(***************************************************************************)
(* devicesController.sync                                                  *)
(***************************************************************************)
DevFinish ==
  /\ devPc' = "idle" /\ devKey' = NoObject /\ devSnap' = NoObject
  /\ devInstance' = 0

\* Mutant of DevBegin: it does not ask whether there is a driver.
DevBeginUnasked(d) ==
  LET seen == deviceSeen[d] IN
  /\ devPc = "idle" /\ seen # NoObject
  /\ devKey' = d /\ devSnap' = seen
  /\ devInstance' = IF seen.spec.ours THEN installed ELSE 0
  /\ devPc' = IF seen.deleting THEN "remove"
              ELSE IF seen.finalizer THEN "add" ELSE "finalizer"
  /\ UNCHANGED <<kind, objects, caches, equipment, drvVars, bounds>>

\* Without an instance of its driver any device waits, also a deleted one.  The
\* instance that GetDriver returns is used to the end of the sync, whatever
\* becomes of the driver meanwhile; 0 stands for a driver of another type.
DevBegin(d) ==
  LET seen == deviceSeen[d] IN
  /\ devPc = "idle" /\ seen # NoObject /\ (seen.spec.ours => installed # 0)
  /\ devKey' = d /\ devSnap' = seen
  /\ devInstance' = IF seen.spec.ours THEN installed ELSE 0
  /\ devPc' = IF seen.deleting THEN "remove"
              ELSE IF seen.finalizer THEN "add" ELSE "finalizer"
  /\ UNCHANGED <<kind, objects, caches, equipment, drvVars, bounds>>

SetDevice(object) == devices' = [devices EXCEPT ![devKey] = object]

DevAddFinalizer ==
  /\ devPc = "finalizer"
  /\ \/ /\ devices[devKey] # NoObject
        /\ SetDevice([devices[devKey] EXCEPT !.finalizer = TRUE])
        /\ DevFinish /\ UNCHANGED failures
     \/ /\ devices[devKey] = NoObject
        /\ DevFinish /\ UNCHANGED <<devices, failures>>
     \/ Failure /\ DevFinish /\ UNCHANGED devices
  /\ UNCHANGED <<kind, driver, caches, equipment, drvVars, edits, crashes, races>>

DevEntry == instances[devInstance].entries[devSnap.spec.name]

PutEntry(i, n, entry) ==
  instances' = [instances EXCEPT ![i].entries[n] = entry]

DevGoto(step) ==
  devPc' = step /\ UNCHANGED <<devKey, devSnap, devInstance>>

\* Mutant of Replaced: a changed device keeps its old goroutine.
ReplacedQuietly(old) == subs

\* AddDevice of a device that is there with another config cancels it.
Replaced(old) == Cancelled({old})

Subscription(i, spec) ==
  [pc |-> "connect", instance |-> i, config |-> spec, cancelled |-> FALSE,
   held |-> NoEntry]

\* Mutant of Unchanged: a device that is there is left alone.
UnchangedName(entry, spec) == entry # NoEntry

\* OPC-UA leaves a device with the same config alone; MQTT any device that it
\* has heard of.
Unchanged(entry, spec) ==
  entry # NoEntry /\ (kind = "opcua" => entry.config = spec)

FreeSub == CHOOSE g \in Subs : subs[g] = IdleSub

\* A changed device keeps its requests.
Carried(entry) == IF entry = NoEntry THEN NoObject ELSE entry.first

\* Another config's request is carried over, or a goroutine that has connected,
\* and does not ask whether it is cancelled any more, may still make one.
Overtaken(spec) ==
  IF Carried(DevEntry) # NoObject THEN Carried(DevEntry) # spec
  ELSE \E g \in Subs :
         /\ subs[g].pc \in {"read", "write"} /\ subs[g].instance = devInstance
         /\ subs[g].config.name = spec.name /\ subs[g].config # spec

\* What AddDevice puts in the map; g is the goroutine it starts.
Added(spec, g) ==
  [config |-> spec, sub |-> g, first |-> Carried(DevEntry),
   over |-> Overtaken(spec)]

\* MQTT's devices have no goroutine and no requests.
AddedMQTT(spec) ==
  [config |-> spec, sub |-> NoSub, first |-> NoObject, over |-> FALSE]

AddDevice(spec) ==
  \/ /\ Unchanged(DevEntry, spec)
     /\ UNCHANGED <<instances, subs>>
  \/ /\ ~Unchanged(DevEntry, spec) /\ kind = "mqtt"
     /\ PutEntry(devInstance, spec.name, AddedMQTT(spec))
     /\ UNCHANGED subs
  \/ /\ ~Unchanged(DevEntry, spec) /\ kind = "opcua"
     /\ \E g \in Subs : subs[g] = IdleSub
     /\ subs' = [Replaced(DevEntry) EXCEPT
                   ![FreeSub] = Subscription(devInstance, spec)]
     /\ PutEntry(devInstance, spec.name, Added(spec, FreeSub))

\* The device's driver is of this type, and no nil pointer.
OursAlive == devSnap.spec.ours /\ ~IsNil(instances[devInstance].config)

DevAdd ==
  /\ devPc = "add"
  /\ \/ OursAlive /\ AddDevice(devSnap.spec)
     \/ ~devSnap.spec.ours /\ UNCHANGED <<instances, subs>>
  /\ DevGoto("status")
  /\ UNCHANGED <<kind, objects, caches, installed, raced, drvVars, bounds>>

DevStatus ==
  /\ devPc = "status"
  /\ \/ devSnap.reported /\ DevFinish /\ UNCHANGED <<devices, failures>>
     \/ /\ ~devSnap.reported /\ devices[devKey] = devSnap
        /\ SetDevice([devSnap EXCEPT !.reported = TRUE])
        /\ DevFinish /\ UNCHANGED failures
     \/ /\ ~devSnap.reported /\ devices[devKey] # devSnap
        /\ DevFinish /\ UNCHANGED <<devices, failures>>
     \/ ~devSnap.reported /\ Failure /\ DevFinish /\ UNCHANGED devices
  /\ UNCHANGED <<kind, driver, caches, equipment, drvVars, edits, crashes, races>>

\* RemoveDevice, which MQTT does not implement.
DevRemove ==
  /\ devPc = "remove"
  /\ \/ /\ OursAlive /\ kind = "opcua"
        /\ subs' = Cancelled({DevEntry})
        /\ PutEntry(devInstance, devSnap.spec.name, NoEntry)
     \/ OursAlive /\ kind = "mqtt" /\ UNCHANGED <<subs, instances>>
     \/ ~devSnap.spec.ours /\ UNCHANGED <<subs, instances>>
  /\ DevGoto("release")
  /\ UNCHANGED <<kind, objects, caches, installed, raced, drvVars, bounds>>

\* Both methods panic on a nil driver.
DevPanics ==
  /\ devPc \in {"add", "remove"} /\ devSnap.spec.ours
  /\ IsNil(instances[devInstance].config)
  /\ Panic

DevRemoveFinalizer ==
  /\ devPc = "release"
  /\ \/ /\ devices[devKey] # NoObject
        /\ SetDevice(IF devices[devKey].deleting THEN NoObject
                     ELSE [devices[devKey] EXCEPT !.finalizer = FALSE])
        /\ DevFinish /\ UNCHANGED failures
     \/ /\ devices[devKey] = NoObject
        /\ DevFinish /\ UNCHANGED <<devices, failures>>
     \/ Failure /\ DevFinish /\ UNCHANGED devices
  /\ UNCHANGED <<kind, driver, caches, equipment, drvVars, edits, crashes, races>>

DevNext ==
  \/ DevAddFinalizer \/ DevAdd \/ DevStatus \/ DevRemove \/ DevPanics
  \/ DevRemoveFinalizer

-----------------------------------------------------------------------------
(***************************************************************************)
(* startSubscription, the goroutine of a device.                           *)
(***************************************************************************)
SubGoto(g, step) == subs' = [subs EXCEPT ![g].pc = step]

\* An entry whose goroutine g has ended.
Ended(entry, g) ==
  IF entry # NoEntry /\ entry.sub = g THEN [entry EXCEPT !.sub = NoSub]
                                      ELSE entry

SubDone(g) ==
  /\ subs' = [h \in Subs |-> IF h = g THEN IdleSub
                             ELSE [subs[h] EXCEPT !.held = Ended(@, g)]]
  /\ instances' = [i \in Instances |->
       [instances[i] EXCEPT !.entries = [n \in Names |-> Ended(@[n], g)]]]

notSub == <<kind, objects, caches, installed, drvVars, devVars, edits, crashes>>

\* GetEndpoints, Connect and Subscribe, with the goroutine's context.
SubConnect(g) ==
  /\ subs[g].pc = "connect"
  /\ \/ ~subs[g].cancelled /\ SubGoto(g, "read")
        /\ UNCHANGED <<instances, failures>>
     \/ subs[g].cancelled /\ SubDone(g) /\ UNCHANGED failures
     \/ Failure /\ SubDone(g)
  /\ UNCHANGED <<notSub, raced, races>>

\* toRequest reads the entry of the device and writes it back, with one more
\* request at the end, without the lock: in one go, or interrupted in between.
EntryFor(g) == instances[subs[g].instance].entries[subs[g].config.name]

\* Mutant of PutRequest: the copy of the entry gets the request and is dropped.
PutRequestLost(g, entry) ==
  PutEntry(subs[g].instance, subs[g].config.name, entry)

PutRequest(g, entry) ==
  PutEntry(subs[g].instance, subs[g].config.name,
           IF entry.first = NoObject THEN [entry EXCEPT !.first = subs[g].config]
                                     ELSE entry)

SubRequest(g) ==
  /\ subs[g].pc = "read"
  /\ \/ EntryFor(g) # NoEntry /\ SubGoto(g, "monitor")
        /\ PutRequest(g, EntryFor(g))
     \/ EntryFor(g) = NoEntry /\ SubDone(g)
  /\ UNCHANGED <<notSub, raced, failures, races>>

SubRead(g) ==
  /\ subs[g].pc = "read" /\ EntryFor(g) # NoEntry
  /\ failures + crashes + races < MaxFaults /\ races' = races + 1
  /\ subs' = [subs EXCEPT ![g].pc = "write", ![g].held = EntryFor(g)]
  /\ UNCHANGED <<notSub, instances, raced, failures>>

SubWrite(g) ==
  /\ subs[g].pc = "write"
  /\ PutRequest(g, subs[g].held)
  /\ raced' = (raced \/ EntryFor(g) # subs[g].held)
  /\ subs' = [subs EXCEPT ![g].pc = "monitor", ![g].held = NoEntry]
  /\ UNCHANGED <<notSub, failures, races>>

\* The monitored item is created.
SubMonitor(g) ==
  /\ subs[g].pc = "monitor"
  /\ \/ SubGoto(g, "listen") /\ UNCHANGED <<instances, failures>>
     \/ Failure /\ SubDone(g)
  /\ UNCHANGED <<notSub, raced, races>>

\* The loop over the notifications ends with the context.
SubStop(g) ==
  /\ subs[g].pc = "listen" /\ subs[g].cancelled
  /\ SubDone(g)
  /\ UNCHANGED <<notSub, raced, failures, races>>

SubNext(g) ==
  \/ SubConnect(g) \/ SubRequest(g) \/ SubRead(g) \/ SubWrite(g)
  \/ SubMonitor(g) \/ SubStop(g)

-----------------------------------------------------------------------------
EnvNext ==
  \/ EditDriver \/ ObserveDriver \/ Crash
  \/ \E d \in Devices : EditDevice(d) \/ ObserveDevice(d)

Next ==
  \/ EnvNext \/ DrvNext \/ DevNext
  \/ \E d \in Devices : DevBegin(d)
  \/ \E g \in Subs : SubNext(g)

Spec == Init /\ [][Next]_vars

(***************************************************************************)
(* The informers deliver and resync, and the workers and goroutines run;   *)
(* the queue of the devices is first-in first-out.                         *)
(***************************************************************************)
FairSpec ==
  /\ Spec
  /\ WF_vars(ObserveDriver)
  /\ WF_vars(DrvNext) /\ WF_vars(DevNext)
  /\ \A d \in Devices :
       WF_vars(ObserveDevice(d)) /\ SF_vars(DevBegin(d))
  /\ \A g \in Subs : WF_vars(SubNext(g))

-----------------------------------------------------------------------------
(***************************************************************************)
(* Properties.                                                             *)
(***************************************************************************)
Live(g) == subs[g] # IdleSub /\ ~subs[g].cancelled

\* Unless an unlocked write of toRequest undid a change, the installed driver
\* has at most one goroutine with a live context per name, the one that the
\* entry of the name can stop, whatever was added, changed and removed before.
\* In an OPC-UA driver an entry is that of a Device of this type which has its
\* name, so that a later one is not taken for one that is there already; or one
\* that no Device is left to remove, after an edit of a name or type.
OneSubscription ==
  ~raced =>
    /\ \A g \in Subs :
         Live(g) /\ subs[g].instance = installed =>
           EntryFor(g) # NoEntry /\ EntryFor(g).sub = g
    /\ kind = "opcua" /\ installed # 0 =>
         \A n \in Names : instances[installed].entries[n] # NoEntry =>
           \/ n \in left
           \/ \E d \in Devices :
                /\ devices[d] # NoObject
                /\ devices[d].spec.ours /\ devices[d].spec.name = n

\* The Driver stays as it is and can be installed.
Wanted == driver # NoObject /\ ~driver.deleting /\ ~IsNil(driver.config)

\* A Device of this type that shares its name with no other.
Alone(d) ==
  /\ devices[d] # NoObject /\ devices[d].spec.ours
  /\ \A other \in Devices \ {d} : devices[other] # NoObject =>
       ~devices[other].spec.ours
         \/ devices[other].spec.name # devices[d].spec.name

EntryOf(d) == instances[installed].entries[devices[d].spec.name]

\* Once nobody edits any more, a Driver that can be installed is installed
\* with its config and reported so, and every Device is an entry of it, with
\* OPC-UA with its config: what an uninstalled driver took, what a restart
\* lost, and what toRequest undid, comes back with a resync.  A deleted Driver
\* goes away, also one that cannot be parsed; so does a deleted Device, unless
\* there is no Driver to remove it from.  Devices that share a name take the
\* entry from each other for ever.
EquipmentConverges ==
  <>[](/\ driver # NoObject => ~driver.deleting
       /\ Wanted =>
            /\ installed # 0 /\ instances[installed].config = driver.config
            /\ driver.reported = "installed"
            /\ \A d \in Devices : devices[d] # NoObject => ~devices[d].deleting
            /\ \A d \in Devices : Alone(d) =>
                 /\ EntryOf(d) # NoEntry
                 /\ kind = "opcua" => EntryOf(d).config = devices[d].spec)

\* Without failing calls and such writes, every Device of an installed OPC-UA
\* driver comes to be listened to by a goroutine that has its config, and its
\* readings are taken for those of its resource, unless another config's
\* request was to come before its own.
DevicesAreHeard ==
  <>[](kind = "opcua" /\ ~raced /\ failures = 0 /\ Wanted =>
         \A d \in Devices : Alone(d) /\ ~devices[d].deleting =>
           /\ \E g \in Subs :
                /\ subs[g].pc = "listen" /\ ~subs[g].cancelled
                /\ subs[g].instance = installed
                /\ subs[g].config = devices[d].spec
           /\ EntryOf(d).over \/ EntryOf(d).first = devices[d].spec)

=============================================================================
