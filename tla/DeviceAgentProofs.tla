------------------------- MODULE DeviceAgentProofs -------------------------
(***************************************************************************)
(* Proofs about DeviceAgent, for every value of its constants: any devices,*)
(* configs, goroutines, edits, failures, restarts and races.               *)
(***************************************************************************)
EXTENDS DeviceAgent, TLAPS

Used(i) == instances[i].config # NoObject

\* A worker at a step has its object, and what it uses has been made.
WorkInv ==
  /\ drvPc # "idle" => drvSnap # NoObject
  /\ drvPc = "install" => ~drvSnap.deleting
  /\ drvPc = "uninstall" => drvSnap.deleting
  /\ devPc # "idle" =>
       devSnap # NoObject /\ (devSnap.spec.ours => Used(devInstance))
  /\ installed # 0 => Used(installed)
  /\ \A g \in Subs : subs[g] # IdleSub => Used(subs[g].instance)

\* The config that a version of the Driver asks for, and the installed one.
Config(object) ==
  IF object = NoObject THEN NoObject
  ELSE IF object.deleting THEN NoObject ELSE object.config

Current == IF installed = 0 THEN NoObject ELSE instances[installed].config

Asked == IF drvPc = "idle" THEN Current ELSE Config(drvSnap)

Differ(a, b) == IF a = b THEN 0 ELSE 1

\* How many of the edits have not led to an instance yet, at least.
Lag ==
  Differ(Current, Asked) + Differ(Asked, Config(driverSeen))
    + Differ(Config(driverSeen), Config(driver))

\* Every instance takes an edit of its own, so that there is always a place for
\* the next one.
UsedInv ==
  /\ \E n \in Nat : /\ \A i \in Instances : Used(i) <=> i <= n
                    /\ n + Lag <= edits
  /\ driver # NoObject => edits # 0

\* What an entry can cancel is a goroutine that runs.
Reaches(entry) ==
  entry # NoEntry /\ entry.sub # NoSub => subs[entry.sub] # IdleSub

\* A goroutine that is between reading and writing holds an entry.
Holds(s) == s.pc = "write" => s.held # NoEntry

RefInv ==
  /\ \A i \in Instances, n \in Names : Reaches(instances[i].entries[n])
  /\ \A g \in Subs : Reaches(subs[g].held) /\ Holds(subs[g])

\* A Device with its finalizer, before and after it is deleted.
Held(object)  == object # NoObject /\ object.finalizer /\ ~object.deleting
Dying(object) == object # NoObject /\ object.finalizer /\ object.deleting
Kept(object)  == object # NoObject /\ object.finalizer

\* Such a Device of this type has the name n; some Device has, or had.
Owns(object, n) == Kept(object) /\ object.spec.ours /\ object.spec.name = n

Owned(n) == n \in left \/ \E d \in Devices : Owns(devices[d], n)

\* What an old copy, `seen', tells of the Device as it is now: that it has its
\* name still or has left it; that it is like the copy, if it is there.
Claims(seen, object) ==
  seen.spec.ours => seen.spec.name \in left \/ Owns(object, seen.spec.name)

Same(object, seen) == Kept(object) => object.spec = seen.spec

Fits(seen, object) ==
  /\ Held(seen) => Kept(object) /\ Claims(seen, object)
  /\ Dying(seen) => ~Held(object) /\ Same(object, seen)

\* However old the lister's copy and the worker's copy of a Device are, the
\* finalizer that they show is there, and one that goes is not needed any more.
LifeInv ==
  \A d \in Devices :
    /\ devices[d] # NoObject /\ devices[d].deleting => devices[d].finalizer
    /\ deviceSeen[d] # NoObject /\ deviceSeen[d].deleting
         => deviceSeen[d].finalizer
    /\ Fits(deviceSeen[d], devices[d])
    /\ devKey = d /\ devPc = "finalizer" /\ Dying(deviceSeen[d])
         => Dying(devices[d])
    /\ devKey = d /\ devPc = "add"
         => Kept(devices[d]) /\ Claims(devSnap, devices[d])
    /\ devKey = d /\ devPc \in {"remove", "release"}
         => ~Held(devices[d]) /\ ~Held(deviceSeen[d])
              /\ Same(devices[d], devSnap)

\* A live goroutine is the one that the entry of its device can stop.
SubInv ==
  \A g \in Subs : Live(g) =>
    LET entry == instances[subs[g].instance].entries[subs[g].config.name] IN
    entry # NoEntry /\ entry.sub = g

\* An OPC-UA driver's entries are those of Devices that still have their
\* finalizer, or of names that Devices left; an instance that was made during a
\* sync of a device has none.
EntryInv ==
  /\ \A i \in Instances : ~Used(i) =>
       \A n \in Names : instances[i].entries[n] = NoEntry
  /\ devPc # "idle" /\ devSnap.spec.ours
       /\ installed # 0 /\ installed # devInstance =>
       \A n \in Names : instances[installed].entries[n] = NoEntry
  /\ kind = "opcua" /\ installed # 0 =>
       /\ \A n \in Names : instances[installed].entries[n] # NoEntry => Owned(n)
       /\ devPc = "release" /\ devSnap.spec.ours =>
            instances[installed].entries[devSnap.spec.name] = NoEntry

IInv ==
  /\ TypeOK /\ WorkInv /\ UsedInv /\ RefInv /\ LifeInv
  /\ ~raced => SubInv /\ EntryInv

-----------------------------------------------------------------------------
(***************************************************************************)
(* Types, in groups that are disturbed apart.                              *)
(***************************************************************************)
LEMMA Sentinels ==
  /\ \A x \in Driver : x # NoObject
  /\ \A x \in Device : x # NoObject
  /\ \A x \in DriverConfigs : x # NoObject
  /\ \A x \in Devices : x # NoObject
  /\ \A x \in Entry : x # NoEntry
  /\ \A g \in Subs : g # NoSub
BY SentinelAssumption

ObjectTypes ==
  /\ driver \in Driver \cup {NoObject} /\ driverSeen \in Driver \cup {NoObject}
  /\ devices \in [Devices -> Device \cup {NoObject}]
  /\ deviceSeen \in [Devices -> Device \cup {NoObject}]
  /\ left \subseteq Names

Instance == [config  : DriverConfigs \cup {NoObject},
             entries : [Names -> Entry \cup {NoEntry}]]

EquipmentTypes ==
  /\ installed \in Instances \cup {0}
  /\ instances \in [Instances -> Instance]
  /\ subs \in [Subs -> Sub \cup {IdleSub}]
  /\ raced \in BOOLEAN

DrvTypes ==
  /\ drvSnap \in Driver \cup {NoObject}
  /\ drvPc \in {"idle", "finalizer", "install", "status", "uninstall",
                "release"}
  /\ report \in {"", "installed", "failed"}

DevTypes ==
  /\ devPc \in {"idle", "finalizer", "add", "status", "remove", "release"}
  /\ devKey \in Devices \cup {NoObject}
  /\ devSnap \in Device \cup {NoObject}
  /\ devInstance \in Instances \cup {0}
  /\ devPc # "idle" =>
       devKey # NoObject /\ (devSnap.spec.ours => devInstance # 0)

BoundTypes ==
  /\ kind \in {"opcua", "mqtt"}
  /\ edits \in 0..MaxEdits /\ failures \in 0..MaxFaults
  /\ crashes \in 0..MaxFaults /\ races \in 0..MaxFaults

Types == ObjectTypes /\ EquipmentTypes /\ DrvTypes /\ DevTypes /\ BoundTypes

LEMMA TypesAreTypeOK == TypeOK <=> Types
BY DEF TypeOK, Types, ObjectTypes, EquipmentTypes, DrvTypes, DevTypes,
       BoundTypes, Instance

\* A Device's spec has one of the names.
LEMMA SpecTyped ==
  ASSUME NEW x \in Device
  PROVE  x.spec \in Specs /\ x.spec.name \in Names /\ x.spec.ours \in BOOLEAN
<1>1. x.spec \in Specs
  BY DEF Device
<1>2. QED BY <1>1, SpecsAssumption DEF Names

\* At a step of the device controller there is a device, and an instance if it
\* is of this type.
LEMMA DevAtWork ==
  ASSUME IInv, devPc # "idle"
  PROVE  /\ devKey \in Devices
         /\ devSnap \in Device /\ devSnap # NoObject
         /\ devSnap.spec \in Specs /\ devSnap.spec.name \in Names
         /\ devSnap.spec.ours \in BOOLEAN
         /\ devSnap.spec.ours => devInstance \in Instances /\ Used(devInstance)
<1>1. DevTypes
  BY TypesAreTypeOK DEF IInv, Types
<1>2. /\ devSnap # NoObject
      /\ devSnap.spec.ours => Used(devInstance)
  BY DEF IInv, WorkInv
<1>3. devKey \in Devices /\ devSnap \in Device
      /\ (devSnap.spec.ours => devInstance \in Instances)
  BY <1>1, <1>2 DEF DevTypes
<1>4. QED BY <1>2, <1>3, SpecTyped

LEMMA DriverWith ==
  ASSUME NEW x \in Driver
  PROVE  /\ \A c \in DriverConfigs : [x EXCEPT !.config = c] \in Driver
         /\ [x EXCEPT !.deleting = TRUE] \in Driver
         /\ [x EXCEPT !.finalizer = TRUE] \in Driver
         /\ [x EXCEPT !.finalizer = FALSE] \in Driver
         /\ \A r \in {"", "installed", "failed"} :
              [x EXCEPT !.reported = r] \in Driver
BY DEF Driver

LEMMA DeviceWith ==
  ASSUME NEW x \in Device
  PROVE  /\ \A spec \in Specs : [x EXCEPT !.spec = spec] \in Device
         /\ [x EXCEPT !.deleting = TRUE] \in Device
         /\ [x EXCEPT !.finalizer = TRUE] \in Device
         /\ [x EXCEPT !.finalizer = FALSE] \in Device
         /\ [x EXCEPT !.reported = TRUE] \in Device
BY DEF Device

LEMMA NewTyped == New(DriverConfigs) \subseteq Driver
<1>1. ASSUME NEW c \in DriverConfigs
      PROVE  [FreshDriver EXCEPT !.config = c] \in Driver
  BY DEF FreshDriver, Driver
<1>2. QED BY <1>1 DEF New

LEMMA EditedDriver ==
  ASSUME NEW x \in Driver \cup {NoObject},
         NEW y \in Edited(x, New(DriverConfigs),
                         {[x EXCEPT !.config = c] : c \in DriverConfigs})
  PROVE  y \in Driver \cup {NoObject}
<1>1. CASE x = NoObject
  BY <1>1, NewTyped DEF Edited
<1>2. CASE x # NoObject
  <2>1. x \in Driver
    BY <1>2
  <2>2. \/ \E c \in DriverConfigs : y = [x EXCEPT !.config = c]
        \/ y = [x EXCEPT !.deleting = TRUE]
        \/ y = NoObject
    BY <1>2 DEF Edited
  <2>3. QED BY <2>1, <2>2, DriverWith
<1>3. QED BY <1>1, <1>2

\* What a user does to a Device: its finalizer stays, and so does its name, or
\* it has left it; what is deleted but not gone has a finalizer.
LEMMA EditedDevice ==
  ASSUME NEW x \in Device \cup {NoObject},
         NEW y \in Edited(x, NewDevices,
                         {[x EXCEPT !.spec = spec] : spec \in Specs})
  PROVE  /\ y \in Device \cup {NoObject}
         /\ ~Dying(x)
         /\ y # NoObject /\ y.deleting => y.finalizer
         /\ Kept(x) <=> Kept(y)
         /\ \A n : Owns(x, n) => n \in LeftBy(x, y) \/ Owns(y, n)
<1>1. CASE x = NoObject
  <2>1. y \in NewDevices
    BY <1>1 DEF Edited
  <2>2. y \in Device /\ ~y.deleting /\ ~y.finalizer
    BY <2>1 DEF NewDevices, Device
  <2>3. QED BY <1>1, <2>2 DEF Kept, Owns, Dying
<1>2. CASE x # NoObject
  <2>1. x \in Device
    BY <1>2
  <2>2. ~x.deleting
    BY <1>2 DEF Edited
  <2>3. \/ \E spec \in Specs : y = [x EXCEPT !.spec = spec]
        \/ x.finalizer /\ y = [x EXCEPT !.deleting = TRUE]
        \/ ~x.finalizer /\ y = NoObject
    BY <1>2, <2>2 DEF Edited
  <2>4. CASE \E spec \in Specs : y = [x EXCEPT !.spec = spec]
    <3>1. PICK spec \in Specs : y = [x EXCEPT !.spec = spec]
      BY <2>4
    <3>2. y \in Device
      BY <2>1, <3>1, DeviceWith
    <3>3. y.finalizer = x.finalizer /\ ~y.deleting
      BY <2>1, <2>2, <3>1 DEF Device
    <3>4. y # NoObject
      BY <3>2, Sentinels
    <3>5. Kept(x) <=> Kept(y)
      BY <1>2, <3>3, <3>4 DEF Kept
    <3>6. ASSUME NEW n, Owns(x, n) PROVE n \in LeftBy(x, y) \/ Owns(y, n)
      <4>1. x.spec.ours /\ x.spec.name = n /\ Kept(y)
        BY <3>5, <3>6 DEF Owns
      <4>2. n \in Names
        BY <2>1, <4>1, SpecTyped
      <4>3. QED BY <1>2, <3>4, <4>1, <4>2 DEF LeftBy, Owns
    <3>7. QED BY <1>2, <2>2, <3>2, <3>3, <3>5, <3>6 DEF Dying
  <2>5. CASE x.finalizer /\ y = [x EXCEPT !.deleting = TRUE]
    <3>1. y \in Device
      BY <2>1, <2>5, DeviceWith
    <3>2. y.finalizer /\ y.spec = x.spec
      BY <2>1, <2>5 DEF Device
    <3>3. y # NoObject
      BY <3>1, Sentinels
    <3>4. QED BY <1>2, <2>2, <2>5, <3>1, <3>2, <3>3 DEF Kept, Owns, Dying
  <2>6. CASE ~x.finalizer /\ y = NoObject
    BY <1>2, <2>2, <2>6 DEF Kept, Owns, Dying
  <2>7. QED BY <2>3, <2>4, <2>5, <2>6
<1>3. QED BY <1>1, <1>2

\* Who is at a step of a goroutine is one.
LEMMA SubTyped ==
  ASSUME EquipmentTypes, NEW g \in Subs, subs[g].pc # "none" \/ subs[g] # IdleSub
  PROVE  subs[g] \in Sub /\ subs[g] # IdleSub
<1>1. subs[g] \in Sub \cup {IdleSub}
  BY DEF EquipmentTypes
<1>2. IdleSub.pc = "none"
  BY DEF IdleSub
<1>3. QED BY <1>1, <1>2 DEF Sub, SubPcs, IdleSub

LEMMA InstanceTyped ==
  ASSUME EquipmentTypes, NEW i \in Instances
  PROVE  /\ instances[i] \in Instance
         /\ instances[i].config \in DriverConfigs \cup {NoObject}
         /\ instances[i].entries \in [Names -> Entry \cup {NoEntry}]
         /\ \A n \in Names : instances[i].entries[n] \in Entry \cup {NoEntry}
BY DEF EquipmentTypes, Instance

-----------------------------------------------------------------------------
LEMMA InitIInv == Init => IInv
<1> SUFFICES ASSUME Init PROVE IInv
  OBVIOUS
<1>1. TypeOK
  <2>1. ObjectTypes
    BY DEF Init, ObjectTypes
  <2>2. EquipmentTypes
    BY DEF Init, EquipmentTypes, NoInstances, EmptyInstance, Instance, Idle
  <2>3. DrvTypes /\ DevTypes
    BY DEF Init, DrvTypes, DevTypes
  <2>4. BoundTypes
    <3>1. edits = 0 /\ failures = 0 /\ crashes = 0 /\ races = 0
      BY DEF Init
    <3>2. /\ edits \in 0..MaxEdits /\ failures \in 0..MaxFaults
          /\ crashes \in 0..MaxFaults /\ races \in 0..MaxFaults
      BY <3>1, BoundsAssumption
    <3>3. QED BY <3>2 DEF Init, BoundTypes
  <2>5. QED BY <2>1, <2>2, <2>3, <2>4, TypesAreTypeOK DEF Types
<1>2. \A i \in Instances : instances[i] = EmptyInstance
  BY DEF Init, NoInstances
<1>3. \A i \in Instances : ~Used(i)
  BY <1>2 DEF Used, EmptyInstance
<1>4. \A i \in Instances, n \in Names : instances[i].entries[n] = NoEntry
  <2>1. \A i \in Instances : instances[i].entries = [n \in Names |-> NoEntry]
    BY <1>2 DEF EmptyInstance
  <2>2. QED BY <2>1
<1>5. \A g \in Subs : subs[g] = IdleSub
  BY DEF Init, Idle
<1>6. WorkInv
  BY <1>5 DEF Init, WorkInv
<1>7. UsedInv
  <2>1. Lag = 0
    <3>1. Current = NoObject /\ Config(driverSeen) = NoObject
          /\ Config(driver) = NoObject
      BY DEF Init, Current, Config
    <3>2. Asked = NoObject
      BY <3>1 DEF Init, Asked
    <3>3. QED BY <3>1, <3>2 DEF Lag, Differ
  <2>2. \A i \in Instances : Used(i) <=> i <= 0
    BY <1>3, BoundsAssumption DEF Instances
  <2>3. edits = 0 /\ driver = NoObject
    BY DEF Init
  <2>4. QED BY <2>1, <2>2, <2>3 DEF UsedInv
<1>8. RefInv
  BY <1>4, <1>5 DEF RefInv, Reaches, Holds, IdleSub
<1>9. LifeInv
  BY DEF Init, LifeInv, Fits, Held, Kept, Dying
<1>10. SubInv
  BY <1>5 DEF SubInv, Live
<1>11. EntryInv
  BY <1>4 DEF Init, EntryInv
<1>12. QED BY <1>1, <1>6, <1>7, <1>8, <1>9, <1>10, <1>11 DEF IInv

-----------------------------------------------------------------------------
(***************************************************************************)
(* What cancelling and ending goroutines does.                             *)
(***************************************************************************)
LEMMA CancelledFacts ==
  ASSUME EquipmentTypes, NEW entries, entries \subseteq Entry \cup {NoEntry},
         \A e \in entries : Reaches(e)
  PROVE  /\ Cancelled(entries) \in [Subs -> Sub \cup {IdleSub}]
         /\ \A g \in Subs :
              /\ Cancelled(entries)[g] = IdleSub <=> subs[g] = IdleSub
              /\ Cancelled(entries)[g].pc = subs[g].pc
              /\ Cancelled(entries)[g].instance = subs[g].instance
              /\ Cancelled(entries)[g].config = subs[g].config
              /\ Cancelled(entries)[g].held = subs[g].held
              /\ Cancelled(entries)[g] # IdleSub
                   /\ ~Cancelled(entries)[g].cancelled =>
                   /\ ~subs[g].cancelled
                   /\ \A e \in entries : e # NoEntry => e.sub # g
<1> DEFINE C == Cancelled(entries)
<1>1. \A g \in Subs : C[g] = IF \E e \in entries : e # NoEntry /\ e.sub = g
                             THEN [subs[g] EXCEPT !.cancelled = TRUE]
                             ELSE subs[g]
  BY DEF Cancelled
<1>2. C = [g \in Subs |-> C[g]]
  BY DEF Cancelled
<1>3. ASSUME NEW g \in Subs
      PROVE  /\ C[g] \in Sub \cup {IdleSub}
             /\ C[g] = IdleSub <=> subs[g] = IdleSub
             /\ C[g].pc = subs[g].pc
             /\ C[g].instance = subs[g].instance
             /\ C[g].config = subs[g].config
             /\ C[g].held = subs[g].held
             /\ C[g] # IdleSub /\ ~C[g].cancelled =>
                  /\ ~subs[g].cancelled
                  /\ \A e \in entries : e # NoEntry => e.sub # g
  <2>1. CASE \E e \in entries : e # NoEntry /\ e.sub = g
    <3>1. PICK e \in entries : e # NoEntry /\ e.sub = g
      BY <2>1
    <3>2. subs[g] # IdleSub
      BY <3>1, Sentinels DEF Reaches
    <3>3. subs[g] \in Sub
      BY <3>2, SubTyped
    <3>4. C[g] = [subs[g] EXCEPT !.cancelled = TRUE]
      BY <1>1, <2>1
    <3>5. C[g] \in Sub /\ C[g].cancelled /\ C[g].pc = subs[g].pc
          /\ C[g].instance = subs[g].instance /\ C[g].config = subs[g].config
          /\ C[g].held = subs[g].held
      BY <3>3, <3>4 DEF Sub
    <3>6. C[g] # IdleSub
      BY <3>5 DEF Sub, SubPcs, IdleSub
    <3>7. QED BY <3>2, <3>5, <3>6
  <2>2. CASE ~\E e \in entries : e # NoEntry /\ e.sub = g
    BY <1>1, <2>2 DEF EquipmentTypes
  <2>3. QED BY <2>1, <2>2
<1>4. QED BY <1>2, <1>3

LEMMA EndedFacts ==
  ASSUME NEW e \in Entry \cup {NoEntry}, NEW g \in Subs
  PROVE  /\ Ended(e, g) \in Entry \cup {NoEntry}
         /\ Ended(e, g) = NoEntry <=> e = NoEntry
         /\ e # NoEntry =>
              Ended(e, g).sub = IF e.sub = g THEN NoSub ELSE e.sub
<1>1. CASE e = NoEntry
  BY <1>1 DEF Ended
<1>2. CASE e # NoEntry
  <2>1. e \in Entry
    BY <1>2
  <2>2. /\ Ended(e, g) \in Entry
        /\ Ended(e, g).sub = IF e.sub = g THEN NoSub ELSE e.sub
    BY <1>2, <2>1 DEF Ended, Entry
  <2>3. QED BY <1>2, <2>2, Sentinels
<1>3. QED BY <1>1, <1>2

LEMMA DoneFacts ==
  ASSUME EquipmentTypes, NEW g \in Subs, SubDone(g)
  PROVE  /\ subs' \in [Subs -> Sub \cup {IdleSub}]
         /\ instances' \in [Instances -> Instance]
         /\ subs'[g] = IdleSub
         /\ \A h \in Subs : h # g =>
              /\ subs'[h] = IdleSub <=> subs[h] = IdleSub
              /\ subs'[h].pc = subs[h].pc
              /\ subs'[h].instance = subs[h].instance
              /\ subs'[h].config = subs[h].config
              /\ subs'[h].cancelled = subs[h].cancelled
              /\ subs'[h].held = Ended(subs[h].held, g)
         /\ \A i \in Instances :
              /\ instances'[i].config = instances[i].config
              /\ \A n \in Names :
                   instances'[i].entries[n] = Ended(instances[i].entries[n], g)
<1>1. ASSUME NEW h \in Subs, h # g
      PROVE  /\ subs'[h] \in Sub \cup {IdleSub}
             /\ subs'[h] = IdleSub <=> subs[h] = IdleSub
             /\ subs'[h].pc = subs[h].pc
             /\ subs'[h].instance = subs[h].instance
             /\ subs'[h].config = subs[h].config
             /\ subs'[h].cancelled = subs[h].cancelled
             /\ subs'[h].held = Ended(subs[h].held, g)
  <2>1. subs'[h] = [subs[h] EXCEPT !.held = Ended(subs[h].held, g)]
    BY <1>1 DEF SubDone
  <2>2. CASE subs[h] = IdleSub
    <3>1. subs[h].held = NoEntry
      BY <2>2 DEF IdleSub
    <3>2. subs'[h] = [IdleSub EXCEPT !.held = NoEntry]
      BY <2>1, <2>2, <3>1 DEF Ended
    <3>3. subs'[h] = IdleSub
      BY <3>2 DEF IdleSub
    <3>4. Ended(subs[h].held, g) = NoEntry
      BY <3>1 DEF Ended
    <3>5. QED BY <2>2, <3>1, <3>3, <3>4
  <2>3. CASE subs[h] # IdleSub
    <3>1. subs[h] \in Sub
      BY <2>3, SubTyped
    <3>2. subs[h].held \in Entry \cup {NoEntry}
      BY <3>1 DEF Sub
    <3>3. Ended(subs[h].held, g) \in Entry \cup {NoEntry}
      BY <3>2, EndedFacts
    <3>4. /\ subs'[h] \in Sub
          /\ subs'[h].pc = subs[h].pc
          /\ subs'[h].instance = subs[h].instance
          /\ subs'[h].config = subs[h].config
          /\ subs'[h].cancelled = subs[h].cancelled
          /\ subs'[h].held = Ended(subs[h].held, g)
      BY <2>1, <3>1, <3>3 DEF Sub
    <3>5. subs'[h] # IdleSub
      BY <3>4 DEF Sub, SubPcs, IdleSub
    <3>6. QED BY <2>3, <3>4, <3>5
  <2>4. QED BY <2>2, <2>3
<1>2. subs'[g] = IdleSub
  BY DEF SubDone
<1>3. subs' = [h \in Subs |-> subs'[h]]
  BY DEF SubDone
<1>4. ASSUME NEW i \in Instances
      PROVE  /\ instances'[i] \in Instance
             /\ instances'[i].config = instances[i].config
             /\ \A n \in Names :
                  instances'[i].entries[n] = Ended(instances[i].entries[n], g)
  <2>1. instances'[i] = [instances[i] EXCEPT !.entries =
                           [n \in Names |-> Ended(instances[i].entries[n], g)]]
    BY DEF SubDone
  <2>2. \A n \in Names : Ended(instances[i].entries[n], g) \in Entry \cup {NoEntry}
    BY InstanceTyped, EndedFacts
  <2>3. instances[i] \in Instance
    BY InstanceTyped
  <2>4. QED BY <2>1, <2>2, <2>3 DEF Instance
<1>5. instances' = [i \in Instances |-> instances'[i]]
  BY DEF SubDone
<1>6. QED BY <1>1, <1>2, <1>3, <1>4, <1>5

LEMMA PutFacts ==
  ASSUME EquipmentTypes, NEW i \in Instances, NEW n \in Names,
         NEW e \in Entry \cup {NoEntry}, PutEntry(i, n, e)
  PROVE  /\ instances' \in [Instances -> Instance]
         /\ \A j \in Instances : instances'[j].config = instances[j].config
         /\ \A j \in Instances, b \in Names :
              instances'[j].entries[b] =
                IF j = i /\ b = n THEN e ELSE instances[j].entries[b]
<1>1. instances \in [Instances -> Instance]
  BY DEF EquipmentTypes
<1>2. QED BY <1>1 DEF PutEntry, Instance

-----------------------------------------------------------------------------
(***************************************************************************)
(* What the parts of the invariant do not speak of.                        *)
(***************************************************************************)
LEMMA FailureTyped ==
  ASSUME Types, Failure PROVE failures' \in 0..MaxFaults
<1>1. /\ failures \in Nat /\ crashes \in Nat /\ races \in Nat /\ MaxFaults \in Nat
      /\ failures + crashes + races < MaxFaults /\ failures' = failures + 1
  BY BoundsAssumption DEF Types, BoundTypes, Failure
<1>2. QED BY <1>1

LEMMA BoundsKept ==
  ASSUME Types, UNCHANGED <<kind, edits, crashes, races>>,
         failures' \in 0..MaxFaults
  PROVE  BoundTypes'
BY DEF Types, BoundTypes

LEMMA BoundsFrame ==
  ASSUME Types, UNCHANGED <<kind, bounds>> PROVE BoundTypes'
<1>1. UNCHANGED <<kind, edits, failures, crashes, races>>
  BY DEF bounds
<1>2. QED BY <1>1 DEF Types, BoundTypes

LEMMA DevTypesFrame ==
  ASSUME Types, UNCHANGED devVars PROVE DevTypes'
<1>1. UNCHANGED <<devPc, devKey, devSnap, devInstance>>
  BY DEF devVars
<1>2. DevTypes
  BY DEF Types
<1>3. QED BY <1>1, <1>2 DEF DevTypes

LEMMA DifferFacts ==
  /\ \A a, b : Differ(a, b) \in {0, 1} /\ (Differ(a, b) = 0 <=> a = b)
  /\ \A a, b, c : Differ(a, c) <= Differ(a, b) + Differ(b, c)
BY DEF Differ

\* No instance is made.
SameMakes == \A i \in Instances : instances'[i].config = instances[i].config

LEMMA CurrentFrame ==
  ASSUME Types, SameMakes, installed' = installed
  PROVE  Current' = Current
BY DEF Types, EquipmentTypes, SameMakes, Current

LEMMA EditsTyped == ASSUME Types PROVE edits \in Nat /\ edits <= MaxEdits
BY BoundsAssumption DEF Types, BoundTypes

\* As the driver controller has not done more, and as no fewer edits are left.
LEMMA UsedFrame ==
  ASSUME UsedInv, SameMakes, edits \in Nat, edits' \in Nat,
         Lag \in Nat, Lag' \in Nat, edits + Lag' <= edits' + Lag,
         driver' # NoObject => edits' # 0
  PROVE  UsedInv'
<1>1. PICK n \in Nat : /\ \A i \in Instances : Used(i) <=> i <= n
                       /\ n + Lag <= edits
  BY DEF UsedInv
<1>2. \A i \in Instances : Used(i)' <=> i <= n
  BY <1>1 DEF SameMakes, Used
<1>3. n + Lag <= edits
  BY <1>1
<1>4. n + Lag' <= edits'
  <2>1. ASSUME NEW l \in Nat, NEW m \in Nat, NEW e \in Nat, NEW f \in Nat,
               n + l <= e, e + m <= f + l
        PROVE  n + m <= f
    BY <2>1
  <2>2. QED BY <1>3, <2>1
<1>5. QED BY <1>2, <1>4 DEF UsedInv

LEMMA LagTyped == Lag \in 0..3 /\ Lag' \in 0..3
<1>1. ASSUME NEW a \in {0, 1}, NEW b \in {0, 1}, NEW c \in {0, 1}
      PROVE  a + b + c \in 0..3
  OBVIOUS
<1>2. \A x, y, z, u : Differ(x, y) + Differ(y, z) + Differ(z, u) \in 0..3
  BY <1>1, DifferFacts
<1>3. QED BY <1>2 DEF Lag

\* A sync of the driver that is over asks for no more than what is installed.
LEMMA LagAtFinish ==
  ASSUME Types, SameMakes, UNCHANGED <<installed, driverSeen>>,
         drvPc' = "idle", Config(driver)' = Config(driver)
  PROVE  Lag' <= Lag
<1> DEFINE S == Config(driverSeen)
           D == Differ(S, Config(driver))
<1>1. Current' = Current
  BY CurrentFrame
<1>2. Asked' = Current
  BY <1>1 DEF Asked
<1>3. S' = S
  BY DEF Config
<1>4. Lag' = Differ(Current, Current) + Differ(Current, S) + D
  BY <1>1, <1>2, <1>3 DEF Lag
<1>5. Lag = Differ(Current, Asked) + Differ(Asked, S) + D
  BY DEF Lag
<1>6. Differ(Current, Current) = 0 /\ D \in {0, 1}
  BY DifferFacts
<1>7. /\ Differ(Current, S) <= Differ(Current, Asked) + Differ(Asked, S)
      /\ Differ(Current, S) \in {0, 1} /\ Differ(Current, Asked) \in {0, 1}
      /\ Differ(Asked, S) \in {0, 1}
  BY DifferFacts
<1> HIDE DEF S, D
<1>8. QED BY <1>4, <1>5, <1>6, <1>7

LEMMA LagFrame ==
  ASSUME Types, SameMakes, UNCHANGED <<installed, drvPc, drvSnap, driverSeen>>,
         Config(driver)' = Config(driver)
  PROVE  Lag' = Lag
<1>1. Current' = Current
  BY CurrentFrame
<1>2. Asked' = Asked /\ Config(driverSeen)' = Config(driverSeen)
  BY <1>1 DEF Asked, Config
<1>3. QED BY <1>1, <1>2 DEF Lag

LEMMA UsedKept ==
  ASSUME Types, UsedInv, SameMakes,
         UNCHANGED <<installed, driver, drvPc, drvSnap, driverSeen, edits>>
  PROVE  UsedInv'
<1>1. Config(driver)' = Config(driver)
  BY DEF Config
<1>2. Lag' = Lag
  BY <1>1, LagFrame
<1>3. driver' # NoObject => edits' # 0
  BY DEF UsedInv
<1>4. edits \in Nat
  BY EditsTyped
<1>5. Lag \in Nat
  BY LagTyped
<1>6. QED BY <1>2, <1>3, <1>4, <1>5, UsedFrame

LEMMA LifeFrame ==
  ASSUME LifeInv,
         UNCHANGED <<devices, deviceSeen, left, devPc, devKey, devSnap>>
  PROVE  LifeInv'
BY DEF LifeInv, Fits, Claims, Same, Owns, Held, Dying, Kept

LEMMA RefFrame ==
  ASSUME RefInv, UNCHANGED <<instances, subs>>
  PROVE  RefInv' /\ (SubInv => SubInv')
BY DEF RefInv, Reaches, Holds, SubInv, Live

\* An entry goes on to reach what it reached, as long as that runs.
LEMMA ReachesFrame ==
  ASSUME NEW e \in Entry \cup {NoEntry}, Reaches(e),
         \A g \in Subs : subs'[g] = IdleSub => subs[g] = IdleSub
  PROVE  Reaches(e)'
BY DEF Reaches, Entry

LEMMA HeldTyped ==
  ASSUME EquipmentTypes, NEW g \in Subs
  PROVE  subs[g].held \in Entry \cup {NoEntry}
<1>1. CASE subs[g] = IdleSub
  BY <1>1 DEF IdleSub
<1>2. CASE subs[g] # IdleSub
  BY <1>2, SubTyped DEF Sub
<1>3. QED BY <1>1, <1>2

\* The goroutines that run go on running.
LEMMA RefKept ==
  ASSUME Types, RefInv, UNCHANGED instances,
         \A g \in Subs : /\ subs'[g] = IdleSub => subs[g] = IdleSub
                         /\ subs'[g].held = subs[g].held
                         /\ subs'[g].pc = subs[g].pc
  PROVE  RefInv'
<1>1. ASSUME NEW i \in Instances, NEW n \in Names
      PROVE  Reaches(instances[i].entries[n])'
  <2>1. PICK e \in Entry \cup {NoEntry} : e = instances[i].entries[n]
    BY InstanceTyped DEF Types
  <2>2. Reaches(e)'
    BY <2>1, ReachesFrame DEF RefInv
  <2>3. QED BY <2>1, <2>2 DEF Reaches
<1>2. ASSUME NEW g \in Subs PROVE Reaches(subs[g].held)' /\ Holds(subs[g])'
  <2>1. PICK e \in Entry \cup {NoEntry} : e = subs[g].held
    BY HeldTyped DEF Types
  <2>2. Reaches(e)'
    BY <2>1, ReachesFrame DEF RefInv
  <2>3. Holds(subs[g])'
    BY DEF RefInv, Holds
  <2>4. QED BY <2>1, <2>2, <2>3 DEF Reaches
<1>3. QED BY <1>1, <1>2 DEF RefInv

LEMMA EntryFrame ==
  ASSUME EntryInv,
         UNCHANGED <<kind, installed, instances, devPc, devSnap, devInstance>>,
         \A n \in Names : Owned(n) => Owned(n)'
  PROVE  EntryInv'
BY DEF EntryInv, Used

LEMMA OwnedFrame ==
  ASSUME UNCHANGED <<devices, left>> PROVE \A n \in Names : Owned(n) => Owned(n)'
BY DEF Owned, Owns, Kept

\* Neither the equipment nor the Devices and their worker have changed.
LEMMA DriverSideIInv ==
  ASSUME IInv, UNCHANGED <<kind, devices, deviceSeen, left, equipment, devVars>>,
         Types', WorkInv', UsedInv'
  PROVE  IInv'
<1>1. TypeOK'
  BY TypesAreTypeOK, PTL
<1>2. LifeInv'
  BY LifeFrame DEF IInv, devVars
<1>3. RefInv' /\ (SubInv => SubInv')
  BY RefFrame DEF IInv, equipment
<1>4. EntryInv => EntryInv'
  <2> SUFFICES ASSUME EntryInv PROVE EntryInv'
    OBVIOUS
  <2>1. \A n \in Names : Owned(n) => Owned(n)'
    BY OwnedFrame
  <2>2. QED BY <2>1, EntryFrame DEF equipment, devVars
<1>5. raced' = raced
  BY DEF equipment
<1>6. QED BY <1>1, <1>2, <1>3, <1>4, <1>5 DEF IInv

\* Neither the equipment nor the Driver and its worker have changed.
LEMMA DeviceSideIInv ==
  ASSUME IInv, UNCHANGED <<kind, driver, driverSeen, equipment, drvVars, edits>>,
         Types', LifeInv', EntryInv => EntryInv',
         devPc' # "idle" =>
           devSnap' # NoObject /\ (devSnap'.spec.ours => Used(devInstance'))
  PROVE  IInv'
<1>0. Types
  BY TypesAreTypeOK DEF IInv
<1>1. TypeOK'
  BY TypesAreTypeOK, PTL
<1>2. RefInv' /\ (SubInv => SubInv')
  BY RefFrame DEF IInv, equipment
<1>3. SameMakes
  BY DEF SameMakes, equipment
<1>4. UsedInv'
  BY <1>0, <1>3, UsedKept DEF IInv, equipment, drvVars
<1>5. WorkInv'
  BY DEF IInv, WorkInv, equipment, drvVars, Used
<1>6. raced' = raced
  BY DEF equipment
<1>7. QED BY <1>1, <1>2, <1>4, <1>5, <1>6 DEF IInv

-----------------------------------------------------------------------------
(***************************************************************************)
(* Users, the informers, and restarts.                                     *)
(***************************************************************************)
LEMMA EditTyped == ASSUME Types, Edit
                   PROVE  edits \in Nat /\ edits' = edits + 1 /\ edits' \in 0..MaxEdits
BY BoundsAssumption DEF Types, BoundTypes, Edit

LEMMA EditDriverIInv == ASSUME IInv, EditDriver PROVE IInv'
<1>1. Types
  BY TypesAreTypeOK DEF IInv
<1>2. edits \in Nat /\ edits' = edits + 1 /\ edits' \in 0..MaxEdits
  BY <1>1, EditTyped DEF EditDriver
<1>3. UNCHANGED <<kind, devices, caches, equipment, drvVars, devVars, failures,
                  crashes, races>>
  BY DEF EditDriver
<1>4. Types'
  <2>1. driver' \in Driver \cup {NoObject}
    BY <1>1, EditedDriver DEF EditDriver, Types, ObjectTypes
  <2>2. ObjectTypes'
    BY <1>1, <1>3, <2>1 DEF Types, ObjectTypes, caches
  <2>3. EquipmentTypes' /\ DrvTypes' /\ DevTypes'
    BY <1>1, <1>3, DevTypesFrame DEF Types, EquipmentTypes, DrvTypes, equipment,
                                     drvVars
  <2>4. BoundTypes'
    BY <1>1, <1>2, <1>3 DEF Types, BoundTypes
  <2>5. QED BY <2>2, <2>3, <2>4 DEF Types
<1>5. SameMakes
  BY <1>3 DEF SameMakes, equipment
<1>6. UsedInv'
  <2>1. Current' = Current
    BY <1>1, <1>3, <1>5, CurrentFrame DEF equipment
  <2>2. Asked' = Asked /\ Config(driverSeen)' = Config(driverSeen)
    BY <1>3, <2>1 DEF Asked, Config, drvVars, caches
  <2>3. Lag' = Differ(Current, Asked) + Differ(Asked, Config(driverSeen))
                 + Differ(Config(driverSeen), Config(driver'))
    BY <2>1, <2>2 DEF Lag, Config
  <2>4. Lag' <= Lag + 1
    <3>1. ASSUME NEW a \in {0, 1}, NEW b \in {0, 1}, NEW c \in {0, 1},
                 NEW d \in {0, 1}
          PROVE  a + b + d <= a + b + c + 1
      OBVIOUS
    <3>2. Lag = Differ(Current, Asked) + Differ(Asked, Config(driverSeen))
                  + Differ(Config(driverSeen), Config(driver))
      BY DEF Lag
    <3>3. QED BY <2>3, <3>1, <3>2, DifferFacts
  <2>5. Lag \in Nat /\ Lag' \in Nat
    BY LagTyped
  <2>6. edits + Lag' <= edits' + Lag /\ edits' # 0 /\ edits' \in Nat
    <3>1. ASSUME NEW l \in Nat, NEW m \in Nat, NEW e \in Nat, m <= l + 1
          PROVE  e + m <= (e + 1) + l /\ e + 1 # 0 /\ e + 1 \in Nat
      BY <3>1
    <3>2. QED BY <1>2, <2>4, <2>5, <3>1
  <2>7. QED BY <1>2, <1>5, <2>5, <2>6, UsedFrame DEF IInv
<1>7. WorkInv'
  BY <1>3 DEF IInv, WorkInv, Used, equipment, drvVars, devVars
<1>8. QED BY <1>3, <1>4, <1>6, <1>7, DriverSideIInv DEF caches

LEMMA ObserveDriverIInv == ASSUME IInv, ObserveDriver PROVE IInv'
<1>1. Types
  BY TypesAreTypeOK DEF IInv
<1>2. /\ driverSeen' = driver
      /\ UNCHANGED <<kind, objects, deviceSeen, left, equipment, drvVars,
                     devVars, bounds>>
  BY DEF ObserveDriver
<1>3. Types'
  <2>1. ObjectTypes'
    BY <1>1, <1>2 DEF Types, ObjectTypes, objects
  <2>2. EquipmentTypes' /\ DrvTypes' /\ DevTypes'
    BY <1>1, <1>2, DevTypesFrame DEF Types, EquipmentTypes, DrvTypes, equipment,
                                     drvVars
  <2>3. BoundTypes'
    BY <1>1, <1>2, BoundsFrame
  <2>4. QED BY <2>1, <2>2, <2>3 DEF Types
<1>4. SameMakes
  BY <1>2 DEF SameMakes, equipment
<1>5. UsedInv'
  <2>1. Current' = Current
    BY <1>1, <1>2, <1>4, CurrentFrame DEF equipment
  <2>2. Asked' = Asked /\ Config(driver)' = Config(driver)
        /\ Config(driverSeen)' = Config(driver)
    BY <1>2, <2>1 DEF Asked, Config, drvVars, objects
  <2>3. Lag' = Differ(Current, Asked) + Differ(Asked, Config(driver))
                 + Differ(Config(driver), Config(driver))
    BY <2>1, <2>2 DEF Lag
  <2>4. Lag' <= Lag
    <3>1. ASSUME NEW a \in {0, 1}, NEW b \in {0, 1}, NEW c \in {0, 1},
                 NEW d \in {0, 1}, d <= b + c
          PROVE  a + d + 0 <= a + b + c
      BY <3>1
    <3>2. Lag = Differ(Current, Asked) + Differ(Asked, Config(driverSeen))
                  + Differ(Config(driverSeen), Config(driver))
      BY DEF Lag
    <3>3. /\ Differ(Config(driver), Config(driver)) = 0
          /\ Differ(Asked, Config(driver)) <=
               Differ(Asked, Config(driverSeen))
                 + Differ(Config(driverSeen), Config(driver))
      BY DifferFacts
    <3>4. QED BY <2>3, <3>1, <3>2, <3>3, DifferFacts
  <2>5. Lag \in Nat /\ Lag' \in Nat /\ edits \in Nat
    BY <1>1, LagTyped, EditsTyped
  <2>6. edits' = edits /\ driver' = driver
    BY <1>2 DEF bounds, objects
  <2>7. edits + Lag' <= edits' + Lag
    <3>1. ASSUME NEW l \in Nat, NEW m \in Nat, NEW e \in Nat, m <= l
          PROVE  e + m <= e + l
      BY <3>1
    <3>2. QED BY <2>4, <2>5, <2>6, <3>1
  <2>8. driver' # NoObject => edits' # 0
    BY <2>6 DEF IInv, UsedInv
  <2>9. QED BY <1>4, <2>5, <2>6, <2>7, <2>8, UsedFrame DEF IInv
<1>6. WorkInv'
  BY <1>2 DEF IInv, WorkInv, Used, equipment, drvVars, devVars
<1>7. QED BY <1>2, <1>3, <1>5, <1>6, DriverSideIInv DEF objects

\* As a Device goes from x to y, a copy of it goes on to fit.
LEMMA FitsAfterEdit ==
  ASSUME NEW seen, NEW x, NEW y, left \subseteq left', Fits(seen, x),
         ~Dying(x), Kept(x) <=> Kept(y),
         \A n : Owns(x, n) => n \in left' \/ Owns(y, n)
  PROVE  Fits(seen, y)'
<1>1. Held(seen) => Kept(y) /\ Claims(seen, y)'
  BY DEF Fits, Claims, Held, Kept, Owns
<1>2. Dying(seen) => ~Kept(y)
  BY DEF Fits, Held, Dying, Kept
<1>3. QED BY <1>1, <1>2 DEF Fits, Same, Held, Dying, Kept

LEMMA EditDeviceIInv ==
  ASSUME IInv, NEW d \in Devices, EditDevice(d) PROVE IInv'
<1>1. Types
  BY TypesAreTypeOK DEF IInv
<1>2. edits \in Nat /\ edits' = edits + 1 /\ edits' \in 0..MaxEdits
  BY <1>1, EditTyped DEF EditDevice
<1>3. UNCHANGED <<kind, driver, driverSeen, deviceSeen, equipment, drvVars,
                  devVars, failures, crashes, races>>
  BY DEF EditDevice
<1>4. PICK new \in Edited(devices[d], NewDevices,
                         {[devices[d] EXCEPT !.spec = spec] : spec \in Specs}) :
        /\ devices' = [devices EXCEPT ![d] = new]
        /\ left' = left \cup LeftBy(devices[d], new)
  BY DEF EditDevice
<1>5. PICK x \in Device \cup {NoObject} : x = devices[d]
  BY <1>1 DEF Types, ObjectTypes
<1>6. /\ new \in Device \cup {NoObject}
      /\ ~Dying(x)
      /\ new # NoObject /\ new.deleting => new.finalizer
      /\ Kept(x) <=> Kept(new)
      /\ \A n : Owns(x, n) => n \in LeftBy(x, new) \/ Owns(new, n)
  BY <1>4, <1>5, EditedDevice
<1>7. devices'[d] = new /\ \A b \in Devices : b # d => devices'[b] = devices[b]
  BY <1>1, <1>4 DEF Types, ObjectTypes
<1>8. Types'
  <2>1. LeftBy(devices[d], new) \subseteq Names
    BY DEF LeftBy
  <2>2. ObjectTypes'
    BY <1>1, <1>3, <1>4, <1>6, <2>1 DEF Types, ObjectTypes
  <2>3. EquipmentTypes' /\ DrvTypes' /\ DevTypes'
    BY <1>1, <1>3, DevTypesFrame DEF Types, EquipmentTypes, DrvTypes, equipment,
                                     drvVars
  <2>4. BoundTypes'
    BY <1>1, <1>2, <1>3 DEF Types, BoundTypes
  <2>5. QED BY <2>2, <2>3, <2>4 DEF Types
<1>9. /\ left \subseteq left'
      /\ \A n : Owns(x, n) => n \in left' \/ Owns(new, n)
  BY <1>4, <1>5, <1>6
<1>10. LifeInv'
  <2> SUFFICES ASSUME NEW b \in Devices
      PROVE  /\ devices'[b] # NoObject /\ devices'[b].deleting
                  => devices'[b].finalizer
             /\ deviceSeen[b] # NoObject /\ deviceSeen[b].deleting
                  => deviceSeen[b].finalizer
             /\ Fits(deviceSeen[b], devices[b])'
             /\ devKey = b /\ devPc = "finalizer" /\ Dying(deviceSeen[b])
                  => Dying(devices'[b])
             /\ devKey = b /\ devPc = "add"
                  => Kept(devices'[b]) /\ Claims(devSnap, devices[b])'
             /\ devKey = b /\ devPc \in {"remove", "release"}
                  => ~Held(devices'[b]) /\ ~Held(deviceSeen[b])
                       /\ Same(devices'[b], devSnap)
    BY <1>3 DEF LifeInv, Fits, Claims, Same, Owns, Held, Dying, Kept, devVars
  <2>1. CASE b = d
    <3>1. Fits(deviceSeen[d], x)
      BY <1>5 DEF IInv, LifeInv
    <3>2. Fits(deviceSeen[d], new)'
      BY <1>3, <1>6, <1>9, <3>1, FitsAfterEdit DEF Fits, Claims, Same
    <3>3. devKey = d /\ devPc = "add" => Kept(new) /\ Claims(devSnap, new)'
      <4>1. devKey = d /\ devPc = "add" => Kept(x) /\ Claims(devSnap, x)
        BY <1>5 DEF IInv, LifeInv
      <4>2. QED BY <1>3, <1>6, <1>9, <4>1 DEF Claims, devVars
    <3>4. devKey = d /\ devPc \in {"remove", "release"} => ~Kept(new)
      <4>1. devKey = d /\ devPc \in {"remove", "release"} => ~Held(x)
        BY <1>5 DEF IInv, LifeInv
      <4>2. QED BY <1>6, <4>1 DEF Held, Dying, Kept
    <3>5. ~(devKey = d /\ devPc = "finalizer" /\ Dying(deviceSeen[d]))
      BY <1>5, <1>6 DEF IInv, LifeInv
    <3>6. Kept(new) <=> Kept(devices'[d])
      BY <1>7
    <3>7. Fits(deviceSeen[d], devices[d])' /\ Claims(devSnap, new)' = Claims(devSnap, devices[d])'
      BY <1>3, <1>7, <3>2 DEF Fits, Claims, Same
    <3>8. /\ deviceSeen[d] # NoObject /\ deviceSeen[d].deleting
               => deviceSeen[d].finalizer
          /\ devKey = d /\ devPc \in {"remove", "release"} => ~Held(deviceSeen[d])
      BY DEF IInv, LifeInv
    <3>9. Same(new, devSnap) /\ ~Held(new) <=> Same(devices'[d], devSnap) /\ ~Held(devices'[d])
      BY <1>7
    <3>10. ~Kept(new) => Same(new, devSnap) /\ ~Held(new)
      BY DEF Same, Kept, Held
    <3>11. QED BY <1>6, <1>7, <2>1, <3>3, <3>4, <3>5, <3>6, <3>7, <3>8, <3>9, <3>10
  <2>2. CASE b # d
    <3>1. devices'[b] = devices[b]
      BY <1>7, <2>2
    <3>2. QED
      BY <1>3, <1>9, <3>1 DEF IInv, LifeInv, Fits, Claims, Same, Owns, Held,
                              Dying, Kept, devVars
  <2>3. QED BY <2>1, <2>2
<1>11. EntryInv => EntryInv'
  <2>1. ASSUME NEW n \in Names, Owned(n) PROVE Owned(n)'
    <3>1. CASE n \in left
      BY <1>9, <3>1 DEF Owned
    <3>2. CASE \E b \in Devices : Owns(devices[b], n)
      <4>1. PICK b \in Devices : Owns(devices[b], n)
        BY <3>2
      <4>2. CASE b = d
        <5>1. n \in left' \/ Owns(new, n)
          BY <1>5, <1>9, <4>1, <4>2
        <5>2. QED BY <1>7, <5>1 DEF Owned, Owns, Kept
      <4>3. CASE b # d
        BY <1>7, <4>1, <4>3 DEF Owned, Owns, Kept
      <4>4. QED BY <4>2, <4>3
    <3>3. QED BY <2>1, <3>1, <3>2 DEF Owned
  <2>2. QED BY <1>3, <2>1, EntryFrame DEF equipment, devVars
<1>12. SameMakes
  BY <1>3 DEF SameMakes, equipment
<1>13. UsedInv'
  <2>1. Config(driver)' = Config(driver)
    BY <1>3 DEF Config
  <2>2. Lag' = Lag
    BY <1>1, <1>3, <1>12, <2>1, LagFrame DEF drvVars, equipment
  <2>3. Lag \in Nat
    BY LagTyped
  <2>4. edits + Lag' <= edits' + Lag /\ edits' # 0 /\ edits' \in Nat
    BY <1>2, <2>2, <2>3
  <2>5. QED BY <1>2, <1>12, <2>2, <2>3, <2>4, UsedFrame DEF IInv
<1>14. WorkInv'
  BY <1>3 DEF IInv, WorkInv, Used, equipment, drvVars, devVars
<1>15. RefInv' /\ (SubInv => SubInv') /\ raced' = raced
  BY <1>3, RefFrame DEF IInv, equipment
<1>16. TypeOK'
  BY <1>8, TypesAreTypeOK, PTL
<1>17. QED BY <1>10, <1>11, <1>13, <1>14, <1>15, <1>16 DEF IInv

LEMMA ObserveDeviceIInv ==
  ASSUME IInv, NEW d \in Devices, ObserveDevice(d) PROVE IInv'
<1>1. Types
  BY TypesAreTypeOK DEF IInv
<1>2. /\ deviceSeen' = [deviceSeen EXCEPT ![d] = devices[d]]
      /\ UNCHANGED <<kind, objects, driverSeen, left, equipment, drvVars,
                     devVars, bounds>>
  BY DEF ObserveDevice
<1>3. Types'
  <2>1. ObjectTypes'
    BY <1>1, <1>2 DEF Types, ObjectTypes, objects
  <2>2. EquipmentTypes' /\ DrvTypes' /\ DevTypes'
    BY <1>1, <1>2, DevTypesFrame DEF Types, EquipmentTypes, DrvTypes, equipment,
                                     drvVars
  <2>3. BoundTypes'
    BY <1>1, <1>2, BoundsFrame
  <2>4. QED BY <2>1, <2>2, <2>3 DEF Types
<1>4. /\ deviceSeen'[d] = devices[d]
      /\ \A b \in Devices : b # d => deviceSeen'[b] = deviceSeen[b]
  BY <1>1, <1>2 DEF Types, ObjectTypes
<1>5. LifeInv'
  <2>1. UNCHANGED <<devices, left, devPc, devKey, devSnap>>
    BY <1>2 DEF objects, devVars
  <2>2. Fits(devices[d], devices[d])
    BY DEF Fits, Claims, Same, Owns, Held, Dying, Kept
  <2>3. LifeInv
    BY DEF IInv
  <2>4. QED BY <1>4, <2>1, <2>2, <2>3 DEF LifeInv, Fits, Claims, Same, Owns,
                                          Held, Dying, Kept
<1>6. EntryInv => EntryInv'
  BY <1>2, OwnedFrame, EntryFrame DEF equipment, devVars, objects
<1>7. devPc' # "idle" =>
        devSnap' # NoObject /\ (devSnap'.spec.ours => Used(devInstance'))
  BY <1>2 DEF IInv, WorkInv, devVars
<1>8. QED BY <1>2, <1>3, <1>5, <1>6, <1>7, DeviceSideIInv DEF objects, bounds

LEMMA RestartIInv ==
  ASSUME IInv, Restart, crashes' \in 0..MaxFaults PROVE IInv'
<1>1. Types
  BY TypesAreTypeOK DEF IInv
<1>2. \A i \in Instances : instances'[i] = EmptyInstance
  BY DEF Restart, NoInstances
<1>3. \A i \in Instances : ~Used(i)'
  BY <1>2 DEF Used, EmptyInstance
<1>4. \A i \in Instances, n \in Names : instances'[i].entries[n] = NoEntry
  <2>1. \A i \in Instances : instances'[i].entries = [n \in Names |-> NoEntry]
    BY <1>2 DEF EmptyInstance
  <2>2. QED BY <2>1
<1>5. \A g \in Subs : subs'[g] = IdleSub
  BY DEF Restart, Idle
<1>6. Types'
  <2>1. ObjectTypes'
    BY <1>1 DEF Types, ObjectTypes, Restart, objects
  <2>2. EquipmentTypes'
    BY <1>1 DEF Restart, Types, EquipmentTypes, NoInstances, EmptyInstance,
                Instance, Idle
  <2>3. DrvTypes' /\ DevTypes'
    BY DEF Restart, DrvTypes, DevTypes
  <2>4. BoundTypes'
    BY <1>1 DEF Restart, Types, BoundTypes
  <2>5. QED BY <2>1, <2>2, <2>3, <2>4 DEF Types
<1>7. WorkInv'
  BY <1>5 DEF Restart, WorkInv
<1>8. UsedInv'
  <2>1. driver' = driver /\ driverSeen' = driver /\ edits' = edits
    BY DEF Restart, objects
  <2>2. driver # NoObject => edits # 0
    BY DEF IInv, UsedInv
  <2>3. edits \in Nat
    BY <1>1, EditsTyped
  <2>4. Current' = NoObject /\ Asked' = NoObject
    BY DEF Restart, Current, Asked
  <2>5. Lag' = Differ(NoObject, NoObject) + Differ(NoObject, Config(driver))
                 + Differ(Config(driver), Config(driver))
    BY <2>1, <2>4 DEF Lag, Config
  <2>6. Lag' = Differ(NoObject, Config(driver))
    BY <2>5, DifferFacts
  <2>7. 0 + Lag' <= edits'
    <3>1. CASE driver = NoObject
      <4>1. Lag' = 0
        BY <2>6, <3>1, DifferFacts DEF Config
      <4>2. QED BY <2>1, <2>3, <4>1
    <3>2. CASE driver # NoObject
      <4>1. Lag' \in {0, 1}
        BY <2>6, DifferFacts
      <4>2. edits \in Nat /\ edits # 0
        BY <2>2, <2>3, <3>2
      <4>3. ASSUME NEW m \in {0, 1}, NEW e \in Nat, e # 0 PROVE 0 + m <= e
        BY <4>3
      <4>4. QED BY <2>1, <4>1, <4>2, <4>3
    <3>3. QED BY <3>1, <3>2
  <2>8. \A i \in Instances : Used(i)' <=> i <= 0
    BY <1>3, BoundsAssumption DEF Instances
  <2>9. QED BY <2>1, <2>2, <2>7, <2>8 DEF UsedInv
<1>9. RefInv'
  BY <1>4, <1>5 DEF RefInv, Reaches, Holds, IdleSub
<1>10. LifeInv'
  <2>1. /\ devices' = devices /\ deviceSeen' = devices /\ left' = {}
        /\ devPc' = "idle"
    BY DEF Restart, objects
  <2>2. \A d \in Devices : Fits(devices[d], devices[d])'
    BY <2>1 DEF Fits, Claims, Same, Owns, Held, Dying, Kept
  <2>3. QED BY <2>1, <2>2 DEF IInv, LifeInv, Fits, Claims, Same, Owns, Held,
                              Dying, Kept
<1>11. SubInv'
  BY <1>5 DEF SubInv, Live
<1>12. EntryInv'
  BY <1>4 DEF Restart, EntryInv
<1>13. TypeOK'
  BY <1>6, TypesAreTypeOK, PTL
<1>14. QED BY <1>7, <1>8, <1>9, <1>10, <1>11, <1>12, <1>13 DEF IInv

LEMMA PanicIInv == ASSUME IInv, Panic PROVE IInv'
<1>1. Types
  BY TypesAreTypeOK DEF IInv
<1>2. crashes' \in 0..MaxFaults
  BY <1>1 DEF Panic, Types, BoundTypes
<1>3. QED BY <1>2, RestartIInv DEF Panic

LEMMA CrashIInv == ASSUME IInv, Crash PROVE IInv'
<1>1. Types
  BY TypesAreTypeOK DEF IInv
<1>2. crashes' \in 0..MaxFaults
  <2>1. /\ failures \in Nat /\ crashes \in Nat /\ races \in Nat
        /\ failures + crashes + races < MaxFaults
        /\ crashes' = crashes + 1 /\ MaxFaults \in Nat
    BY <1>1, BoundsAssumption DEF Crash, Types, BoundTypes
  <2>2. QED BY <2>1
<1>3. QED BY <1>2, RestartIInv DEF Crash

-----------------------------------------------------------------------------
(***************************************************************************)
(* The driver controller.                                                  *)
(***************************************************************************)
LEMMA DrvBeginIInv == ASSUME IInv, DrvBegin PROVE IInv'
<1>1. Types
  BY TypesAreTypeOK DEF IInv
<1>2. /\ drvPc = "idle" /\ driverSeen # NoObject /\ drvSnap' = driverSeen
      /\ drvPc' = IF driverSeen.deleting THEN "uninstall"
                  ELSE IF driverSeen.finalizer THEN "install" ELSE "finalizer"
      /\ UNCHANGED <<kind, objects, caches, equipment, report, devVars, bounds>>
  BY DEF DrvBegin
<1>3. Types'
  <2>1. ObjectTypes'
    BY <1>1, <1>2 DEF Types, ObjectTypes, objects, caches
  <2>2. EquipmentTypes' /\ DevTypes'
    BY <1>1, <1>2 DEF Types, EquipmentTypes, DevTypes, equipment, devVars
  <2>3. DrvTypes'
    BY <1>1, <1>2 DEF Types, ObjectTypes, DrvTypes
  <2>4. BoundTypes'
    BY <1>1, <1>2, BoundsFrame
  <2>5. QED BY <2>1, <2>2, <2>3, <2>4 DEF Types
<1>4. WorkInv'
  BY <1>2 DEF IInv, WorkInv, Used, equipment, devVars
<1>5. SameMakes
  BY <1>2 DEF SameMakes, equipment
<1>6. UsedInv'
  <2>1. Current' = Current
    BY <1>1, <1>2, <1>5, CurrentFrame DEF equipment
  <2>2. Asked = Current /\ Asked' = Config(driverSeen)
    BY <1>2 DEF Asked
  <2>3. Config(driverSeen)' = Config(driverSeen) /\ Config(driver)' = Config(driver)
    BY <1>2 DEF Config, caches, objects
  <2>4. Lag' = Lag
    <3>1. ASSUME NEW b \in {0, 1}, NEW c \in {0, 1}
          PROVE  b + 0 + c = 0 + b + c
      OBVIOUS
    <3>2. Lag = Differ(Current, Current) + Differ(Current, Config(driverSeen))
                  + Differ(Config(driverSeen), Config(driver))
      BY <2>2 DEF Lag
    <3>3. Lag' = Differ(Current, Config(driverSeen))
                   + Differ(Config(driverSeen), Config(driverSeen))
                   + Differ(Config(driverSeen), Config(driver))
      BY <2>1, <2>2, <2>3 DEF Lag
    <3>4. /\ Differ(Current, Current) = 0
          /\ Differ(Config(driverSeen), Config(driverSeen)) = 0
      BY DifferFacts
    <3>5. QED BY <3>1, <3>2, <3>3, <3>4, DifferFacts
  <2>5. edits' = edits /\ edits \in Nat /\ Lag \in Nat
    BY <1>1, <1>2, EditsTyped, LagTyped DEF bounds
  <2>6. driver' # NoObject => edits' # 0
    BY <1>2 DEF IInv, UsedInv, objects, bounds
  <2>7. QED BY <1>5, <2>4, <2>5, <2>6, UsedFrame DEF IInv
<1>7. QED BY <1>2, <1>3, <1>4, <1>6, DriverSideIInv DEF objects, caches

\* A sync is over, at the latest with a write that leaves the Driver's config.
LEMMA DrvFinishIInv ==
  ASSUME IInv, DrvFinish,
         driver' \in Driver \cup {NoObject}, Config(driver)' = Config(driver),
         driver' # NoObject => driver # NoObject, failures' \in 0..MaxFaults,
         UNCHANGED <<kind, devices, caches, equipment, devVars, edits, crashes,
                     races>>
  PROVE  IInv'
<1>1. Types
  BY TypesAreTypeOK DEF IInv
<1>2. Types'
  <2>1. ObjectTypes'
    BY <1>1 DEF Types, ObjectTypes, caches
  <2>2. EquipmentTypes' /\ DevTypes'
    BY <1>1 DEF Types, EquipmentTypes, DevTypes, equipment, devVars
  <2>3. DrvTypes'
    BY DEF DrvFinish, DrvTypes
  <2>4. BoundTypes'
    BY <1>1, BoundsKept
  <2>5. QED BY <2>1, <2>2, <2>3, <2>4 DEF Types
<1>3. WorkInv'
  BY DEF IInv, WorkInv, Used, equipment, devVars, DrvFinish
<1>4. SameMakes
  BY DEF SameMakes, equipment
<1>5. UsedInv'
  <2>1. Lag' <= Lag
    BY <1>1, <1>4, LagAtFinish DEF caches, equipment, DrvFinish
  <2>2. edits \in Nat /\ Lag \in Nat /\ Lag' \in Nat
    BY <1>1, EditsTyped, LagTyped
  <2>3. edits + Lag' <= edits' + Lag
    <3>1. ASSUME NEW l \in Nat, NEW m \in Nat, NEW e \in Nat, m <= l
          PROVE  e + m <= e + l
      BY <3>1
    <3>2. QED BY <2>1, <2>2, <3>1
  <2>4. driver' # NoObject => edits' # 0
    BY DEF IInv, UsedInv
  <2>5. QED BY <1>4, <2>2, <2>3, <2>4, UsedFrame DEF IInv
<1>6. QED BY <1>2, <1>3, <1>5, DriverSideIInv DEF caches

LEMMA FailuresKept ==
  ASSUME Types, failures' = failures PROVE failures' \in 0..MaxFaults
BY DEF Types, BoundTypes

LEMMA DrvAddFinalizerIInv == ASSUME IInv, DrvAddFinalizer PROVE IInv'
<1>1. Types
  BY TypesAreTypeOK DEF IInv
<1>2. failures' \in 0..MaxFaults
  BY <1>1, FailureTyped, FailuresKept DEF DrvAddFinalizer
<1>3. /\ driver' \in Driver \cup {NoObject}
      /\ Config(driver)' = Config(driver)
      /\ driver' # NoObject => driver # NoObject
  <2>1. CASE driver # NoObject /\ driver' = [driver EXCEPT !.finalizer = TRUE]
    <3>1. driver \in Driver
      BY <1>1, <2>1 DEF Types, ObjectTypes
    <3>2. driver' \in Driver
      BY <2>1, <3>1, DriverWith
    <3>3. driver'.config = driver.config /\ driver'.deleting = driver.deleting
      BY <2>1, <3>1 DEF Driver
    <3>4. driver' # NoObject
      BY <3>2, Sentinels
    <3>5. QED BY <2>1, <3>2, <3>3, <3>4 DEF Config
  <2>2. CASE driver' = driver
    BY <1>1, <2>2 DEF Types, ObjectTypes, Config
  <2>3. QED BY <2>1, <2>2 DEF DrvAddFinalizer
<1>4. QED BY <1>2, <1>3, DrvFinishIInv DEF DrvAddFinalizer

LEMMA DrvStatusIInv == ASSUME IInv, DrvStatus PROVE IInv'
<1>1. Types
  BY TypesAreTypeOK DEF IInv
<1>2. failures' \in 0..MaxFaults
  BY <1>1, FailureTyped, FailuresKept DEF DrvStatus
<1>3. /\ driver' \in Driver \cup {NoObject}
      /\ Config(driver)' = Config(driver)
      /\ driver' # NoObject => driver # NoObject
  <2>1. CASE driver = drvSnap /\ driver' = [driver EXCEPT !.reported = report]
    <3>1. drvSnap # NoObject
      BY DEF DrvStatus, IInv, WorkInv
    <3>2. driver \in Driver
      BY <1>1, <2>1, <3>1 DEF Types, ObjectTypes
    <3>3. driver' \in Driver
      BY <1>1, <2>1, <3>2, DriverWith DEF Types, DrvTypes
    <3>4. driver'.config = driver.config /\ driver'.deleting = driver.deleting
      BY <2>1, <3>2 DEF Driver
    <3>5. driver' # NoObject
      BY <3>3, Sentinels
    <3>6. QED BY <2>1, <3>1, <3>3, <3>4, <3>5 DEF Config
  <2>2. CASE driver' = driver
    BY <1>1, <2>2 DEF Types, ObjectTypes, Config
  <2>3. QED BY <2>1, <2>2 DEF DrvStatus
<1>4. QED BY <1>2, <1>3, DrvFinishIInv DEF DrvStatus

LEMMA DrvRemoveFinalizerIInv == ASSUME IInv, DrvRemoveFinalizer PROVE IInv'
<1>1. Types
  BY TypesAreTypeOK DEF IInv
<1>2. failures' \in 0..MaxFaults
  BY <1>1, FailureTyped, FailuresKept DEF DrvRemoveFinalizer
<1>3. /\ driver' \in Driver \cup {NoObject}
      /\ Config(driver)' = Config(driver)
      /\ driver' # NoObject => driver # NoObject
  <2>1. CASE driver # NoObject /\ driver.deleting /\ driver' = NoObject
    BY <2>1 DEF Config
  <2>2. CASE driver # NoObject /\ ~driver.deleting
             /\ driver' = [driver EXCEPT !.finalizer = FALSE]
    <3>1. driver \in Driver
      BY <1>1, <2>2 DEF Types, ObjectTypes
    <3>2. driver' \in Driver
      BY <2>2, <3>1, DriverWith
    <3>3. driver'.config = driver.config /\ driver'.deleting = driver.deleting
      BY <2>2, <3>1 DEF Driver
    <3>4. driver' # NoObject
      BY <3>2, Sentinels
    <3>5. QED BY <2>2, <3>2, <3>3, <3>4 DEF Config
  <2>3. CASE driver' = driver
    BY <1>1, <2>3 DEF Types, ObjectTypes, Config
  <2>4. QED BY <2>1, <2>2, <2>3 DEF DrvRemoveFinalizer
<1>4. QED BY <1>2, <1>3, DrvFinishIInv DEF DrvRemoveFinalizer

\* Install and its report, when there is no new instance.
LEMMA DrvReportIInv ==
  ASSUME IInv, drvPc = "install", NEW outcome \in {"installed", "failed"},
         DrvReport(outcome), failures' \in 0..MaxFaults,
         UNCHANGED <<kind, objects, caches, equipment, devVars, edits, crashes,
                     races>>
  PROVE  IInv'
<1>1. Types
  BY TypesAreTypeOK DEF IInv
<1>2. drvPc' = "status" /\ drvSnap' = drvSnap /\ report' = outcome
  BY DEF DrvReport
<1>3. Types'
  <2>1. ObjectTypes'
    BY <1>1 DEF Types, ObjectTypes, objects, caches
  <2>2. EquipmentTypes' /\ DevTypes'
    BY <1>1 DEF Types, EquipmentTypes, DevTypes, equipment, devVars
  <2>3. DrvTypes'
    BY <1>1, <1>2 DEF Types, DrvTypes
  <2>4. BoundTypes'
    BY <1>1, BoundsKept
  <2>5. QED BY <2>1, <2>2, <2>3, <2>4 DEF Types
<1>4. WorkInv'
  BY <1>2 DEF IInv, WorkInv, Used, equipment, devVars
<1>5. SameMakes
  BY DEF SameMakes, equipment
<1>6. UsedInv'
  <2>1. Current' = Current
    BY <1>1, <1>5, CurrentFrame DEF equipment
  <2>2. Asked' = Asked
    BY <1>2 DEF Asked
  <2>3. Lag' = Lag
    BY <2>1, <2>2 DEF Lag, Config, caches, objects
  <2>4. edits \in Nat /\ Lag \in Nat /\ driver' = driver
    BY <1>1, EditsTyped, LagTyped DEF objects
  <2>5. driver' # NoObject => edits' # 0
    BY <2>4 DEF IInv, UsedInv
  <2>6. QED BY <1>5, <2>3, <2>4, <2>5, UsedFrame DEF IInv
<1>7. QED BY <1>3, <1>4, <1>6, DriverSideIInv DEF objects, caches

\* The used instances come first, and while a config waits to be installed
\* there is a place for one more.
LEMMA NextPlace ==
  ASSUME Types, NEW n \in Nat, n + 1 <= edits,
         \A i \in Instances : Used(i) <=> i <= n
  PROVE  n + 1 \in Instances /\ NextInstance = n + 1
<1>1. n + 1 \in Instances
  BY EditsTyped, BoundsAssumption DEF Instances
<1>2. \A i \in Instances : i \in Nat
  BY DEF Instances
<1>3. ~Used(n + 1)
  BY <1>1
<1>4. \A j \in Instances : ~Used(j) => n + 1 <= j
  BY <1>2
<1> DEFINE P(i) == ~Used(i) /\ \A j \in Instances : ~Used(j) => i <= j
<1>5. P(n + 1)
  BY <1>3, <1>4
<1>6. NextInstance = CHOOSE i \in Instances : P(i)
  BY DEF NextInstance, Used
<1>7. \A i \in Instances : P(i) => i = n + 1
  <2> SUFFICES ASSUME NEW i \in Instances, P(i) PROVE i = n + 1
    OBVIOUS
  <2>1. i <= n + 1 /\ n + 1 <= i
    BY <1>1, <1>3, <1>4
  <2>2. QED BY <1>2, <2>1
<1> HIDE DEF P
<1>8. QED BY <1>1, <1>5, <1>6, <1>7

LEMMA DrvMakeIInv ==
  ASSUME IInv, drvPc = "install", ~SameDriver(drvSnap.config),
         InstallInto(NextInstance, drvSnap.config), DrvReport("installed"),
         UNCHANGED <<kind, objects, caches, devVars, bounds>>
  PROVE  IInv'
<1> DEFINE config == drvSnap.config
<1>1. Types
  BY TypesAreTypeOK DEF IInv
<1>2. /\ drvSnap \in Driver /\ config \in DriverConfigs /\ config # NoObject
      /\ ~drvSnap.deleting /\ drvSnap # NoObject
  <2>1. drvSnap # NoObject /\ ~drvSnap.deleting
    BY DEF IInv, WorkInv
  <2>2. drvSnap \in Driver
    BY <1>1, <2>1 DEF Types, DrvTypes
  <2>3. config \in DriverConfigs
    BY <2>2 DEF Driver
  <2>4. QED BY <2>1, <2>2, <2>3, Sentinels
<1>3. drvPc' = "status" /\ drvSnap' = drvSnap /\ report' = "installed"
  BY DEF DrvReport
<1>4. PICK n \in Nat : (\A i \in Instances : Used(i) <=> i <= n) /\ n + Lag <= edits
  BY DEF IInv, UsedInv
<1>5. Asked = config /\ Asked' = config
  BY <1>2, <1>3 DEF Asked, Config
<1>6. Current # config
  BY <1>2 DEF Current, SameDriver
<1> DEFINE B == Differ(config, Config(driverSeen))
           D == Differ(Config(driverSeen), Config(driver))
<1>7. Lag = 1 + B + D /\ B \in {0, 1} /\ D \in {0, 1}
  <2>1. Differ(Current, config) = 1
    BY <1>6 DEF Differ
  <2>2. QED BY <1>5, <2>1, DifferFacts DEF Lag
<1>8. n + 1 <= edits /\ (n + 1) + (0 + B + D) <= edits
  <2>1. ASSUME NEW b \in {0, 1}, NEW d \in {0, 1}, NEW e \in Nat,
               n + (1 + b + d) <= e
        PROVE  n + 1 <= e /\ (n + 1) + (0 + b + d) <= e
    BY <2>1
  <2>2. edits \in Nat
    BY <1>1, EditsTyped
  <2>3. n + (1 + B + D) <= edits
    BY <1>4, <1>7
  <2> HIDE DEF B, D
  <2>4. QED BY <1>7, <2>1, <2>2, <2>3
<1>9. n + 1 \in Instances /\ NextInstance = n + 1
  BY <1>1, <1>4, <1>8, NextPlace
<1>10. /\ installed' = n + 1
       /\ instances' = [instances EXCEPT ![n + 1].config = config]
       /\ UNCHANGED <<subs, raced>>
  BY <1>9 DEF InstallInto
<1>11. /\ instances' \in [Instances -> Instance]
       /\ instances'[n + 1].config = config
       /\ \A i \in Instances : i # n + 1 => instances'[i].config = instances[i].config
       /\ \A i \in Instances : instances'[i].entries = instances[i].entries
  <2>1. instances \in [Instances -> Instance]
    BY <1>1 DEF Types, EquipmentTypes
  <2>2. QED BY <1>2, <1>9, <1>10, <2>1 DEF Instance
<1>12. Types'
  <2>1. ObjectTypes'
    BY <1>1 DEF Types, ObjectTypes, objects, caches
  <2>2. EquipmentTypes'
    BY <1>1, <1>9, <1>10, <1>11 DEF Types, EquipmentTypes
  <2>3. DevTypes'
    BY <1>1 DEF Types, DevTypes, devVars
  <2>4. DrvTypes'
    BY <1>1, <1>3 DEF Types, DrvTypes
  <2>5. BoundTypes'
    BY <1>1, BoundsFrame
  <2>6. QED BY <2>1, <2>2, <2>3, <2>4, <2>5 DEF Types
<1>13. TypeOK'
  BY <1>12, TypesAreTypeOK, PTL
<1>14. \A i \in Instances : Used(i)' <=> Used(i) \/ i = n + 1
  BY <1>2, <1>9, <1>11 DEF Used
<1>15. \A i \in Instances : Used(i) => Used(i)'
  BY <1>14
<1>16. WorkInv'
  <2>1. drvPc' = "status" /\ drvSnap' # NoObject
    BY <1>2, <1>3
  <2>2. installed' # 0 => Used(installed)'
    BY <1>9, <1>10, <1>14 DEF Used
  <2>3. devPc' # "idle" =>
          devSnap' # NoObject /\ (devSnap'.spec.ours => Used(devInstance)')
    <3>1. devPc' = devPc /\ devSnap' = devSnap /\ devInstance' = devInstance
      BY DEF devVars
    <3>2. ASSUME devPc # "idle"
          PROVE  /\ devSnap # NoObject
                 /\ devSnap.spec.ours =>
                      devInstance \in Instances /\ Used(devInstance)
      BY <3>2, DevAtWork
    <3>3. devPc # "idle" /\ devSnap.spec.ours =>
            instances'[devInstance].config # NoObject
      BY <1>15, <3>2 DEF Used
    <3>4. QED BY <3>1, <3>2, <3>3 DEF Used
  <2>4. \A g \in Subs : subs'[g] # IdleSub => Used(subs[g].instance)'
    <3> SUFFICES ASSUME NEW g \in Subs, subs[g] # IdleSub
                 PROVE  instances'[subs[g].instance].config # NoObject
      BY <1>10 DEF Used
    <3>1. subs[g] \in Sub
      BY <1>1, SubTyped DEF Types
    <3>2. subs[g].instance \in Instances
      BY <3>1 DEF Sub
    <3>3. Used(subs[g].instance)
      BY DEF IInv, WorkInv
    <3>4. QED BY <1>15, <3>2, <3>3 DEF Used
  <2>5. QED BY <1>10, <2>1, <2>2, <2>3, <2>4 DEF WorkInv, Used
<1>17. UsedInv'
  <2>1. Current' = config
    <3>1. n + 1 # 0
      OBVIOUS
    <3>2. QED BY <1>10, <1>11, <3>1 DEF Current
  <2>2. Lag' = 0 + B + D
    <3>1. Differ(config, config) = 0
      BY DifferFacts
    <3>2. QED BY <1>5, <2>1, <3>1 DEF Lag, Config, caches, objects
  <2>3. \A i \in Instances : Used(i)' <=> i <= n + 1
    <3>1. \A i \in Instances : i \in Nat
      BY DEF Instances
    <3>2. \A i \in Instances : i <= n \/ i = n + 1 <=> i <= n + 1
      BY <3>1
    <3>3. QED BY <1>4, <1>14, <3>2
  <2>4. edits' = edits /\ driver' = driver
    BY DEF bounds, objects
  <2>5. n + 1 \in Nat /\ (n + 1) + Lag' <= edits'
    BY <1>8, <2>2, <2>4
  <2>6. driver' # NoObject => edits' # 0
    BY <2>4 DEF IInv, UsedInv
  <2>7. QED BY <2>3, <2>5, <2>6 DEF UsedInv
<1>18. RefInv'
  BY <1>10, <1>11 DEF IInv, RefInv, Reaches, Holds
<1>19. LifeInv'
  BY LifeFrame DEF IInv, objects, caches, devVars
<1>20. SubInv => SubInv'
  <2> SUFFICES ASSUME SubInv, NEW g \in Subs, Live(g)'
               PROVE  LET entry == instances'[subs'[g].instance].entries[subs'[g].config.name]
                      IN  entry # NoEntry /\ entry.sub = g
    BY DEF SubInv
  <2>1. subs'[g] = subs[g] /\ Live(g)
    BY <1>10 DEF Live
  <2>2. subs[g] \in Sub
    BY <1>1, <2>1, SubTyped DEF Types, Live
  <2>3. subs[g].instance \in Instances
    BY <2>2 DEF Sub
  <2>4. QED BY <1>11, <2>1, <2>3 DEF SubInv
<1>21. EntryInv => EntryInv'
  <2> SUFFICES ASSUME EntryInv PROVE EntryInv'
    OBVIOUS
  <2>1. ~Used(n + 1)
    <3>1. ~(n + 1 <= n)
      OBVIOUS
    <3>2. QED BY <1>4, <1>9, <3>1
  <2>2. \A m \in Names : instances'[n + 1].entries[m] = NoEntry
    BY <1>9, <1>11, <2>1 DEF EntryInv
  <2>3. \A i \in Instances : ~Used(i)' =>
          \A m \in Names : instances'[i].entries[m] = NoEntry
    BY <1>11, <1>15 DEF EntryInv
  <2>4. devPc' = "release" => devSnap'.spec.name \in Names
    <3>1. devPc' = devPc /\ devSnap' = devSnap
      BY DEF devVars
    <3>2. QED BY <3>1, DevAtWork
  <2>5. QED BY <1>10, <2>2, <2>3, <2>4 DEF EntryInv
<1>22. raced' = raced
  BY <1>10
<1>23. QED BY <1>13, <1>16, <1>17, <1>18, <1>19, <1>20, <1>21, <1>22 DEF IInv

LEMMA DrvInstallIInv == ASSUME IInv, DrvInstall PROVE IInv'
<1>1. Types
  BY TypesAreTypeOK DEF IInv
<1>2. /\ drvPc = "install"
      /\ UNCHANGED <<kind, objects, caches, devVars, edits, crashes, races>>
  BY DEF DrvInstall
<1>3. CASE /\ ~SameDriver(drvSnap.config)
           /\ InstallInto(NextInstance, drvSnap.config)
           /\ DrvReport("installed") /\ UNCHANGED failures
  BY <1>2, <1>3, DrvMakeIInv DEF bounds
<1>4. CASE DrvReport("installed") /\ UNCHANGED <<equipment, failures>>
  BY <1>1, <1>2, <1>4, FailuresKept, DrvReportIInv
<1>5. CASE Failure /\ DrvReport("failed") /\ UNCHANGED equipment
  BY <1>1, <1>2, <1>5, FailureTyped, DrvReportIInv
<1>6. QED BY <1>3, <1>4, <1>5 DEF DrvInstall

LEMMA DrvUninstallIInv == ASSUME IInv, DrvUninstall PROVE IInv'
<1>1. Types
  BY TypesAreTypeOK DEF IInv
<1>2. /\ drvPc = "uninstall" /\ drvPc' = "release" /\ installed' = 0
      /\ UNCHANGED <<kind, objects, caches, instances, raced, drvSnap, report,
                     devVars, bounds>>
  BY DEF DrvUninstall
<1>3. /\ subs' \in [Subs -> Sub \cup {IdleSub}]
      /\ \A g \in Subs :
           /\ subs'[g] = IdleSub <=> subs[g] = IdleSub
           /\ subs'[g].pc = subs[g].pc
           /\ subs'[g].instance = subs[g].instance
           /\ subs'[g].config = subs[g].config
           /\ subs'[g].held = subs[g].held
           /\ subs'[g] # IdleSub /\ ~subs'[g].cancelled => ~subs[g].cancelled
  <2>1. CASE subs' = subs
    BY <1>1, <2>1 DEF Types, EquipmentTypes
  <2>2. CASE installed # 0 /\ subs' = StopDriver(installed)
    <3>1. installed \in Instances
      BY <1>1, <2>2 DEF Types, EquipmentTypes
    <3>2. EntriesOf(installed) \subseteq Entry \cup {NoEntry}
      BY <1>1, <3>1, InstanceTyped DEF Types, EntriesOf
    <3>3. \A e \in EntriesOf(installed) : Reaches(e)
      BY <3>1 DEF EntriesOf, IInv, RefInv
    <3>4. EquipmentTypes /\ subs' = Cancelled(EntriesOf(installed))
      BY <1>1, <2>2 DEF Types, StopDriver
    <3>5. QED BY <3>2, <3>3, <3>4, CancelledFacts
  <2>3. QED BY <2>1, <2>2 DEF DrvUninstall
<1>4. Types'
  <2>1. ObjectTypes'
    BY <1>1, <1>2 DEF Types, ObjectTypes, objects, caches
  <2>2. EquipmentTypes'
    BY <1>1, <1>2, <1>3 DEF Types, EquipmentTypes
  <2>3. DrvTypes'
    BY <1>1, <1>2 DEF Types, DrvTypes
  <2>4. DevTypes'
    BY <1>1, <1>2 DEF Types, DevTypes, devVars
  <2>5. BoundTypes'
    BY <1>1, <1>2, BoundsFrame
  <2>6. QED BY <2>1, <2>2, <2>3, <2>4, <2>5 DEF Types
<1>5. TypeOK'
  BY <1>4, TypesAreTypeOK, PTL
<1>6. WorkInv'
  BY <1>2, <1>3 DEF IInv, WorkInv, Used, devVars
<1>7. SameMakes
  BY <1>2 DEF SameMakes
<1>8. UsedInv'
  <2>1. Current' = NoObject
    BY <1>2 DEF Current
  <2>2. Asked = NoObject /\ Asked' = NoObject
    BY <1>2 DEF IInv, WorkInv, Asked, Config
  <2>3. UNCHANGED <<Config(driverSeen), Config(driver)>>
    BY <1>2 DEF Config, caches, objects
  <2>4. Lag' <= Lag
    <3>1. ASSUME NEW a \in {0, 1}, NEW b \in {0, 1}, NEW c \in {0, 1}
          PROVE  0 + b + c <= a + b + c
      OBVIOUS
    <3>2. Differ(NoObject, NoObject) = 0
      BY DifferFacts
    <3>3. Lag = Differ(Current, NoObject) + Differ(NoObject, Config(driverSeen))
                  + Differ(Config(driverSeen), Config(driver))
      BY <2>2 DEF Lag
    <3>4. Lag' = Differ(NoObject, NoObject) + Differ(NoObject, Config(driverSeen))
                   + Differ(Config(driverSeen), Config(driver))
      BY <2>1, <2>2, <2>3 DEF Lag
    <3>5. QED BY <3>1, <3>2, <3>3, <3>4, DifferFacts
  <2>5. edits' = edits /\ edits \in Nat /\ Lag \in Nat /\ Lag' \in Nat
        /\ driver' = driver
    BY <1>1, <1>2, EditsTyped, LagTyped DEF bounds, objects
  <2>6. edits + Lag' <= edits' + Lag
    <3>1. ASSUME NEW l \in Nat, NEW m \in Nat, NEW e \in Nat, m <= l
          PROVE  e + m <= e + l
      BY <3>1
    <3>2. QED BY <2>4, <2>5, <3>1
  <2>7. driver' # NoObject => edits' # 0
    BY <2>5 DEF IInv, UsedInv
  <2>8. QED BY <1>7, <2>5, <2>6, <2>7, UsedFrame DEF IInv
<1>9. RefInv'
  BY <1>1, <1>2, <1>3, RefKept DEF IInv
<1>10. LifeInv'
  BY <1>2, LifeFrame DEF IInv, objects, caches, devVars
<1>11. SubInv => SubInv'
  BY <1>2, <1>3 DEF SubInv, Live
<1>12. EntryInv => EntryInv'
  BY <1>2 DEF EntryInv, Used, devVars
<1>13. raced' = raced
  BY <1>2
<1>14. QED BY <1>5, <1>6, <1>8, <1>9, <1>10, <1>11, <1>12, <1>13 DEF IInv

LEMMA DrvIInv == ASSUME IInv, DrvNext PROVE IInv'
BY DrvBeginIInv, DrvAddFinalizerIInv, DrvInstallIInv, DrvStatusIInv,
   DrvUninstallIInv, DrvRemoveFinalizerIInv, PanicIInv
   DEF DrvNext, DrvInstallPanics, DrvUninstallPanics

-----------------------------------------------------------------------------
(***************************************************************************)
(* The device controller, apart from the equipment.                        *)
(***************************************************************************)
LEMMA DevBeginIInv == ASSUME IInv, NEW d \in Devices, DevBegin(d) PROVE IInv'
<1> DEFINE seen == deviceSeen[d]
<1>1. Types
  BY TypesAreTypeOK DEF IInv
<1>2. /\ devPc = "idle" /\ seen # NoObject /\ (seen.spec.ours => installed # 0)
      /\ devKey' = d /\ devSnap' = seen
      /\ devInstance' = IF seen.spec.ours THEN installed ELSE 0
      /\ devPc' = IF seen.deleting THEN "remove"
                  ELSE IF seen.finalizer THEN "add" ELSE "finalizer"
      /\ UNCHANGED <<kind, objects, caches, equipment, drvVars, bounds>>
  BY DEF DevBegin
<1>3. Types'
  <2>1. ObjectTypes'
    BY <1>1, <1>2 DEF Types, ObjectTypes, objects, caches
  <2>2. EquipmentTypes' /\ DrvTypes'
    BY <1>1, <1>2 DEF Types, EquipmentTypes, DrvTypes, equipment, drvVars
  <2>3. seen \in Device \cup {NoObject} /\ installed \in Instances \cup {0}
        /\ d # NoObject
    BY <1>1, <1>2, Sentinels DEF Types, ObjectTypes, EquipmentTypes
  <2>4. DevTypes'
    BY <1>2, <2>3 DEF DevTypes
  <2>5. BoundTypes'
    BY <1>1, <1>2, BoundsFrame
  <2>6. QED BY <2>1, <2>2, <2>4, <2>5 DEF Types
<1>4. LifeInv'
  <2>1. devices' = devices /\ deviceSeen' = deviceSeen /\ left' = left
    BY <1>2 DEF objects, caches
  <2>2. Fits(seen, devices[d])
    BY DEF IInv, LifeInv
  <2>3. devPc' = "finalizer" => ~Dying(seen)
    BY <1>2 DEF Dying
  <2>4. devPc' = "add" => Kept(devices[d]) /\ Claims(seen, devices[d])
    BY <1>2, <2>2 DEF Fits, Held
  <2>5. devPc' \in {"remove", "release"} =>
          ~Held(devices[d]) /\ ~Held(seen) /\ Same(devices[d], seen)
    <3>1. devPc' \in {"remove", "release"} => seen.deleting
      BY <1>2
    <3>2. seen.deleting => seen.finalizer
      BY <1>2 DEF IInv, LifeInv
    <3>3. QED BY <1>2, <2>2, <3>1, <3>2 DEF Fits, Dying, Held
  <2>6. QED BY <1>2, <2>1, <2>3, <2>4, <2>5 DEF IInv, LifeInv, Fits, Claims,
                                               Same, Owns, Held, Dying, Kept
<1>5. EntryInv => EntryInv'
  <2>1. devPc' # "release" /\ (devSnap'.spec.ours => devInstance' = installed)
    BY <1>2
  <2>2. UNCHANGED <<kind, installed, instances, devices, left>>
    BY <1>2 DEF equipment, objects, caches
  <2>3. \A n \in Names : Owned(n) => Owned(n)'
    BY <2>2, OwnedFrame
  <2>4. QED BY <2>1, <2>2, <2>3 DEF EntryInv, Used
<1>6. devSnap' # NoObject /\ (devSnap'.spec.ours => Used(devInstance'))
  BY <1>2 DEF IInv, WorkInv
<1>7. QED BY <1>2, <1>3, <1>4, <1>5, <1>6, DeviceSideIInv DEF objects, caches, bounds

\* A sync is over, at the latest with a write of its Device.
LEMMA DevFinishIInv ==
  ASSUME IInv, devPc # "idle", DevFinish, NEW x \in Device \cup {NoObject},
         devices' = [devices EXCEPT ![devKey] = x], failures' \in 0..MaxFaults,
         UNCHANGED <<kind, driver, caches, equipment, drvVars, edits, crashes,
                     races>>,
         x # NoObject /\ x.deleting => x.finalizer,
         Fits(deviceSeen[devKey], x),
         \A n : Owns(devices[devKey], n) =>
           \/ Owns(x, n)
           \/ devPc = "release" /\ devSnap.spec.ours /\ n = devSnap.spec.name
  PROVE  IInv'
<1>1. Types
  BY TypesAreTypeOK DEF IInv
<1>2. PICK k \in Devices : devKey = k
  BY DevAtWork
<1>3. devices'[k] = x /\ \A d \in Devices : d # k => devices'[d] = devices[d]
  BY <1>1, <1>2 DEF Types, ObjectTypes
<1>4. devPc' = "idle" /\ devKey' = NoObject /\ devSnap' = NoObject
      /\ devInstance' = 0
  BY DEF DevFinish
<1>5. Types'
  <2>1. ObjectTypes'
    BY <1>1, <1>2 DEF Types, ObjectTypes, caches
  <2>2. EquipmentTypes' /\ DrvTypes'
    BY <1>1 DEF Types, EquipmentTypes, DrvTypes, equipment, drvVars
  <2>3. DevTypes'
    BY <1>4 DEF DevTypes
  <2>4. BoundTypes'
    BY <1>1, BoundsKept
  <2>5. QED BY <2>1, <2>2, <2>3, <2>4 DEF Types
<1>6. LifeInv'
  <2>1. deviceSeen' = deviceSeen /\ left' = left
    BY DEF caches
  <2>2. Fits(deviceSeen[k], x)
    BY <1>2
  <2>3. \A d \in Devices : Fits(deviceSeen[d], devices[d])'
    BY <1>3, <2>1, <2>2 DEF IInv, LifeInv, Fits, Claims, Same, Owns, Held,
                            Dying, Kept
  <2>4. \A d \in Devices :
          /\ devices'[d] # NoObject /\ devices'[d].deleting
               => devices'[d].finalizer
          /\ deviceSeen'[d] # NoObject /\ deviceSeen'[d].deleting
               => deviceSeen'[d].finalizer
    BY <1>3, <2>1 DEF IInv, LifeInv
  <2>5. QED BY <1>4, <2>3, <2>4 DEF LifeInv
<1>7. EntryInv => EntryInv'
  <2> SUFFICES ASSUME EntryInv PROVE EntryInv'
    OBVIOUS
  <2>1. kind' = kind /\ installed' = installed /\ instances' = instances
        /\ left' = left
    BY DEF equipment, caches
  <2>2. ASSUME kind = "opcua", installed # 0, NEW n \in Names,
               instances[installed].entries[n] # NoEntry
        PROVE  Owned(n)'
    <3>1. Owned(n)
      BY <2>2 DEF EntryInv
    <3>2. CASE n \in left
      BY <2>1, <3>2 DEF Owned
    <3>3. CASE \E d \in Devices : Owns(devices[d], n)
      <4>1. PICK d \in Devices : Owns(devices[d], n)
        BY <3>3
      <4>2. CASE d = k
        <5>1. ~(devPc = "release" /\ devSnap.spec.ours /\ n = devSnap.spec.name)
          BY <2>2 DEF EntryInv
        <5>2. Owns(x, n)
          BY <1>2, <4>1, <4>2, <5>1
        <5>3. QED BY <1>3, <5>2 DEF Owned, Owns, Kept
      <4>3. CASE d # k
        BY <1>3, <4>1, <4>3 DEF Owned, Owns, Kept
      <4>4. QED BY <4>2, <4>3
    <3>4. QED BY <3>1, <3>2, <3>3 DEF Owned
  <2>3. QED BY <1>4, <2>1, <2>2 DEF EntryInv, Used
<1>8. QED BY <1>4, <1>5, <1>6, <1>7, DeviceSideIInv DEF caches

\* A sync is over without a write.
LEMMA DevQuitIInv ==
  ASSUME IInv, devPc # "idle", DevFinish, failures' \in 0..MaxFaults,
         UNCHANGED <<kind, driver, devices, caches, equipment, drvVars, edits,
                     crashes, races>>
  PROVE  IInv'
<1>1. Types
  BY TypesAreTypeOK DEF IInv
<1>2. PICK k \in Devices : devKey = k
  BY DevAtWork
<1>3. devices[k] \in Device \cup {NoObject}
  BY <1>1 DEF Types, ObjectTypes
<1>4. devices' = [devices EXCEPT ![devKey] = devices[k]]
  BY <1>1, <1>2 DEF Types, ObjectTypes
<1>5. /\ devices[k] # NoObject /\ devices[k].deleting => devices[k].finalizer
      /\ Fits(deviceSeen[k], devices[k])
  BY DEF IInv, LifeInv
<1>6. QED BY <1>2, <1>3, <1>4, <1>5, DevFinishIInv

\* What fits a Device fits one that differs in what is reported.
LEMMA FitsLike ==
  ASSUME NEW seen, NEW x, NEW y, x # NoObject, y # NoObject,
         y.spec = x.spec, y.finalizer = x.finalizer, y.deleting = x.deleting
  PROVE  /\ Fits(seen, x) => Fits(seen, y)
         /\ \A n : Owns(x, n) => Owns(y, n)
BY DEF Fits, Claims, Same, Owns, Held, Dying, Kept

LEMMA DevAddFinalizerIInv == ASSUME IInv, DevAddFinalizer PROVE IInv'
<1>1. Types
  BY TypesAreTypeOK DEF IInv
<1>2. /\ devPc = "finalizer" /\ DevFinish
      /\ UNCHANGED <<kind, driver, caches, equipment, drvVars, edits, crashes,
                     races>>
  BY DEF DevAddFinalizer
<1>3. failures' \in 0..MaxFaults
  BY <1>1, FailureTyped, FailuresKept DEF DevAddFinalizer
<1>4. PICK k \in Devices : devKey = k
  BY <1>2, DevAtWork
<1>5. CASE devices[devKey] # NoObject
           /\ SetDevice([devices[devKey] EXCEPT !.finalizer = TRUE])
  <2> DEFINE x == [devices[k] EXCEPT !.finalizer = TRUE]
  <2>1. devices[k] \in Device /\ devices[k] # NoObject
    BY <1>1, <1>4, <1>5 DEF Types, ObjectTypes
  <2>2. x \in Device
    BY <2>1, DeviceWith
  <2>3. x # NoObject /\ x.finalizer /\ x.deleting = devices[k].deleting
        /\ x.spec = devices[k].spec
    BY <2>1, <2>2, Sentinels DEF Device
  <2>4. \A n : Owns(devices[k], n) => Owns(x, n)
    BY <2>3 DEF Owns, Kept
  <2>5. Fits(deviceSeen[k], x)
    <3>1. Dying(deviceSeen[k]) => Dying(devices[k])
      BY <1>2, <1>4 DEF IInv, LifeInv
    <3>2. Fits(deviceSeen[k], devices[k])
      BY DEF IInv, LifeInv
    <3>3. Held(deviceSeen[k]) => Kept(x) /\ Claims(deviceSeen[k], x)
      BY <2>3, <2>4, <3>2 DEF Fits, Claims, Kept
    <3>4. Dying(deviceSeen[k]) => ~Held(x) /\ Same(x, deviceSeen[k])
      BY <2>3, <3>1, <3>2 DEF Fits, Same, Dying, Held, Kept
    <3>5. QED BY <3>3, <3>4 DEF Fits
  <2>6. devices' = [devices EXCEPT ![devKey] = x]
    BY <1>4, <1>5 DEF SetDevice
  <2> HIDE DEF x
  <2>7. QED BY <1>2, <1>3, <1>4, <2>2, <2>3, <2>4, <2>5, <2>6, DevFinishIInv
<1>6. CASE UNCHANGED devices
  BY <1>2, <1>3, <1>6, DevQuitIInv
<1>7. QED BY <1>5, <1>6 DEF DevAddFinalizer

LEMMA DevStatusIInv == ASSUME IInv, DevStatus PROVE IInv'
<1>1. Types
  BY TypesAreTypeOK DEF IInv
<1>2. /\ devPc = "status" /\ DevFinish
      /\ UNCHANGED <<kind, driver, caches, equipment, drvVars, edits, crashes,
                     races>>
  BY DEF DevStatus
<1>3. failures' \in 0..MaxFaults
  BY <1>1, FailureTyped, FailuresKept DEF DevStatus
<1>4. PICK k \in Devices : devKey = k
  BY <1>2, DevAtWork
<1>5. CASE devices[devKey] = devSnap
           /\ SetDevice([devSnap EXCEPT !.reported = TRUE])
  <2> DEFINE x == [devices[k] EXCEPT !.reported = TRUE]
  <2>1. devices[k] \in Device /\ devices[k] # NoObject
    BY <1>1, <1>2, <1>4, <1>5 DEF Types, ObjectTypes, IInv, WorkInv
  <2>2. x \in Device
    BY <2>1, DeviceWith
  <2>3. x # NoObject /\ x.finalizer = devices[k].finalizer
        /\ x.deleting = devices[k].deleting /\ x.spec = devices[k].spec
    BY <2>1, <2>2, Sentinels DEF Device
  <2>4. /\ devices[k].deleting => devices[k].finalizer
        /\ Fits(deviceSeen[k], devices[k])
    BY <2>1 DEF IInv, LifeInv
  <2>5. Fits(deviceSeen[k], x) /\ \A n : Owns(devices[k], n) => Owns(x, n)
    <3> HIDE DEF x
    <3>1. QED BY <2>1, <2>3, <2>4, FitsLike
  <2>6. devices' = [devices EXCEPT ![devKey] = x]
    BY <1>4, <1>5 DEF SetDevice
  <2> HIDE DEF x
  <2>7. QED BY <1>2, <1>3, <1>4, <2>2, <2>3, <2>4, <2>5, <2>6, DevFinishIInv
<1>6. CASE UNCHANGED devices
  BY <1>2, <1>3, <1>6, DevQuitIInv
<1>7. QED BY <1>5, <1>6 DEF DevStatus

LEMMA DevRemoveFinalizerIInv == ASSUME IInv, DevRemoveFinalizer PROVE IInv'
<1>1. Types
  BY TypesAreTypeOK DEF IInv
<1>2. /\ devPc = "release" /\ DevFinish
      /\ UNCHANGED <<kind, driver, caches, equipment, drvVars, edits, crashes,
                     races>>
  BY DEF DevRemoveFinalizer
<1>3. failures' \in 0..MaxFaults
  BY <1>1, FailureTyped, FailuresKept DEF DevRemoveFinalizer
<1>4. PICK k \in Devices : devKey = k
  BY <1>2, DevAtWork
<1>5. ASSUME NEW x, ~Kept(x)
      PROVE  /\ Fits(deviceSeen[k], x)
             /\ \A n : Owns(devices[k], n) =>
                   devSnap.spec.ours /\ n = devSnap.spec.name
  <2>1. ~Held(deviceSeen[k]) /\ Same(devices[k], devSnap)
    BY <1>2, <1>4 DEF IInv, LifeInv
  <2>2. Fits(deviceSeen[k], x)
    BY <1>5, <2>1 DEF Fits, Same, Held, Kept
  <2>3. QED BY <2>1, <2>2 DEF Same, Owns
<1>6. CASE devices[devKey] # NoObject /\ devices[devKey].deleting
           /\ SetDevice(NoObject)
  <2>1. devices' = [devices EXCEPT ![devKey] = NoObject]
    BY <1>6 DEF SetDevice
  <2>2. ~Kept(NoObject)
    BY DEF Kept
  <2>3. NoObject \in Device \cup {NoObject}
    OBVIOUS
  <2>4. QED BY <1>2, <1>3, <1>4, <1>5, <2>1, <2>2, <2>3, DevFinishIInv
<1>7. CASE devices[devKey] # NoObject /\ ~devices[devKey].deleting
           /\ SetDevice([devices[devKey] EXCEPT !.finalizer = FALSE])
  <2> DEFINE x == [devices[k] EXCEPT !.finalizer = FALSE]
  <2>1. devices[k] \in Device
    BY <1>1, <1>4, <1>7 DEF Types, ObjectTypes
  <2>2. x \in Device
    BY <2>1, DeviceWith
  <2>3. ~x.finalizer /\ ~x.deleting
    BY <1>4, <1>7, <2>1 DEF Device
  <2>4. ~Kept(x)
    BY <2>3 DEF Kept
  <2>5. devices' = [devices EXCEPT ![devKey] = x]
    BY <1>4, <1>7 DEF SetDevice
  <2> HIDE DEF x
  <2>6. QED BY <1>2, <1>3, <1>4, <1>5, <2>2, <2>3, <2>4, <2>5, DevFinishIInv
<1>8. CASE UNCHANGED devices
  BY <1>2, <1>3, <1>8, DevQuitIInv
<1>9. QED BY <1>6, <1>7, <1>8 DEF DevRemoveFinalizer

-----------------------------------------------------------------------------
(***************************************************************************)
(* The device controller in the equipment.                                 *)
(***************************************************************************)

\* Entries or goroutines change, and at most the step of the device controller.
LEMMA EquipmentSideIInv ==
  ASSUME IInv, SameMakes,
         UNCHANGED <<kind, objects, caches, installed, drvVars, devKey, devSnap,
                     devInstance, edits>>,
         devPc' # "idle" => devPc # "idle",
         Types', LifeInv', RefInv',
         \A g \in Subs : subs'[g] # IdleSub =>
           subs'[g].instance \in Instances /\ Used(subs'[g].instance),
         ~raced' => SubInv' /\ EntryInv'
  PROVE  IInv'
<1>1. Types
  BY TypesAreTypeOK DEF IInv
<1>2. TypeOK'
  BY TypesAreTypeOK, PTL
<1>3. UsedInv'
  BY <1>1, UsedKept DEF IInv, objects, caches, drvVars
<1>4. WorkInv'
  <2>1. \A i \in Instances : Used(i) => instances'[i].config # NoObject
    BY DEF SameMakes, Used
  <2>2. ASSUME devPc' # "idle"
        PROVE  /\ devSnap # NoObject
               /\ devSnap.spec.ours => instances'[devInstance].config # NoObject
    BY <2>1, <2>2, DevAtWork
  <2>3. installed # 0 => instances'[installed].config # NoObject
    <3>1. installed # 0 => installed \in Instances
      BY <1>1 DEF Types, EquipmentTypes
    <3>2. QED BY <2>1, <3>1 DEF IInv, WorkInv
  <2>4. \A g \in Subs : subs'[g] # IdleSub =>
          instances'[subs'[g].instance].config # NoObject
    BY <2>1
  <2>5. /\ drvPc' # "idle" => drvSnap' # NoObject
        /\ drvPc' = "install" => ~drvSnap'.deleting
        /\ drvPc' = "uninstall" => drvSnap'.deleting
    BY DEF IInv, WorkInv, drvVars
  <2>6. QED BY <2>2, <2>3, <2>4, <2>5 DEF WorkInv, Used
<1>5. QED BY <1>2, <1>3, <1>4 DEF IInv

\* An instance that is used stays used by the goroutines that go on.
LEMMA SubsUseTheirs ==
  ASSUME IInv, NEW g \in Subs, subs[g] # IdleSub
  PROVE  subs[g].instance \in Instances /\ Used(subs[g].instance)
         /\ subs[g].config \in Specs /\ subs[g].config.name \in Names
<1>1. Types
  BY TypesAreTypeOK DEF IInv
<1>2. subs[g] \in Sub
  BY <1>1, SubTyped DEF Types
<1>3. QED BY <1>2 DEF Sub, IInv, WorkInv, Names

LEMMA DevGotoFacts ==
  ASSUME IInv, devPc \in {"add", "remove"},
         NEW step \in {"status", "release"}, DevGoto(step),
         devPc = "add" => step = "status",
         UNCHANGED <<kind, objects, caches, drvVars, bounds>>
  PROVE  /\ devPc' = step /\ UNCHANGED <<devKey, devSnap, devInstance>>
         /\ LifeInv' /\ ObjectTypes' /\ DrvTypes' /\ DevTypes' /\ BoundTypes'
<1>1. Types
  BY TypesAreTypeOK DEF IInv
<1>2. devPc' = step /\ UNCHANGED <<devKey, devSnap, devInstance>>
  BY DEF DevGoto
<1>3. devices' = devices /\ deviceSeen' = deviceSeen /\ left' = left
  BY DEF objects, caches
<1>4. devPc' = "release" => devPc = "remove"
  BY <1>2
<1>5. devPc' # "finalizer" /\ devPc' # "add" /\ devPc' # "remove"
  BY <1>2
<1>6. LifeInv'
  BY <1>2, <1>3, <1>4, <1>5 DEF IInv, LifeInv, Fits, Claims, Same, Owns, Held,
                                Dying, Kept
<1>7. ObjectTypes'
  BY <1>1 DEF Types, ObjectTypes, objects, caches
<1>8. DrvTypes'
  BY <1>1 DEF Types, DrvTypes, drvVars
<1>9. DevTypes'
  BY <1>1, <1>2 DEF Types, DevTypes
<1>10. BoundTypes'
  BY <1>1, BoundsFrame
<1>11. QED BY <1>2, <1>6, <1>7, <1>8, <1>9, <1>10

\* AddDevice leaves a device alone, or RemoveDevice of MQTT, or another type's
\* device is added or removed.
LEMMA DevPassIInv ==
  ASSUME IInv, devPc \in {"add", "remove"},
         NEW step \in {"status", "release"}, DevGoto(step),
         devPc = "add" => step = "status",
         devPc = "remove" => kind = "mqtt" \/ ~devSnap.spec.ours,
         UNCHANGED <<kind, objects, caches, equipment, drvVars, bounds>>
  PROVE  IInv'
<1>1. Types
  BY TypesAreTypeOK DEF IInv
<1>2. /\ devPc' = step /\ UNCHANGED <<devKey, devSnap, devInstance>>
      /\ LifeInv' /\ ObjectTypes' /\ DrvTypes' /\ DevTypes' /\ BoundTypes'
  BY DevGotoFacts
<1>3. Types'
  <2>1. EquipmentTypes'
    BY <1>1 DEF Types, EquipmentTypes, equipment
  <2>2. QED BY <1>2, <2>1 DEF Types
<1>4. EntryInv => EntryInv'
  <2>1. UNCHANGED <<kind, installed, instances, devices, left>>
    BY DEF equipment, objects, caches
  <2>2. \A n \in Names : Owned(n) => Owned(n)'
    BY <2>1, OwnedFrame
  <2>3. QED BY <1>2, <2>1, <2>2 DEF EntryInv, Used
<1>5. devSnap' # NoObject /\ (devSnap'.spec.ours => Used(devInstance'))
  BY <1>2 DEF IInv, WorkInv
<1>6. QED BY <1>2, <1>3, <1>4, <1>5, DeviceSideIInv DEF objects, caches, bounds

\* An MQTT device is heard of for the first time.
LEMMA DevHearIInv ==
  ASSUME IInv, devPc = "add", kind = "mqtt", DevEntry = NoEntry,
         PutEntry(devInstance, devSnap.spec.name, AddedMQTT(devSnap.spec)),
         devSnap.spec.ours, DevGoto("status"),
         UNCHANGED <<kind, objects, caches, installed, subs, raced, drvVars, bounds>>
  PROVE  IInv'
<1>1. Types
  BY TypesAreTypeOK DEF IInv
<1>2. /\ devPc' = "status" /\ UNCHANGED <<devKey, devSnap, devInstance>>
      /\ LifeInv' /\ ObjectTypes' /\ DrvTypes' /\ DevTypes' /\ BoundTypes'
  BY DevGotoFacts
<1>3. PICK k \in Names : devSnap.spec.name = k
  BY DevAtWork
<1>4. PICK i \in Instances : devInstance = i
  BY DevAtWork
<1>5. PICK new \in Entry : new = AddedMQTT(devSnap.spec) /\ new.sub = NoSub
  <2>1. devSnap.spec \in Specs
    BY DevAtWork
  <2>2. AddedMQTT(devSnap.spec) \in Entry
    BY <2>1 DEF AddedMQTT, Entry
  <2>3. AddedMQTT(devSnap.spec).sub = NoSub
    BY DEF AddedMQTT
  <2>4. QED BY <2>2, <2>3
<1>6. /\ instances' \in [Instances -> Instance] /\ SameMakes
      /\ \A j \in Instances, b \in Names :
           instances'[j].entries[b] =
             IF j = i /\ b = k THEN new ELSE instances[j].entries[b]
  BY <1>1, <1>3, <1>4, <1>5, PutFacts DEF Types, SameMakes
<1>7. Types'
  <2>1. EquipmentTypes'
    BY <1>1, <1>6 DEF Types, EquipmentTypes
  <2>2. QED BY <1>2, <2>1 DEF Types
<1>8. RefInv'
  <2>1. new.sub = NoSub
    BY <1>5
  <2>2. QED BY <1>6, <2>1 DEF IInv, RefInv, Reaches, Holds
<1>9. instances[i].entries[k] = NoEntry
  BY <1>3, <1>4 DEF DevEntry
<1>10. SubInv => SubInv'
  <2> SUFFICES ASSUME SubInv, NEW g \in Subs, Live(g)
               PROVE  LET entry == instances'[subs[g].instance].entries[subs[g].config.name]
                      IN  entry # NoEntry /\ entry.sub = g
    BY DEF SubInv, Live
  <2>1. subs[g].instance \in Instances /\ subs[g].config.name \in Names
    BY SubsUseTheirs DEF Live
  <2>2. ~(subs[g].instance = i /\ subs[g].config.name = k)
    BY <1>9 DEF SubInv
  <2>3. QED BY <1>6, <2>1, <2>2 DEF SubInv
<1>11. EntryInv => EntryInv'
  <2> SUFFICES ASSUME EntryInv PROVE EntryInv'
    OBVIOUS
  <2>1. Used(i) /\ \A j \in Instances : Used(j)' <=> Used(j)
    BY <1>4, <1>6 DEF IInv, WorkInv, SameMakes, Used
  <2>2. \A j \in Instances : ~Used(j)' =>
          \A n \in Names : instances'[j].entries[n] = NoEntry
    BY <1>6, <2>1 DEF EntryInv
  <2>3. installed # 0 /\ installed # i =>
          \A n \in Names : instances'[installed].entries[n] = NoEntry
    <3>1. installed # 0 => installed \in Instances
      BY <1>1 DEF Types, EquipmentTypes
    <3>2. QED BY <1>4, <1>6, <3>1 DEF EntryInv
  <2>4. kind' # "opcua"
    OBVIOUS
  <2>5. QED BY <1>2, <1>4, <2>2, <2>3, <2>4 DEF EntryInv
<1>12. \A g \in Subs : subs'[g] # IdleSub =>
         subs'[g].instance \in Instances /\ Used(subs'[g].instance)
  BY SubsUseTheirs
<1>13. ~raced' => SubInv' /\ EntryInv'
  BY <1>10, <1>11 DEF IInv
<1>14. QED BY <1>2, <1>6, <1>7, <1>8, <1>12, <1>13, EquipmentSideIInv DEF bounds

\* A goroutine is started for a new or changed OPC-UA device.
LEMMA DevSubscribeIInv ==
  ASSUME IInv, devPc = "add", kind = "opcua",
         \E g \in Subs : subs[g] = IdleSub,
         subs' = [Replaced(DevEntry) EXCEPT
                    ![FreeSub] = Subscription(devInstance, devSnap.spec)],
         PutEntry(devInstance, devSnap.spec.name, Added(devSnap.spec, FreeSub)),
         devSnap.spec.ours, DevGoto("status"),
         UNCHANGED <<kind, objects, caches, installed, raced, drvVars, bounds>>
  PROVE  IInv'
<1>1. Types
  BY TypesAreTypeOK DEF IInv
<1>2. /\ devPc' = "status" /\ UNCHANGED <<devKey, devSnap, devInstance>>
      /\ LifeInv' /\ ObjectTypes' /\ DrvTypes' /\ DevTypes' /\ BoundTypes'
  BY DevGotoFacts
<1>3. PICK k \in Names : devSnap.spec.name = k
  BY DevAtWork
<1>4. PICK i \in Instances : devInstance = i
  BY DevAtWork
<1>5. PICK free \in Subs : free = FreeSub /\ subs[free] = IdleSub
  BY DEF FreeSub
<1>6. devSnap.spec \in Specs
  BY DevAtWork
<1>7. PICK new \in Entry : new = Added(devSnap.spec, free) /\ new.sub = free
  <2>1. DevEntry \in Entry \cup {NoEntry}
    BY <1>1, <1>3, <1>4, InstanceTyped DEF Types, DevEntry
  <2>2. Carried(DevEntry) \in Specs \cup {NoObject}
    BY <2>1 DEF Carried, Entry
  <2>3. Overtaken(devSnap.spec) \in BOOLEAN
    BY DEF Overtaken
  <2>4. Added(devSnap.spec, free) \in Entry
    BY <1>6, <2>2, <2>3 DEF Added, Entry
  <2>5. Added(devSnap.spec, free).sub = free
    BY DEF Added
  <2>6. QED BY <2>4, <2>5
<1>8. /\ instances' \in [Instances -> Instance] /\ SameMakes
      /\ \A j \in Instances, b \in Names :
           instances'[j].entries[b] =
             IF j = i /\ b = k THEN new ELSE instances[j].entries[b]
  BY <1>1, <1>3, <1>4, <1>5, <1>7, PutFacts DEF Types, SameMakes
<1>9. PICK old \in Entry \cup {NoEntry} :
        old = instances[i].entries[k] /\ old = DevEntry /\ Reaches(old)
  BY <1>1, <1>3, <1>4, InstanceTyped DEF Types, DevEntry, IInv, RefInv
<1> DEFINE C == Cancelled({old})
           S == Subscription(i, devSnap.spec)
<1>10. /\ C \in [Subs -> Sub \cup {IdleSub}]
       /\ \A g \in Subs :
            /\ C[g] = IdleSub <=> subs[g] = IdleSub
            /\ C[g].pc = subs[g].pc
            /\ C[g].instance = subs[g].instance
            /\ C[g].config = subs[g].config
            /\ C[g].held = subs[g].held
            /\ C[g] # IdleSub /\ ~C[g].cancelled =>
                 ~subs[g].cancelled /\ (old # NoEntry => old.sub # g)
  <2>1. {old} \subseteq Entry \cup {NoEntry} /\ \A e \in {old} : Reaches(e)
    BY <1>9
  <2>2. EquipmentTypes
    BY <1>1 DEF Types
  <2>3. QED BY <2>1, <2>2, CancelledFacts
<1>11. /\ S \in Sub /\ S # IdleSub /\ S.instance = i /\ S.config.name = k
       /\ S.held = NoEntry /\ S.pc = "connect"
  BY <1>3, <1>6 DEF Subscription, Sub, SubPcs, IdleSub
<1>12. subs' = [C EXCEPT ![free] = S]
  BY <1>3, <1>4, <1>5, <1>9 DEF Replaced
<1> HIDE DEF C, S
<1>13. /\ subs' \in [Subs -> Sub \cup {IdleSub}] /\ subs'[free] = S
       /\ \A g \in Subs : g # free => subs'[g] = C[g]
  BY <1>10, <1>11, <1>12
<1>14. Types'
  <2>1. EquipmentTypes'
    BY <1>1, <1>8, <1>13 DEF Types, EquipmentTypes
  <2>2. QED BY <1>2, <2>1 DEF Types
<1>15. RefInv'
  <2>1. \A g \in Subs : subs'[g] = IdleSub => subs[g] = IdleSub
    BY <1>5, <1>10, <1>13
  <2>2. Reaches(new)'
    <3>1. new.sub = free
      BY <1>7
    <3>2. QED BY <1>11, <1>13, <3>1 DEF Reaches
  <2>3. ASSUME NEW j \in Instances, NEW n \in Names
        PROVE  Reaches(instances[j].entries[n])'
    <3>1. PICK e \in Entry \cup {NoEntry} : e = instances[j].entries[n]
      BY <1>1, InstanceTyped DEF Types
    <3>2. Reaches(e)'
      BY <2>1, <3>1, ReachesFrame DEF IInv, RefInv
    <3>3. QED BY <1>8, <2>2, <3>1, <3>2 DEF Reaches
  <2>4. ASSUME NEW g \in Subs PROVE Reaches(subs[g].held)' /\ Holds(subs[g])'
    <3>1. CASE g = free
      BY <1>11, <1>13, <3>1 DEF Reaches, Holds
    <3>2. CASE g # free
      <4>1. PICK e \in Entry \cup {NoEntry} : e = subs[g].held
        BY <1>1, HeldTyped DEF Types
      <4>2. Reaches(e)'
        BY <2>1, <4>1, ReachesFrame DEF IInv, RefInv
      <4>3. subs'[g].held = e /\ subs'[g].pc = subs[g].pc
        BY <1>10, <1>13, <3>2, <4>1
      <4>4. QED BY <4>1, <4>2, <4>3 DEF Reaches, Holds, IInv, RefInv
    <3>3. QED BY <3>1, <3>2
  <2>5. QED BY <2>3, <2>4 DEF RefInv
<1>16. SubInv => SubInv'
  <2> SUFFICES ASSUME SubInv, NEW g \in Subs, Live(g)'
               PROVE  LET entry == instances'[subs'[g].instance].entries[subs'[g].config.name]
                      IN  entry # NoEntry /\ entry.sub = g
    BY DEF SubInv
  <2>1. CASE g = free
    <3>1. instances'[i].entries[k] = new /\ new # NoEntry /\ new.sub = free
      BY <1>7, <1>8, Sentinels
    <3>2. QED BY <1>11, <1>13, <2>1, <3>1
  <2>2. CASE g # free
    <3>1. /\ subs[g] # IdleSub /\ ~subs[g].cancelled
          /\ old # NoEntry => old.sub # g
          /\ subs'[g].instance = subs[g].instance
          /\ subs'[g].config = subs[g].config
      BY <1>10, <1>13, <2>2 DEF Live
    <3>2. subs[g].instance \in Instances /\ subs[g].config.name \in Names
      BY <3>1, SubsUseTheirs
    <3>3. LET entry == instances[subs[g].instance].entries[subs[g].config.name]
          IN  entry # NoEntry /\ entry.sub = g
      BY <3>1 DEF SubInv, Live
    <3>4. ~(subs[g].instance = i /\ subs[g].config.name = k)
      BY <1>9, <3>1, <3>3
    <3>5. instances'[subs[g].instance].entries[subs[g].config.name] =
            instances[subs[g].instance].entries[subs[g].config.name]
      BY <1>8, <3>2, <3>4
    <3>6. QED BY <3>1, <3>3, <3>5
  <2>3. QED BY <2>1, <2>2
<1>17. EntryInv => EntryInv'
  <2> SUFFICES ASSUME EntryInv PROVE EntryInv'
    OBVIOUS
  <2>1. Used(i) /\ \A j \in Instances : Used(j)' <=> Used(j)
    BY <1>4, <1>8 DEF IInv, WorkInv, SameMakes, Used
  <2>2. \A j \in Instances : ~Used(j)' =>
          \A n \in Names : instances'[j].entries[n] = NoEntry
    BY <1>8, <2>1 DEF EntryInv
  <2>3. installed # 0 => installed \in Instances
    BY <1>1 DEF Types, EquipmentTypes
  <2>4. installed # 0 /\ installed # i =>
          \A n \in Names : instances'[installed].entries[n] = NoEntry
    BY <1>4, <1>8, <2>3 DEF EntryInv
  <2>5. Owned(k)
    <3>1. devKey \in Devices
      BY DevAtWork
    <3>2. Claims(devSnap, devices[devKey])
      BY <3>1 DEF IInv, LifeInv
    <3>3. QED BY <1>3, <3>1, <3>2 DEF Claims, Owned
  <2>6. ASSUME installed # 0, NEW n \in Names,
               instances'[installed].entries[n] # NoEntry
        PROVE  Owned(n)
    BY <1>8, <2>3, <2>5, <2>6 DEF EntryInv
  <2>7. \A n \in Names : Owned(n) => Owned(n)'
    BY OwnedFrame DEF objects, caches
  <2>8. QED BY <1>2, <1>4, <2>2, <2>4, <2>6, <2>7 DEF EntryInv
<1>18. \A g \in Subs : subs'[g] # IdleSub =>
         subs'[g].instance \in Instances /\ Used(subs'[g].instance)
  <2> SUFFICES ASSUME NEW g \in Subs, subs'[g] # IdleSub
               PROVE  subs'[g].instance \in Instances /\ Used(subs'[g].instance)
    OBVIOUS
  <2>1. Used(i)
    BY <1>4 DEF IInv, WorkInv
  <2>2. CASE g = free
    BY <1>11, <1>13, <2>1, <2>2
  <2>3. CASE g # free
    BY <1>10, <1>13, <2>3, SubsUseTheirs
  <2>4. QED BY <2>2, <2>3
<1>19. ~raced' => SubInv' /\ EntryInv'
  BY <1>16, <1>17 DEF IInv
<1>20. QED BY <1>2, <1>8, <1>14, <1>15, <1>18, <1>19, EquipmentSideIInv DEF bounds

LEMMA DevAddIInv == ASSUME IInv, DevAdd PROVE IInv'
<1>1. /\ devPc = "add" /\ DevGoto("status")
      /\ UNCHANGED <<kind, objects, caches, installed, raced, drvVars, bounds>>
  BY DEF DevAdd
<1>2. CASE UNCHANGED <<instances, subs>>
  BY <1>1, <1>2, DevPassIInv DEF equipment
<1>3. CASE /\ devSnap.spec.ours
           /\ ~Unchanged(DevEntry, devSnap.spec) /\ kind = "mqtt"
           /\ PutEntry(devInstance, devSnap.spec.name, AddedMQTT(devSnap.spec))
           /\ UNCHANGED subs
  <2>1. DevEntry = NoEntry
    BY <1>3 DEF Unchanged
  <2>2. QED BY <1>1, <1>3, <2>1, DevHearIInv
<1>4. CASE /\ devSnap.spec.ours /\ kind = "opcua"
           /\ \E g \in Subs : subs[g] = IdleSub
           /\ subs' = [Replaced(DevEntry) EXCEPT
                         ![FreeSub] = Subscription(devInstance, devSnap.spec)]
           /\ PutEntry(devInstance, devSnap.spec.name,
                       Added(devSnap.spec, FreeSub))
  BY <1>1, <1>4, DevSubscribeIInv
<1>5. QED BY <1>2, <1>3, <1>4 DEF DevAdd, AddDevice, OursAlive

\* RemoveDevice of OPC-UA.
LEMMA DevDropIInv ==
  ASSUME IInv, devPc = "remove", kind = "opcua", subs' = Cancelled({DevEntry}),
         PutEntry(devInstance, devSnap.spec.name, NoEntry), devSnap.spec.ours,
         DevGoto("release"),
         UNCHANGED <<kind, objects, caches, installed, raced, drvVars, bounds>>
  PROVE  IInv'
<1>1. Types
  BY TypesAreTypeOK DEF IInv
<1>2. /\ devPc' = "release" /\ UNCHANGED <<devKey, devSnap, devInstance>>
      /\ LifeInv' /\ ObjectTypes' /\ DrvTypes' /\ DevTypes' /\ BoundTypes'
  BY DevGotoFacts
<1>3. PICK k \in Names : devSnap.spec.name = k
  BY DevAtWork
<1>4. PICK i \in Instances : devInstance = i
  BY DevAtWork
<1>5. /\ instances' \in [Instances -> Instance] /\ SameMakes
      /\ \A j \in Instances, b \in Names :
           instances'[j].entries[b] =
             IF j = i /\ b = k THEN NoEntry ELSE instances[j].entries[b]
  BY <1>1, <1>3, <1>4, PutFacts DEF Types, SameMakes
<1>6. PICK old \in Entry \cup {NoEntry} :
        old = instances[i].entries[k] /\ old = DevEntry /\ Reaches(old)
  BY <1>1, <1>3, <1>4, InstanceTyped DEF Types, DevEntry, IInv, RefInv
<1>7. /\ subs' \in [Subs -> Sub \cup {IdleSub}]
      /\ \A g \in Subs :
           /\ subs'[g] = IdleSub <=> subs[g] = IdleSub
           /\ subs'[g].pc = subs[g].pc
           /\ subs'[g].instance = subs[g].instance
           /\ subs'[g].config = subs[g].config
           /\ subs'[g].held = subs[g].held
           /\ subs'[g] # IdleSub /\ ~subs'[g].cancelled =>
                ~subs[g].cancelled /\ (old # NoEntry => old.sub # g)
  <2>1. {old} \subseteq Entry \cup {NoEntry} /\ \A e \in {old} : Reaches(e)
    BY <1>6
  <2>2. EquipmentTypes
    BY <1>1 DEF Types
  <2> DEFINE C == Cancelled({old})
  <2>3. /\ C \in [Subs -> Sub \cup {IdleSub}]
        /\ \A g \in Subs :
             /\ C[g] = IdleSub <=> subs[g] = IdleSub
             /\ C[g].pc = subs[g].pc
             /\ C[g].instance = subs[g].instance
             /\ C[g].config = subs[g].config
             /\ C[g].held = subs[g].held
             /\ C[g] # IdleSub /\ ~C[g].cancelled =>
                  ~subs[g].cancelled /\ (old # NoEntry => old.sub # g)
    BY <2>1, <2>2, CancelledFacts
  <2>4. subs' = C
    BY <1>6
  <2> HIDE DEF C
  <2>5. QED BY <2>3, <2>4
<1>8. Types'
  <2>1. EquipmentTypes'
    BY <1>1, <1>5, <1>7 DEF Types, EquipmentTypes
  <2>2. QED BY <1>2, <2>1 DEF Types
<1>9. RefInv'
  <2>1. ASSUME NEW j \in Instances, NEW n \in Names
        PROVE  Reaches(instances[j].entries[n])'
    <3>1. PICK e \in Entry \cup {NoEntry} : e = instances[j].entries[n]
      BY <1>1, InstanceTyped DEF Types
    <3>2. Reaches(e)'
      BY <1>7, <3>1, ReachesFrame DEF IInv, RefInv
    <3>3. QED BY <1>5, <3>1, <3>2 DEF Reaches
  <2>2. ASSUME NEW g \in Subs PROVE Reaches(subs[g].held)' /\ Holds(subs[g])'
    <3>1. PICK e \in Entry \cup {NoEntry} : e = subs[g].held
      BY <1>1, HeldTyped DEF Types
    <3>2. Reaches(e)'
      BY <1>7, <3>1, ReachesFrame DEF IInv, RefInv
    <3>3. subs'[g].held = e /\ subs'[g].pc = subs[g].pc
      BY <1>7, <3>1
    <3>4. QED BY <3>1, <3>2, <3>3 DEF Reaches, Holds, IInv, RefInv
  <2>3. QED BY <2>1, <2>2 DEF RefInv
<1>10. SubInv => SubInv'
  <2> SUFFICES ASSUME SubInv, NEW g \in Subs, Live(g)'
               PROVE  LET entry == instances'[subs'[g].instance].entries[subs'[g].config.name]
                      IN  entry # NoEntry /\ entry.sub = g
    BY DEF SubInv
  <2>1. /\ subs[g] # IdleSub /\ ~subs[g].cancelled
        /\ old # NoEntry => old.sub # g
        /\ subs'[g].instance = subs[g].instance
        /\ subs'[g].config = subs[g].config
    BY <1>7 DEF Live
  <2>2. subs[g].instance \in Instances /\ subs[g].config.name \in Names
    BY <2>1, SubsUseTheirs
  <2>3. LET entry == instances[subs[g].instance].entries[subs[g].config.name]
        IN  entry # NoEntry /\ entry.sub = g
    BY <2>1 DEF SubInv, Live
  <2>4. ~(subs[g].instance = i /\ subs[g].config.name = k)
    BY <1>6, <2>1, <2>3
  <2>5. instances'[subs[g].instance].entries[subs[g].config.name] =
          instances[subs[g].instance].entries[subs[g].config.name]
    BY <1>5, <2>2, <2>4
  <2>6. QED BY <2>1, <2>3, <2>5
<1>11. EntryInv => EntryInv'
  <2> SUFFICES ASSUME EntryInv PROVE EntryInv'
    OBVIOUS
  <2>1. \A j \in Instances : Used(j)' <=> Used(j)
    BY <1>5 DEF SameMakes, Used
  <2>2. \A j \in Instances : ~Used(j)' =>
          \A n \in Names : instances'[j].entries[n] = NoEntry
    BY <1>5, <2>1 DEF EntryInv
  <2>3. installed # 0 => installed \in Instances
    BY <1>1 DEF Types, EquipmentTypes
  <2>4. installed # 0 /\ installed # i =>
          \A n \in Names : instances'[installed].entries[n] = NoEntry
    BY <1>4, <1>5, <2>3 DEF EntryInv
  <2>5. ASSUME installed # 0, NEW n \in Names,
               instances'[installed].entries[n] # NoEntry
        PROVE  Owned(n)
    BY <1>5, <2>3, <2>5 DEF EntryInv
  <2>6. installed # 0 => instances'[installed].entries[k] = NoEntry
    BY <1>5, <2>3, <2>4
  <2>7. \A n \in Names : Owned(n) => Owned(n)'
    BY OwnedFrame DEF objects, caches
  <2>8. QED BY <1>2, <1>3, <1>4, <2>2, <2>4, <2>5, <2>6, <2>7 DEF EntryInv
<1>12. \A g \in Subs : subs'[g] # IdleSub =>
         subs'[g].instance \in Instances /\ Used(subs'[g].instance)
  BY <1>7, SubsUseTheirs
<1>13. ~raced' => SubInv' /\ EntryInv'
  BY <1>10, <1>11 DEF IInv
<1>14. QED BY <1>2, <1>5, <1>8, <1>9, <1>12, <1>13, EquipmentSideIInv DEF bounds

LEMMA DevRemoveIInv == ASSUME IInv, DevRemove PROVE IInv'
<1>1. /\ devPc = "remove" /\ DevGoto("release")
      /\ UNCHANGED <<kind, objects, caches, installed, raced, drvVars, bounds>>
  BY DEF DevRemove
<1>2. CASE /\ devSnap.spec.ours
           /\ kind = "opcua" /\ subs' = Cancelled({DevEntry})
           /\ PutEntry(devInstance, devSnap.spec.name, NoEntry)
  BY <1>1, <1>2, DevDropIInv
<1>3. CASE (kind = "mqtt" \/ ~devSnap.spec.ours) /\ UNCHANGED <<subs, instances>>
  BY <1>1, <1>3, DevPassIInv DEF equipment
<1>4. QED BY <1>2, <1>3 DEF DevRemove, OursAlive

LEMMA DevIInv == ASSUME IInv, DevNext PROVE IInv'
BY DevAddFinalizerIInv, DevAddIInv, DevStatusIInv, DevRemoveIInv, PanicIInv,
   DevRemoveFinalizerIInv DEF DevNext, DevPanics

-----------------------------------------------------------------------------
(***************************************************************************)
(* The goroutines.                                                         *)
(***************************************************************************)
RestStays ==
  UNCHANGED <<kind, objects, caches, installed, drvVars, devVars, edits, crashes>>

LEMMA RestFacts ==
  ASSUME IInv, RestStays, failures' \in 0..MaxFaults, races' \in 0..MaxFaults
  PROVE  /\ UNCHANGED <<kind, objects, caches, installed, drvVars, devPc, devKey,
                        devSnap, devInstance, edits>>
         /\ LifeInv' /\ ObjectTypes' /\ DrvTypes' /\ DevTypes' /\ BoundTypes'
<1>1. Types
  BY TypesAreTypeOK DEF IInv
<1>2. UNCHANGED <<kind, objects, caches, installed, drvVars, devPc, devKey,
                  devSnap, devInstance, edits, crashes>>
  BY DEF RestStays, devVars
<1>3. LifeInv'
  BY <1>2, LifeFrame DEF IInv, objects, caches
<1>4. ObjectTypes'
  BY <1>1, <1>2 DEF Types, ObjectTypes, objects, caches
<1>5. DrvTypes'
  BY <1>1, <1>2 DEF Types, DrvTypes, drvVars
<1>6. DevTypes'
  BY <1>1, <1>2 DEF Types, DevTypes
<1>7. BoundTypes'
  BY <1>1, <1>2 DEF Types, BoundTypes
<1>8. QED BY <1>2, <1>3, <1>4, <1>5, <1>6, <1>7

LEMMA RacesKept ==
  ASSUME Types, races' = races PROVE races' \in 0..MaxFaults
BY DEF Types, BoundTypes

\* A goroutine ends.
LEMMA SubDoneIInv ==
  ASSUME IInv, NEW g \in Subs, subs[g] # IdleSub, SubDone(g), RestStays,
         raced' = raced, failures' \in 0..MaxFaults, races' = races
  PROVE  IInv'
<1>1. Types
  BY TypesAreTypeOK DEF IInv
<1>2. /\ UNCHANGED <<kind, objects, caches, installed, drvVars, devPc, devKey,
                     devSnap, devInstance, edits>>
      /\ LifeInv' /\ ObjectTypes' /\ DrvTypes' /\ DevTypes' /\ BoundTypes'
  BY <1>1, RacesKept, RestFacts
<1>3. /\ subs' \in [Subs -> Sub \cup {IdleSub}]
      /\ instances' \in [Instances -> Instance]
      /\ subs'[g] = IdleSub
      /\ \A h \in Subs : h # g =>
           /\ subs'[h] = IdleSub <=> subs[h] = IdleSub
           /\ subs'[h].pc = subs[h].pc
           /\ subs'[h].instance = subs[h].instance
           /\ subs'[h].config = subs[h].config
           /\ subs'[h].cancelled = subs[h].cancelled
           /\ subs'[h].held = Ended(subs[h].held, g)
      /\ \A i \in Instances :
           /\ instances'[i].config = instances[i].config
           /\ \A n \in Names :
                instances'[i].entries[n] = Ended(instances[i].entries[n], g)
  BY <1>1, DoneFacts DEF Types
<1>4. SameMakes
  BY <1>3 DEF SameMakes
<1>5. Types'
  <2>1. EquipmentTypes'
    BY <1>1, <1>2, <1>3 DEF Types, EquipmentTypes
  <2>2. QED BY <1>2, <2>1 DEF Types
<1>6. ASSUME NEW e \in Entry \cup {NoEntry}, Reaches(e)
      PROVE  Reaches(Ended(e, g))'
  <2>1. CASE e = NoEntry
    BY <2>1 DEF Reaches, Ended
  <2>2. CASE e # NoEntry /\ e.sub = g
    <3>1. Ended(e, g).sub = NoSub
      BY <2>2, EndedFacts
    <3>2. QED BY <3>1 DEF Reaches
  <2>3. CASE e # NoEntry /\ e.sub # g
    <3>1. Ended(e, g) = e
      BY <2>3 DEF Ended
    <3>2. e.sub \in Subs \cup {NoSub}
      BY <2>3 DEF Entry
    <3>3. e.sub # NoSub => subs'[e.sub] # IdleSub
      BY <1>3, <1>6, <2>3, <3>2 DEF Reaches
    <3>4. QED BY <3>1, <3>3 DEF Reaches
  <2>4. QED BY <2>1, <2>2, <2>3
<1>7. RefInv'
  <2>1. ASSUME NEW j \in Instances, NEW n \in Names
        PROVE  Reaches(instances[j].entries[n])'
    <3>1. PICK e \in Entry \cup {NoEntry} : e = instances[j].entries[n]
      BY <1>1, InstanceTyped DEF Types
    <3>2. Reaches(Ended(e, g))'
      BY <1>6, <3>1 DEF IInv, RefInv
    <3>3. instances'[j].entries[n] = Ended(e, g)
      BY <1>3, <3>1
    <3>4. QED BY <3>2, <3>3 DEF Reaches
  <2>2. ASSUME NEW h \in Subs PROVE Reaches(subs[h].held)' /\ Holds(subs[h])'
    <3>1. CASE h = g
      BY <1>3, <3>1 DEF Reaches, Holds, IdleSub
    <3>2. CASE h # g
      <4>1. PICK e \in Entry \cup {NoEntry} : e = subs[h].held
        BY <1>1, HeldTyped DEF Types
      <4>2. Reaches(Ended(e, g))'
        BY <1>6, <4>1 DEF IInv, RefInv
      <4>3. subs'[h].held = Ended(e, g) /\ subs'[h].pc = subs[h].pc
        BY <1>3, <3>2, <4>1
      <4>4. Ended(e, g) = NoEntry <=> e = NoEntry
        BY EndedFacts
      <4>5. QED BY <4>1, <4>2, <4>3, <4>4 DEF Reaches, Holds, IInv, RefInv
    <3>3. QED BY <3>1, <3>2
  <2>3. QED BY <2>1, <2>2 DEF RefInv
<1>8. SubInv => SubInv'
  <2> SUFFICES ASSUME SubInv, NEW h \in Subs, Live(h)'
               PROVE  LET entry == instances'[subs'[h].instance].entries[subs'[h].config.name]
                      IN  entry # NoEntry /\ entry.sub = h
    BY DEF SubInv
  <2>1. /\ h # g /\ Live(h)
        /\ subs'[h].instance = subs[h].instance
        /\ subs'[h].config = subs[h].config
    BY <1>3 DEF Live
  <2>2. subs[h].instance \in Instances /\ subs[h].config.name \in Names
    BY <2>1, SubsUseTheirs DEF Live
  <2>3. PICK e \in Entry \cup {NoEntry} :
          e = instances[subs[h].instance].entries[subs[h].config.name]
    BY <1>1, <2>2, InstanceTyped DEF Types
  <2>4. e # NoEntry /\ e.sub = h
    BY <2>1, <2>3 DEF SubInv
  <2>5. Ended(e, g) = e
    BY <2>1, <2>4 DEF Ended
  <2>6. QED BY <1>3, <2>1, <2>2, <2>3, <2>4, <2>5
<1>9. EntryInv => EntryInv'
  <2> SUFFICES ASSUME EntryInv PROVE EntryInv'
    OBVIOUS
  <2>1. \A i \in Instances : Used(i)' <=> Used(i)
    BY <1>3 DEF Used
  <2>2. \A i \in Instances, n \in Names :
          instances'[i].entries[n] = NoEntry <=> instances[i].entries[n] = NoEntry
    <3> SUFFICES ASSUME NEW i \in Instances, NEW n \in Names
                 PROVE  instances'[i].entries[n] = NoEntry
                          <=> instances[i].entries[n] = NoEntry
      OBVIOUS
    <3>1. PICK e \in Entry \cup {NoEntry} : e = instances[i].entries[n]
      BY <1>1, InstanceTyped DEF Types
    <3>2. Ended(e, g) = NoEntry <=> e = NoEntry
      BY EndedFacts
    <3>3. QED BY <1>3, <3>1, <3>2
  <2>3. installed # 0 => installed \in Instances
    BY <1>1 DEF Types, EquipmentTypes
  <2>4. devPc = "release" => devSnap.spec.name \in Names
    BY DevAtWork
  <2>5. \A n \in Names : Owned(n) => Owned(n)'
    BY <1>2, OwnedFrame DEF objects, caches
  <2>6. QED BY <1>2, <2>1, <2>2, <2>3, <2>4, <2>5 DEF EntryInv
<1>10. \A h \in Subs : subs'[h] # IdleSub =>
         subs'[h].instance \in Instances /\ Used(subs'[h].instance)
  BY <1>3, SubsUseTheirs
<1>11. ~raced' => SubInv' /\ EntryInv'
  BY <1>8, <1>9 DEF IInv
<1>12. QED BY <1>2, <1>4, <1>5, <1>7, <1>10, <1>11, EquipmentSideIInv

\* Entries come and go with AddDevice and RemoveDevice.
SameEntries ==
  \A i \in Instances, n \in Names :
    /\ instances'[i].entries[n] = NoEntry <=> instances[i].entries[n] = NoEntry
    /\ instances'[i].entries[n] # NoEntry =>
         instances'[i].entries[n].sub = instances[i].entries[n].sub

\* A goroutine goes on, and what it holds has been read or is let go of; the
\* entries stay what they are, unless a change has been undone.
LEMMA SubMoveIInv ==
  ASSUME IInv, NEW g \in Subs, subs[g] # IdleSub, NEW step \in SubPcs,
         NEW e \in Entry \cup {NoEntry}, Reaches(e),
         step = "write" => e # NoEntry,
         subs' = [subs EXCEPT ![g].pc = step, ![g].held = e], RestStays,
         instances' \in [Instances -> Instance], SameMakes,
         \A i \in Instances, n \in Names : Reaches(instances'[i].entries[n]),
         raced' \in BOOLEAN, raced => raced', ~raced' => SameEntries,
         failures' \in 0..MaxFaults, races' \in 0..MaxFaults
  PROVE  IInv'
<1>1. Types
  BY TypesAreTypeOK DEF IInv
<1>2. /\ UNCHANGED <<kind, objects, caches, installed, drvVars, devPc, devKey,
                     devSnap, devInstance, edits>>
      /\ LifeInv' /\ ObjectTypes' /\ DrvTypes' /\ DevTypes' /\ BoundTypes'
  BY RestFacts
<1>3. subs[g] \in Sub
  BY <1>1, SubTyped DEF Types
<1>4. subs \in [Subs -> Sub \cup {IdleSub}]
  BY <1>1 DEF Types, EquipmentTypes
<1>5. /\ subs'[g] = [subs[g] EXCEPT !.pc = step, !.held = e]
      /\ \A h \in Subs : h # g => subs'[h] = subs[h]
  BY <1>4
<1>6. /\ subs'[g] \in Sub /\ subs'[g].held = e /\ subs'[g].pc = step
      /\ subs'[g].instance = subs[g].instance
      /\ subs'[g].config = subs[g].config
      /\ subs'[g].cancelled = subs[g].cancelled
  <2>1. ASSUME NEW s \in Sub, NEW t, t = [s EXCEPT !.pc = step, !.held = e]
        PROVE  /\ t \in Sub /\ t.held = e /\ t.pc = step /\ t.instance = s.instance
               /\ t.config = s.config /\ t.cancelled = s.cancelled
    BY <2>1 DEF Sub
  <2>2. QED BY <1>3, <1>5, <2>1
<1>7. subs'[g] # IdleSub
  BY <1>6 DEF Sub, SubPcs, IdleSub
<1>8. subs' \in [Subs -> Sub \cup {IdleSub}]
  BY <1>4, <1>5, <1>6
<1>9. Types'
  <2>1. EquipmentTypes'
    BY <1>1, <1>2, <1>8 DEF Types, EquipmentTypes
  <2>2. QED BY <1>2, <2>1 DEF Types
<1>10. \A h \in Subs : /\ subs'[h] = IdleSub <=> subs[h] = IdleSub
                       /\ subs'[h].instance = subs[h].instance
                       /\ subs'[h].config = subs[h].config
                       /\ subs'[h].cancelled = subs[h].cancelled
  BY <1>5, <1>6, <1>7
<1>11. RefInv'
  <2>1. ASSUME NEW j \in Instances, NEW n \in Names
        PROVE  Reaches(instances[j].entries[n])'
    <3>1. PICK f \in Entry \cup {NoEntry} : f = instances'[j].entries[n]
      BY DEF Instance
    <3>2. Reaches(f)'
      BY <1>10, <3>1, ReachesFrame
    <3>3. QED BY <3>1, <3>2 DEF Reaches
  <2>2. ASSUME NEW h \in Subs PROVE Reaches(subs[h].held)' /\ Holds(subs[h])'
    <3>1. PICK f \in Entry \cup {NoEntry} : f = subs'[h].held /\ Reaches(f)
      <4>1. CASE h = g
        BY <1>6, <4>1
      <4>2. CASE h # g
        BY <1>1, <1>5, <4>2, HeldTyped DEF Types, IInv, RefInv
      <4>3. QED BY <4>1, <4>2
    <3>2. Reaches(f)'
      BY <1>10, <3>1, ReachesFrame
    <3>3. Holds(subs[h])'
      BY <1>5, <1>6 DEF Holds, IInv, RefInv
    <3>4. QED BY <3>1, <3>2, <3>3 DEF Reaches
  <2>3. QED BY <2>1, <2>2 DEF RefInv
<1>12. ~raced' => SubInv' /\ EntryInv'
  <2> SUFFICES ASSUME ~raced' PROVE SubInv' /\ EntryInv'
    OBVIOUS
  <2>1. SameEntries /\ SubInv /\ EntryInv
    BY DEF IInv
  <2>2. SubInv'
    <3> SUFFICES ASSUME NEW h \in Subs, Live(h)'
                 PROVE  LET entry == instances'[subs'[h].instance].entries[subs'[h].config.name]
                        IN  entry # NoEntry /\ entry.sub = h
      BY DEF SubInv
    <3>1. /\ Live(h)
          /\ subs'[h].instance = subs[h].instance
          /\ subs'[h].config = subs[h].config
      BY <1>10 DEF Live
    <3>2. subs[h].instance \in Instances /\ subs[h].config.name \in Names
      BY <3>1, SubsUseTheirs DEF Live
    <3>3. LET entry == instances[subs[h].instance].entries[subs[h].config.name]
          IN  entry # NoEntry /\ entry.sub = h
      BY <2>1, <3>1 DEF SubInv
    <3>4. LET entry == instances'[subs[h].instance].entries[subs[h].config.name]
          IN  entry # NoEntry /\ entry.sub = h
      BY <2>1, <3>2, <3>3 DEF SameEntries
    <3>5. QED BY <3>1, <3>4
  <2>3. \A n \in Names : Owned(n) => Owned(n)'
    BY <1>2, OwnedFrame DEF objects, caches
  <2>4. \A i \in Instances : Used(i)' <=> Used(i)
    BY DEF SameMakes, Used
  <2>5. installed # 0 => installed \in Instances
    BY <1>1 DEF Types, EquipmentTypes
  <2>6. devPc = "release" => devSnap.spec.name \in Names
    BY DevAtWork
  <2>7. EntryInv'
    BY <1>2, <2>1, <2>3, <2>4, <2>5, <2>6 DEF EntryInv, SameEntries
  <2>8. QED BY <2>2, <2>7
<1>13. \A h \in Subs : subs'[h] # IdleSub =>
         subs'[h].instance \in Instances /\ Used(subs'[h].instance)
  BY <1>10, SubsUseTheirs
<1>14. QED BY <1>2, <1>9, <1>11, <1>12, <1>13, EquipmentSideIInv

LEMMA GotoFacts ==
  ASSUME EquipmentTypes, NEW g \in Subs, subs[g] # IdleSub, NEW step,
         SubGoto(g, step)
  PROVE  subs' = [subs EXCEPT ![g].pc = step, ![g].held = subs[g].held]
<1>1. subs \in [Subs -> Sub \cup {IdleSub}] /\ subs[g] \in Sub
  BY SubTyped DEF EquipmentTypes
<1>2. ASSUME NEW s \in Sub
      PROVE  [s EXCEPT !.pc = step] = [s EXCEPT !.pc = step, !.held = s.held]
  BY DEF Sub
<1>3. [subs[g] EXCEPT !.pc = step] = [subs[g] EXCEPT !.pc = step, !.held = subs[g].held]
  BY <1>1, <1>2
<1>4. subs' = [subs EXCEPT ![g] = [subs[g] EXCEPT !.pc = step]]
  BY DEF SubGoto
<1>5. QED BY <1>1, <1>3, <1>4

\* A goroutine goes on, and nothing else.
LEMMA SubGotoIInv ==
  ASSUME IInv, NEW g \in Subs, subs[g] # IdleSub, NEW step \in SubPcs \ {"write"},
         SubGoto(g, step), RestStays, raced' = raced, instances' = instances,
         failures' \in 0..MaxFaults, races' = races
  PROVE  IInv'
<1>1. Types
  BY TypesAreTypeOK DEF IInv
<1>2. PICK e \in Entry \cup {NoEntry} : e = subs[g].held /\ Reaches(e)
  BY <1>1, HeldTyped DEF Types, IInv, RefInv
<1>3. subs' = [subs EXCEPT ![g].pc = step, ![g].held = e]
  BY <1>1, <1>2, GotoFacts DEF Types
<1>4. instances' \in [Instances -> Instance] /\ SameMakes
  BY <1>1 DEF Types, EquipmentTypes, SameMakes
<1>5. \A i \in Instances, n \in Names : Reaches(instances'[i].entries[n])
  BY DEF IInv, RefInv
<1>6. raced' \in BOOLEAN /\ SameEntries
  BY <1>1 DEF Types, EquipmentTypes, SameEntries
<1>7. races' \in 0..MaxFaults
  BY <1>1, RacesKept
<1>8. QED BY <1>2, <1>3, <1>4, <1>5, <1>6, <1>7, SubMoveIInv

LEMMA SubConnectIInv == ASSUME IInv, NEW g \in Subs, SubConnect(g) PROVE IInv'
<1>1. Types
  BY TypesAreTypeOK DEF IInv
<1>2. subs[g] # IdleSub
  BY DEF SubConnect, IdleSub
<1>3. RestStays /\ raced' = raced /\ races' = races
  BY DEF SubConnect, RestStays, notSub
<1>4. failures' \in 0..MaxFaults
  BY <1>1, FailureTyped, FailuresKept DEF SubConnect
<1>5. CASE SubGoto(g, "read") /\ UNCHANGED instances
  BY <1>2, <1>3, <1>4, <1>5, SubGotoIInv DEF SubPcs
<1>6. CASE SubDone(g)
  BY <1>2, <1>3, <1>4, <1>6, SubDoneIInv
<1>7. QED BY <1>5, <1>6 DEF SubConnect

\* The entry that is written: it reaches what the one that was read did.
LEMMA RequestFacts ==
  ASSUME EquipmentTypes, NEW g \in Subs, subs[g] # IdleSub,
         subs[g].instance \in Instances, subs[g].config \in Specs,
         NEW e \in Entry, PutRequest(g, e), Reaches(e),
         \A i \in Instances, n \in Names : Reaches(instances[i].entries[n])
  PROVE  /\ instances' \in [Instances -> Instance] /\ SameMakes
         /\ \A i \in Instances, n \in Names : Reaches(instances'[i].entries[n])
         /\ EntryFor(g) # NoEntry /\ EntryFor(g).sub = e.sub => SameEntries
<1>1. PICK i \in Instances, n \in Names :
        i = subs[g].instance /\ n = subs[g].config.name
  BY DEF Names
<1>2. PICK f \in Entry :
        /\ f = IF e.first = NoObject THEN [e EXCEPT !.first = subs[g].config]
                                     ELSE e
        /\ f.sub = e.sub
  <2>1. PICK f : f = [e EXCEPT !.first = subs[g].config]
    OBVIOUS
  <2>2. f \in Entry /\ f.sub = e.sub
    BY <2>1 DEF Entry
  <2>3. QED BY <2>1, <2>2
<1>3. PutEntry(i, n, f)
  BY <1>1, <1>2 DEF PutRequest
<1>4. /\ instances' \in [Instances -> Instance]
      /\ \A j \in Instances : instances'[j].config = instances[j].config
      /\ \A j \in Instances, b \in Names :
           instances'[j].entries[b] =
             IF j = i /\ b = n THEN f ELSE instances[j].entries[b]
  BY <1>3, PutFacts
<1>5. f # NoEntry /\ e # NoEntry
  BY Sentinels
<1>6. Reaches(f)
  BY <1>2, <1>5 DEF Reaches
<1>7. ASSUME EntryFor(g) # NoEntry, EntryFor(g).sub = e.sub PROVE SameEntries
  <2>1. instances[i].entries[n] # NoEntry /\ instances[i].entries[n].sub = f.sub
    BY <1>1, <1>2, <1>7 DEF EntryFor
  <2>2. QED BY <1>4, <1>5, <2>1 DEF SameEntries
<1>8. QED BY <1>4, <1>6, <1>7 DEF SameMakes

LEMMA SubRequestIInv == ASSUME IInv, NEW g \in Subs, SubRequest(g) PROVE IInv'
<1>1. Types
  BY TypesAreTypeOK DEF IInv
<1>2. subs[g] # IdleSub
  BY DEF SubRequest, IdleSub
<1>3. RestStays /\ raced' = raced /\ races' = races
  BY DEF SubRequest, RestStays, notSub
<1>4. failures' \in 0..MaxFaults /\ races' \in 0..MaxFaults
  BY <1>1, FailuresKept, RacesKept DEF SubRequest
<1>5. CASE EntryFor(g) # NoEntry /\ SubGoto(g, "monitor")
           /\ PutRequest(g, EntryFor(g))
  <2>1. subs[g].instance \in Instances /\ subs[g].config \in Specs
        /\ subs[g].config.name \in Names
    BY <1>2, SubsUseTheirs
  <2>2. PICK e \in Entry : e = EntryFor(g) /\ Reaches(e)
    BY <1>1, <1>5, <2>1, InstanceTyped DEF Types, IInv, RefInv, EntryFor
  <2>3. \A i \in Instances, n \in Names : Reaches(instances[i].entries[n])
    BY DEF IInv, RefInv
  <2>4. /\ instances' \in [Instances -> Instance] /\ SameMakes
        /\ \A i \in Instances, n \in Names : Reaches(instances'[i].entries[n])
        /\ SameEntries
    BY <1>1, <1>2, <1>5, <2>1, <2>2, <2>3, RequestFacts DEF Types
  <2>5. PICK h \in Entry \cup {NoEntry} : h = subs[g].held /\ Reaches(h)
    BY <1>1, HeldTyped DEF Types, IInv, RefInv
  <2>6. subs' = [subs EXCEPT ![g].pc = "monitor", ![g].held = h]
    BY <1>1, <1>2, <1>5, <2>5, GotoFacts DEF Types
  <2>7. raced' \in BOOLEAN /\ "monitor" \in SubPcs
    BY <1>1, <1>3 DEF Types, EquipmentTypes, SubPcs
  <2>8. QED BY <1>2, <1>3, <1>4, <2>4, <2>5, <2>6, <2>7, SubMoveIInv
<1>6. CASE SubDone(g)
  BY <1>2, <1>3, <1>4, <1>6, SubDoneIInv
<1>7. QED BY <1>5, <1>6 DEF SubRequest

LEMMA SubReadIInv == ASSUME IInv, NEW g \in Subs, SubRead(g) PROVE IInv'
<1>1. Types
  BY TypesAreTypeOK DEF IInv
<1>2. subs[g] # IdleSub
  BY DEF SubRead, IdleSub
<1>3. RestStays /\ raced' = raced /\ instances' = instances
  BY DEF SubRead, RestStays, notSub
<1>4. failures' \in 0..MaxFaults
  BY <1>1, FailuresKept DEF SubRead
<1>5. races' \in 0..MaxFaults
  <2>1. /\ failures \in Nat /\ crashes \in Nat /\ races \in Nat
        /\ failures + crashes + races < MaxFaults
        /\ races' = races + 1 /\ MaxFaults \in Nat
    BY <1>1, BoundsAssumption DEF SubRead, Types, BoundTypes
  <2>2. QED BY <2>1
<1>6. PICK e \in Entry \cup {NoEntry} :
        e = EntryFor(g) /\ Reaches(e) /\ e # NoEntry
  BY <1>1, <1>2, SubsUseTheirs, InstanceTyped
     DEF Types, IInv, RefInv, EntryFor, SubRead
<1>7. subs' = [subs EXCEPT ![g].pc = "write", ![g].held = e]
  BY <1>6 DEF SubRead
<1>8. instances' \in [Instances -> Instance] /\ SameMakes
  BY <1>1, <1>3 DEF Types, EquipmentTypes, SameMakes
<1>9. \A i \in Instances, n \in Names : Reaches(instances'[i].entries[n])
  BY <1>3 DEF IInv, RefInv
<1>10. raced' \in BOOLEAN /\ "write" \in SubPcs /\ SameEntries
  BY <1>1, <1>3 DEF Types, EquipmentTypes, SubPcs, SameEntries
<1>11. QED BY <1>2, <1>3, <1>4, <1>5, <1>6, <1>7, <1>8, <1>9, <1>10, SubMoveIInv

LEMMA SubWriteIInv == ASSUME IInv, NEW g \in Subs, SubWrite(g) PROVE IInv'
<1>1. Types
  BY TypesAreTypeOK DEF IInv
<1>2. subs[g] # IdleSub
  BY DEF SubWrite, IdleSub
<1>3. RestStays
  BY DEF SubWrite, RestStays, notSub
<1>4. failures' \in 0..MaxFaults /\ races' \in 0..MaxFaults
  BY <1>1, FailuresKept, RacesKept DEF SubWrite
<1>5. subs[g].instance \in Instances /\ subs[g].config \in Specs
      /\ subs[g].config.name \in Names
  BY <1>2, SubsUseTheirs
<1>6. PICK e \in Entry : e = subs[g].held /\ Reaches(e)
  <2>1. subs[g].held # NoEntry
    BY DEF SubWrite, IInv, RefInv, Holds
  <2>2. QED BY <1>1, <2>1, HeldTyped DEF Types, IInv, RefInv
<1>7. \A i \in Instances, n \in Names : Reaches(instances[i].entries[n])
  BY DEF IInv, RefInv
<1>8. /\ instances' \in [Instances -> Instance] /\ SameMakes
      /\ \A i \in Instances, n \in Names : Reaches(instances'[i].entries[n])
      /\ EntryFor(g) # NoEntry /\ EntryFor(g).sub = e.sub => SameEntries
  BY <1>1, <1>2, <1>5, <1>6, <1>7, RequestFacts DEF Types, SubWrite
<1>9. /\ raced' = (raced \/ EntryFor(g) # e)
      /\ subs' = [subs EXCEPT ![g].pc = "monitor", ![g].held = NoEntry]
  BY <1>6 DEF SubWrite
<1>10. raced' \in BOOLEAN /\ (raced => raced')
  BY <1>1, <1>9 DEF Types, EquipmentTypes
<1>11. ~raced' => SameEntries
  BY <1>8, <1>9, Sentinels
<1>12. Reaches(NoEntry) /\ NoEntry \in Entry \cup {NoEntry} /\ "monitor" \in SubPcs
  BY DEF Reaches, SubPcs
<1>13. QED
  BY <1>2, <1>3, <1>4, <1>8, <1>9, <1>10, <1>11, <1>12, SubMoveIInv

LEMMA SubMonitorIInv == ASSUME IInv, NEW g \in Subs, SubMonitor(g) PROVE IInv'
<1>1. Types
  BY TypesAreTypeOK DEF IInv
<1>2. subs[g] # IdleSub
  BY DEF SubMonitor, IdleSub
<1>3. RestStays /\ raced' = raced /\ races' = races
  BY DEF SubMonitor, RestStays, notSub
<1>4. failures' \in 0..MaxFaults
  BY <1>1, FailureTyped, FailuresKept DEF SubMonitor
<1>5. CASE SubGoto(g, "listen") /\ UNCHANGED instances
  BY <1>2, <1>3, <1>4, <1>5, SubGotoIInv DEF SubPcs
<1>6. CASE SubDone(g)
  BY <1>2, <1>3, <1>4, <1>6, SubDoneIInv
<1>7. QED BY <1>5, <1>6 DEF SubMonitor

LEMMA SubStopIInv == ASSUME IInv, NEW g \in Subs, SubStop(g) PROVE IInv'
<1>1. Types
  BY TypesAreTypeOK DEF IInv
<1>2. subs[g] # IdleSub /\ SubDone(g)
  BY DEF SubStop, IdleSub
<1>3. RestStays /\ raced' = raced /\ races' = races
  BY DEF SubStop, RestStays, notSub
<1>4. failures' \in 0..MaxFaults
  BY <1>1, FailuresKept DEF SubStop
<1>5. QED BY <1>2, <1>3, <1>4, SubDoneIInv

LEMMA SubIInv == ASSUME IInv, NEW g \in Subs, SubNext(g) PROVE IInv'
BY SubConnectIInv, SubRequestIInv, SubReadIInv, SubWriteIInv, SubMonitorIInv,
   SubStopIInv DEF SubNext

-----------------------------------------------------------------------------
LEMMA StutterIInv == ASSUME IInv, UNCHANGED vars PROVE IInv'
<1>1. UNCHANGED <<kind, devices, deviceSeen, left, equipment, devVars, driver,
                  driverSeen, drvVars, bounds>>
  BY DEF vars, objects, caches
<1>2. Types
  BY TypesAreTypeOK DEF IInv
<1>3. Types'
  <2>1. BoundTypes'
    BY <1>1, <1>2, BoundsFrame
  <2>2. ObjectTypes'
    BY <1>1, <1>2 DEF Types, ObjectTypes
  <2>3. EquipmentTypes' /\ DrvTypes' /\ DevTypes'
    BY <1>1, <1>2, DevTypesFrame DEF Types, EquipmentTypes, DrvTypes, equipment,
                                     drvVars
  <2>4. QED BY <2>1, <2>2, <2>3 DEF Types
<1>4. SameMakes
  BY <1>1 DEF SameMakes, equipment
<1>5. UsedInv'
  BY <1>1, <1>2, <1>4, UsedKept DEF IInv, equipment, drvVars, bounds
<1>6. WorkInv'
  BY <1>1 DEF IInv, WorkInv, Used, equipment, drvVars, devVars
<1>7. QED BY <1>1, <1>3, <1>5, <1>6, DriverSideIInv

LEMMA NextIInv == ASSUME IInv, [Next]_vars PROVE IInv'
<1>1. CASE EnvNext
  BY <1>1, EditDriverIInv, ObserveDriverIInv, CrashIInv, EditDeviceIInv,
     ObserveDeviceIInv DEF EnvNext
<1>2. CASE DrvNext
  BY <1>2, DrvIInv
<1>3. CASE DevNext
  BY <1>3, DevIInv
<1>4. CASE \E d \in Devices : DevBegin(d)
  BY <1>4, DevBeginIInv
<1>5. CASE \E g \in Subs : SubNext(g)
  BY <1>5, SubIInv
<1>6. CASE UNCHANGED vars
  BY <1>6, StutterIInv
<1>7. QED BY <1>1, <1>2, <1>3, <1>4, <1>5, <1>6 DEF Next

LEMMA IInvAlways == Spec => []IInv
BY InitIInv, NextIInv, PTL DEF Spec

\* Whatever users, failures, panics and restarts do, both controllers and the
\* goroutines work on objects and instances of their types; there is a place
\* for every instance that InstallDriver makes, and no cancelFunc of an entry
\* reaches a goroutine that has ended.
THEOREM TypeCorrect == Spec => []TypeOK
<1>1. IInv => TypeOK
  BY DEF IInv
<1>2. QED BY <1>1, IInvAlways, PTL

\* Unless an unlocked write of toRequest undid a change, no sequence of adding,
\* changing and removing Devices and of replacing their Driver leaves two live
\* goroutines for a name in the installed driver, or one that its entry cannot
\* stop, and every entry of an OPC-UA driver is that of a Device with its name,
\* or of a name that an edit took from a Device.
THEOREM OneSubscriptionAlways == Spec => []OneSubscription
<1>1. IInv => OneSubscription
  <2> SUFFICES ASSUME IInv, ~raced PROVE OneSubscription
    BY DEF OneSubscription
  <2>1. SubInv /\ EntryInv
    BY DEF IInv
  <2>2. \A g \in Subs : Live(g) => EntryFor(g) # NoEntry /\ EntryFor(g).sub = g
    BY <2>1 DEF SubInv, EntryFor
  <2>3. ASSUME kind = "opcua", installed # 0, NEW n \in Names,
               instances[installed].entries[n] # NoEntry
        PROVE  \/ n \in left
               \/ \E d \in Devices :
                    /\ devices[d] # NoObject
                    /\ devices[d].spec.ours /\ devices[d].spec.name = n
    BY <2>1, <2>3 DEF EntryInv, Owned, Owns, Kept
  <2>4. QED BY <2>2, <2>3 DEF OneSubscription
<1>2. QED BY <1>1, IInvAlways, PTL

=============================================================================
