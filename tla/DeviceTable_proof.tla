-------------------------- MODULE DeviceTable_proof --------------------------
(***************************************************************************)
(* Proofs about DeviceTable for any number of platform devices and user    *)
(* threads, any size of the table, any number of module loads and probes,  *)
(* and with every kernel service allowed to fail at every probe.           *)
(*                                                                         *)
(* What the table and the clean-up after rmmod promise holds with devices  *)
(* unbound through sysfs at any time (Hotplug) too.  What the class and    *)
(* the ioctls promise does not, as the run device_rebind shows, and is     *)
(* proved for a module whose devices stay bound until it is unloaded.      *)
(***************************************************************************)
EXTENDS DeviceTable, FiniteSetTheorems, TLAPS

-----------------------------------------------------------------------------
(* The inductive invariant                                                 *)

Occupied == {i \in Indices : DEVICES[i] # NULL}

\* Probed, and not yet taken from the table by dma_proxy_remove.
Listed(p) == bound[p] \in {"yes", "released"}

\* The table holds the current structure of every listed device and nothing
\* else, and the count is the number of its entries.
SlotInv ==
  /\ DEVICE_COUNT = Cardinality(Occupied)
  /\ \A p \in Pdevs : Listed(p) => DEVICES[Index[p]] = <<p, probes[p]>>
  /\ \A i \in Occupied : \E p \in Pdevs : Index[p] = i /\ Listed(p)
  /\ loaded = "no" => \A p \in Pdevs : bound[p] = "no"

\* Only listed devices have a character device or a node, or are known to
\* lack them; one that is about to be removed still has its character device
\* unless its own device_create failed.
NodeInv ==
  /\ RegisteredIsUsable /\ DeletedOnce
  /\ \A p \in cdevs \cup nodes \cup nodeless : Listed(p)
  /\ \A p \in Pdevs : Listed(p) => p \in cdevs \cup nodeless

\* Between two loads of the module one class is created at most, the global
\* keeps pointing to it, and it is there only while a device is listed.
ClassInv ==
  /\ classes \subseteq {PROXY_GLOBAL_CLASS}
  /\ PROXY_GLOBAL_CLASS = 0 \/ DEVICE_COUNT = 0 => classes = {}
  /\ \A p \in Pdevs : Listed(p) => class_p[p] = PROXY_GLOBAL_CLASS /\ PROXY_GLOBAL_CLASS # 0

IInv == TypeOK /\ SlotInv /\ NodeInv /\ ClassInv

\* Without Hotplug removal and probing never overlap, so that the global never
\* points to a class that is gone while devices can still be probed, and an
\* ioctl, which needs an open file, keeps the devices where they are.
PhaseInv ==
  /\ loaded = "yes" => \A p \in Pdevs : bound[p] \in {"no", "yes"}
  /\ \A u \in Users : /\ file[u] => loaded = "yes"
                      /\ ptr[u] # NULL => file[u]

LiveClassInv ==
  failed = {} =>
    /\ ~badClass
    /\ loaded = "yes" /\ PROXY_GLOBAL_CLASS # 0 => PROXY_GLOBAL_CLASS \in classes
    /\ DEVICE_COUNT > 0 => PROXY_GLOBAL_CLASS \in classes

FixedInv == PhaseInv /\ LiveClassInv /\ IoctlDeviceExists

-----------------------------------------------------------------------------
(* The table                                                               *)

\* The table is finite, so its entries can be counted.
LEMMA OccupiedFinite ==
  IsFiniteSet(Occupied) /\ Cardinality(Occupied) \in Nat
<1>1. IsFiniteSet(Indices)
  BY TableAssumption, FS_Interval DEF Indices
<1>2. Occupied \in SUBSET Indices
  BY DEF Occupied
<1>3. IsFiniteSet(Occupied)
  BY <1>1, <1>2, FS_Subset
<1> QED
  BY <1>3, FS_CardinalityType

\* A structure is never NULL.
LEMMA StructNotNull ==
  ASSUME NEW p \in Pdevs, NEW k \in Nat
  PROVE  <<p, k>> \in Structs /\ <<p, k>> # NULL
BY TableAssumption DEF Structs

\* The slot of a device is occupied exactly while the device is listed.
LEMMA SlotOccupied ==
  ASSUME TypeOK, SlotInv, NEW p \in Pdevs
  PROVE  Index[p] \in Indices /\ (Index[p] \in Occupied <=> Listed(p))
<1>1. Index[p] \in Indices
  BY TableAssumption DEF Indices
<1>2. ASSUME Listed(p) PROVE Index[p] \in Occupied
  <2>1. DEVICES[Index[p]] = <<p, probes[p]>> /\ probes[p] \in Nat
    BY <1>2 DEF SlotInv, TypeOK
  <2>2. DEVICES[Index[p]] # NULL
    BY <2>1, StructNotNull
  <2> QED
    BY <1>1, <2>2 DEF Occupied
<1>3. ASSUME Index[p] \in Occupied PROVE Listed(p)
  <2>1. PICK q \in Pdevs : Index[q] = Index[p] /\ Listed(q)
    BY <1>3 DEF SlotInv
  <2>2. q = p
    BY <2>1, TableAssumption
  <2> QED
    BY <2>1, <2>2
<1> QED
  BY <1>1, <1>2, <1>3

\* "Globally register the device" fills an empty slot and counts it.
LEMMA RegisterSlot ==
  ASSUME TypeOK, SlotInv, NEW p \in Pdevs, ProbeStart(p), Register(p), UNCHANGED loaded
  PROVE  /\ SlotInv'
         /\ DEVICES' \in [Indices -> Structs \cup {NULL}]
         /\ DEVICE_COUNT' \in Nat /\ DEVICE_COUNT' > 0
         /\ \A i \in Occupied : DEVICES'[i] = DEVICES[i]
<1>1. bound[p] = "no" /\ loaded = "yes" /\ ~Listed(p)
  BY DEF ProbeStart, Listed
<1>2. Index[p] \in Indices /\ Index[p] \notin Occupied
  BY <1>1, SlotOccupied
<1>3. Struct(p) \in Structs /\ Struct(p) # NULL
  BY StructNotNull DEF TypeOK, Struct
<1>4. /\ DEVICES \in [Indices -> Structs \cup {NULL}]
      /\ DEVICES' = [DEVICES EXCEPT ![Index[p]] = Struct(p)]
  BY DEF TypeOK, Register
<1>5. Occupied' = Occupied \cup {Index[p]}
  BY <1>2, <1>3, <1>4 DEF Occupied
<1>6. Cardinality(Occupied') = Cardinality(Occupied) + 1
  BY <1>2, <1>5, OccupiedFinite, FS_AddElement
<1>7. DEVICE_COUNT' = Cardinality(Occupied') /\ DEVICE_COUNT' \in Nat /\ DEVICE_COUNT' > 0
  BY <1>6, OccupiedFinite DEF SlotInv, Register
<1>8. /\ bound' = [bound EXCEPT ![p] = "yes"] /\ bound \in [Pdevs -> {"no", "yes", "released", "unlisted"}]
      /\ probes' = [probes EXCEPT ![p] = probes[p] + 1] /\ probes \in [Pdevs -> Nat]
  BY DEF TypeOK, Register, ProbeStart
<1>9. ASSUME NEW q \in Pdevs, Listed(q)' PROVE DEVICES'[Index[q]] = <<q, probes'[q]>>
  <2>1. CASE q = p
    BY <2>1, <1>2, <1>4, <1>8 DEF Struct
  <2>2. CASE q # p
    <3>1. Index[q] # Index[p] /\ Index[q] \in Indices
      BY <2>2, TableAssumption DEF Indices
    <3>2. Listed(q)
      BY <1>8, <1>9, <2>2 DEF Listed
    <3>3. DEVICES[Index[q]] = <<q, probes[q]>>
      BY <3>2 DEF SlotInv
    <3> QED
      BY <1>4, <1>8, <2>2, <3>1, <3>3
  <2> QED
    BY <2>1, <2>2
<1>10. ASSUME NEW i \in Occupied' PROVE \E q \in Pdevs : Index[q] = i /\ Listed(q)'
  <2>1. CASE i = Index[p]
    BY <1>8, <2>1 DEF Listed
  <2>2. CASE i \in Occupied
    <3>1. PICK q \in Pdevs : Index[q] = i /\ Listed(q)
      BY <2>2 DEF SlotInv
    <3> QED
      BY <1>8, <3>1 DEF Listed
  <2> QED
    BY <1>5, <1>10, <2>1, <2>2
<1>11. SlotInv'
  BY <1>1, <1>7, <1>9, <1>10 DEF SlotInv
<1>12. \A i \in Occupied : DEVICES'[i] = DEVICES[i]
  BY <1>2, <1>4 DEF Occupied
<1> QED
  BY <1>3, <1>4, <1>7, <1>11, <1>12

\* The middle part of dma_proxy_remove empties the slot of a listed device.
LEMMA RemoveSlot ==
  ASSUME TypeOK, SlotInv, NEW p \in Pdevs, RemoveFromTable(p)
  PROVE  /\ SlotInv'
         /\ DEVICES' \in [Indices -> Structs \cup {NULL}]
         /\ DEVICE_COUNT' \in Nat /\ DEVICE_COUNT' = DEVICE_COUNT - 1
         /\ DEVICE_COUNT = 1 => Occupied' = {}
<1>1. bound[p] = "released" /\ Listed(p)
  BY DEF RemoveFromTable, Listed
<1>2. Index[p] \in Indices /\ Index[p] \in Occupied
  BY <1>1, SlotOccupied
<1>3. /\ DEVICES \in [Indices -> Structs \cup {NULL}]
      /\ DEVICES' = [DEVICES EXCEPT ![Index[p]] = NULL]
  BY DEF TypeOK, RemoveFromTable
<1>4. Occupied' = Occupied \ {Index[p]}
  BY <1>2, <1>3 DEF Occupied
<1>5. /\ IsFiniteSet(Occupied') /\ Cardinality(Occupied') \in Nat
      /\ Cardinality(Occupied') = Cardinality(Occupied) - 1
  BY <1>2, <1>4, OccupiedFinite, FS_RemoveElement, FS_CardinalityType
<1>6. DEVICE_COUNT' = DEVICE_COUNT - 1 /\ DEVICE_COUNT = Cardinality(Occupied)
  BY DEF SlotInv, RemoveFromTable
<1>7. DEVICE_COUNT' = Cardinality(Occupied') /\ DEVICE_COUNT' \in Nat
  BY <1>5, <1>6
<1>8. DEVICE_COUNT = 1 => Cardinality(Occupied') = 0
  BY <1>5, <1>6
<1>9. DEVICE_COUNT = 1 => Occupied' = {}
  BY <1>5, <1>8, FS_EmptySet
<1>10. /\ bound' = [bound EXCEPT ![p] = "unlisted"] /\ bound \in [Pdevs -> {"no", "yes", "released", "unlisted"}]
       /\ UNCHANGED <<probes, loaded>>
  BY DEF TypeOK, RemoveFromTable
<1>11. ASSUME NEW q \in Pdevs, Listed(q)' PROVE DEVICES'[Index[q]] = <<q, probes'[q]>>
  <2>1. q # p /\ Listed(q)
    BY <1>10, <1>11 DEF Listed
  <2>2. Index[q] # Index[p] /\ Index[q] \in Indices
    BY <2>1, TableAssumption DEF Indices
  <2>3. DEVICES[Index[q]] = <<q, probes[q]>>
    BY <2>1 DEF SlotInv
  <2> QED
    BY <1>3, <1>10, <2>2, <2>3
<1>12. ASSUME NEW i \in Occupied' PROVE \E q \in Pdevs : Index[q] = i /\ Listed(q)'
  <2>1. PICK q \in Pdevs : Index[q] = i /\ Listed(q)
    BY <1>4, <1>12 DEF SlotInv
  <2>2. q # p
    BY <1>4, <1>12, <2>1
  <2> QED
    BY <1>10, <2>1, <2>2 DEF Listed
<1>13. loaded' # "no"
  BY <1>1, <1>10 DEF SlotInv
<1>14. SlotInv'
  BY <1>7, <1>11, <1>12, <1>13 DEF SlotInv
<1> QED
  BY <1>3, <1>6, <1>7, <1>9, <1>14

\* Steps that leave the table alone leave what is said about it alone, as
\* long as a device that is probed again was not listed.
LEMMA SlotUnchanged ==
  ASSUME TypeOK, SlotInv, UNCHANGED <<DEVICES, DEVICE_COUNT>>,
         \A p \in Pdevs : Listed(p)' <=> Listed(p),
         \A p \in Pdevs : Listed(p) => probes'[p] = probes[p],
         loaded' = "no" => \A p \in Pdevs : bound'[p] = "no"
  PROVE  SlotInv'
<1>1. Occupied' = Occupied
  BY DEF Occupied
<1> QED
  BY <1>1 DEF SlotInv

-----------------------------------------------------------------------------
(* Each action preserves the invariant                                     *)

LEMMA InvInit == Init => IInv
<1> SUFFICES ASSUME Init PROVE IInv
  OBVIOUS
<1>1. TypeOK
  <2>1. /\ classes \subseteq Int /\ cdevs \subseteq Pdevs /\ nodes \subseteq Pdevs
        /\ nodeless \subseteq Pdevs /\ chans \subseteq Pdevs \X {"tx", "rx"} /\ failed \subseteq FaultKinds
    BY DEF Init
  <2>2. DEVICE_COUNT \in Nat /\ PROXY_GLOBAL_CLASS \in Int /\ nclass \in Nat
    BY DEF Init
  <2>3. probes \in [Pdevs -> Nat] /\ class_p \in [Pdevs -> Int]
    BY DEF Init
  <2>4. DEVICES \in [Indices -> Structs \cup {NULL}] /\ ptr \in [Users -> Structs \cup {NULL}]
    BY DEF Init
  <2>5. file \in [Users -> BOOLEAN] /\ badClass \in BOOLEAN /\ badCdev \in BOOLEAN
    BY DEF Init
  <2>6. bound \in [Pdevs -> {"no", "yes", "released", "unlisted"}]
    BY DEF Init
  <2> QED
    BY <2>1, <2>2, <2>3, <2>4, <2>5, <2>6 DEF Init, TypeOK
<1>2. Occupied = {} /\ \A p \in Pdevs : ~Listed(p)
  BY DEF Init, Occupied, Listed
<1>3. Cardinality(Occupied) = 0
  BY <1>2, FS_EmptySet
<1>4. SlotInv
  BY <1>2, <1>3 DEF Init, SlotInv
<1>5. NodeInv
  BY <1>2 DEF Init, NodeInv, RegisteredIsUsable, DeletedOnce
<1>6. ClassInv
  BY <1>2 DEF Init, ClassInv
<1> QED
  BY <1>1, <1>4, <1>5, <1>6 DEF IInv

\* insmod finds no device bound and no class, so it may clear the table.
LEMMA ModuleInitInv ==
  ASSUME IInv, ModuleInit
  PROVE  IInv'
<1>1. \A p \in Pdevs : bound[p] = "no" /\ ~Listed(p) /\ ~Listed(p)'
  BY DEF IInv, SlotInv, ModuleInit, Listed
<1>2. Occupied = {}
  BY <1>1 DEF IInv, SlotInv
<1>3. DEVICE_COUNT = 0
  BY <1>2, FS_EmptySet DEF IInv, SlotInv
<1>4. classes = {} /\ cdevs \cup nodes \cup nodeless = {}
  BY <1>1, <1>3 DEF IInv, ClassInv, NodeInv, TypeOK
<1>5. Occupied' = {}
  BY DEF ModuleInit, Occupied
<1>6. Cardinality(Occupied') = 0
  BY <1>5, FS_EmptySet
<1>7. TypeOK'
  BY DEF IInv, TypeOK, ModuleInit, objects, users
<1>8. SlotInv'
  BY <1>1, <1>5, <1>6 DEF SlotInv, ModuleInit
<1>9. NodeInv'
  BY <1>1, <1>4 DEF IInv, NodeInv, RegisteredIsUsable, DeletedOnce, ModuleInit, objects, Listed
<1>10. ClassInv'
  BY <1>1, <1>4 DEF ClassInv, ModuleInit, objects
<1> QED
  BY <1>7, <1>8, <1>9, <1>10 DEF IInv

LEMMA ModuleExitInv ==
  ASSUME IInv, ModuleExit \/ ModuleExited
  PROVE  IInv'
<1>1. UNCHANGED <<globals, objects, perDev, users>> /\ loaded' \in {"exiting", "no"}
  BY DEF ModuleExit, ModuleExited
<1>2. loaded' = "no" => \A p \in Pdevs : bound[p] = "no"
  BY DEF ModuleExit, ModuleExited
<1>3. SlotInv'
  BY <1>1, <1>2, SlotUnchanged DEF IInv, Listed, globals, perDev
<1> QED
  BY <1>1, <1>3 DEF IInv, TypeOK, NodeInv, ClassInv, RegisteredIsUsable, DeletedOnce, Listed,
     globals, objects, perDev, users

\* A probe that fails before it registers the device.
LEMMA ProbeFailsInv ==
  ASSUME IInv, NEW p \in Pdevs, ProbeNoChannels(p) \/ ProbeNoCdev(p) \/ ProbeNoClass(p)
  PROVE  IInv'
<1>1. /\ ProbeStart(p)
      /\ UNCHANGED <<loaded, DEVICES, DEVICE_COUNT, classes, nclass, cdevs, nodes,
                     nodeless, badClass, badCdev, bound, class_p, users>>
      /\ chans' \in {chans, chans \cup {<<p, "tx">>}, chans \cup {<<p, "tx">>, <<p, "rx">>}}
      /\ failed' \in {failed, failed \cup {"class"}}
      /\ \/ UNCHANGED PROXY_GLOBAL_CLASS
         \/ PROXY_GLOBAL_CLASS = 0 /\ PROXY_GLOBAL_CLASS' = ERR_PTR
  BY DEF ProbeNoChannels, ProbeNoCdev, ProbeNoClass, GotChannels, globals
<1>2. bound[p] = "no" /\ ~Listed(p) /\ loaded = "yes"
  BY <1>1 DEF ProbeStart, Listed
<1>3. /\ probes' = [probes EXCEPT ![p] = probes[p] + 1] /\ probes \in [Pdevs -> Nat]
      /\ \A q \in Pdevs : Listed(q)' <=> Listed(q)
      /\ \A q \in Pdevs : bound[q] = "yes" => probes'[q] = probes[q]
      /\ \A q \in Pdevs : Listed(q) => probes'[q] = probes[q]
  BY <1>1, <1>2 DEF ProbeStart, IInv, TypeOK, Listed
<1>4. SlotInv'
  BY <1>1, <1>2, <1>3, SlotUnchanged DEF IInv
<1>5. TypeOK'
  <2>1. /\ chans' \subseteq Pdevs \X {"tx", "rx"}
        /\ probes' \in [Pdevs -> Nat] /\ PROXY_GLOBAL_CLASS' \in Int
        /\ failed' \subseteq FaultKinds
    BY <1>1, <1>3 DEF IInv, TypeOK, ERR_PTR, FaultKinds
  <2> QED
    BY <1>1, <2>1 DEF IInv, TypeOK, users
<1>6. NodeInv'
  <2>1. /\ \A q \in cdevs' \cup nodes' \cup nodeless' : Listed(q)'
        /\ \A q \in Pdevs : Listed(q)' => q \in cdevs' \cup nodeless'
    BY <1>1, <1>3 DEF IInv, NodeInv, TypeOK
  <2>2. chans \subseteq chans' /\ failed \subseteq failed'
    BY <1>1
  <2>3. RegisteredIsUsable'
    BY <1>1, <1>3, <2>2 DEF IInv, NodeInv, RegisteredIsUsable
  <2>4. DeletedOnce'
    BY <1>1, <2>2 DEF IInv, NodeInv, DeletedOnce
  <2> QED
    BY <2>1, <2>3, <2>4 DEF NodeInv
<1>7. ClassInv'
  <2>1. CASE UNCHANGED PROXY_GLOBAL_CLASS
    BY <1>1, <1>3, <2>1 DEF IInv, ClassInv
  <2>2. CASE PROXY_GLOBAL_CLASS = 0 /\ PROXY_GLOBAL_CLASS' = ERR_PTR
    BY <1>1, <1>3, <2>2 DEF IInv, ClassInv, ERR_PTR
  <2> QED
    BY <1>1, <2>1, <2>2
<1> QED
  BY <1>4, <1>5, <1>6, <1>7 DEF IInv

\* The class a device is created under is the one that all listed devices
\* are under, and the only one there may be.
LEMMA UseClassInv ==
  ASSUME IInv, NEW p \in Pdevs, UseClass(p)
  PROVE  /\ PROXY_GLOBAL_CLASS' \in Int /\ PROXY_GLOBAL_CLASS' # 0
         /\ nclass' \in Nat /\ badClass' \in BOOLEAN
         /\ class_p' = [class_p EXCEPT ![p] = PROXY_GLOBAL_CLASS']
         /\ class_p' \in [Pdevs -> Int]
         /\ classes \cup NewClass \subseteq {PROXY_GLOBAL_CLASS'}
         /\ \A q \in Pdevs : Listed(q) => class_p[q] = PROXY_GLOBAL_CLASS'
<1>1. /\ PROXY_GLOBAL_CLASS \in Int /\ nclass \in Nat
      /\ class_p \in [Pdevs -> Int]
  BY DEF IInv, TypeOK
<1>2. class_p' = [class_p EXCEPT ![p] = PROXY_GLOBAL_CLASS'] /\ badClass' \in BOOLEAN
  BY DEF UseClass
<1>3. CASE PROXY_GLOBAL_CLASS = 0
  <2>1. NewClass = {nclass + 1} /\ classes = {} /\ \A q \in Pdevs : ~Listed(q)
    BY <1>3 DEF NewClass, IInv, ClassInv
  <2>2. PROXY_GLOBAL_CLASS' = nclass + 1 /\ nclass' = nclass + 1
    BY <2>1 DEF UseClass
  <2> QED
    BY <1>1, <1>2, <2>1, <2>2
<1>4. CASE PROXY_GLOBAL_CLASS # 0
  <2>1. NewClass = {}
    BY <1>4 DEF NewClass
  <2>2. PROXY_GLOBAL_CLASS' = PROXY_GLOBAL_CLASS /\ nclass' = nclass
    BY <2>1 DEF UseClass
  <2>3. /\ classes \subseteq {PROXY_GLOBAL_CLASS}
        /\ \A q \in Pdevs : Listed(q) => class_p[q] = PROXY_GLOBAL_CLASS
    BY DEF IInv, ClassInv
  <2> QED
    BY <1>1, <1>2, <1>4, <2>1, <2>2, <2>3
<1> QED
  BY <1>3, <1>4

\* A probe that registers the device, with or without its node.
LEMMA ProbeRegistersInv ==
  ASSUME IInv, NEW p \in Pdevs, ProbeSucceeds(p) \/ ProbeNoDevice(p)
  PROVE  IInv'
<1>1. /\ ProbeStart(p) /\ GotChannels(p) /\ UseClass(p) /\ Register(p)
      /\ UNCHANGED <<loaded, users>>
      /\ classes' \subseteq classes \cup NewClass
  BY DEF ProbeSucceeds, ProbeNoDevice
<1>2. /\ \/ /\ cdevs' = cdevs \cup {p} /\ nodes' = nodes \cup {p}
            /\ nodeless' = nodeless /\ failed' = failed
         \/ /\ cdevs' = cdevs /\ nodes' = nodes
            /\ nodeless' = nodeless \cup {p} /\ failed' = failed \cup {"device"}
      /\ badCdev' = badCdev
  BY DEF ProbeSucceeds, ProbeNoDevice
<1>3. /\ SlotInv'
      /\ DEVICES' \in [Indices -> Structs \cup {NULL}]
      /\ DEVICE_COUNT' \in Nat /\ DEVICE_COUNT' > 0
  BY <1>1, RegisterSlot DEF IInv
<1>4. /\ PROXY_GLOBAL_CLASS' \in Int /\ PROXY_GLOBAL_CLASS' # 0
      /\ nclass' \in Nat /\ badClass' \in BOOLEAN
      /\ class_p' = [class_p EXCEPT ![p] = PROXY_GLOBAL_CLASS']
      /\ class_p' \in [Pdevs -> Int]
      /\ classes \cup NewClass \subseteq {PROXY_GLOBAL_CLASS'}
      /\ \A q \in Pdevs : Listed(q) => class_p[q] = PROXY_GLOBAL_CLASS'
  BY <1>1, UseClassInv
<1>5. /\ bound' = [bound EXCEPT ![p] = "yes"]
      /\ bound \in [Pdevs -> {"no", "yes", "released", "unlisted"}]
      /\ probes' = [probes EXCEPT ![p] = probes[p] + 1] /\ probes \in [Pdevs -> Nat]
      /\ chans' = chans \cup {<<p, "tx">>, <<p, "rx">>}
      /\ \A q \in Pdevs : Listed(q)' <=> q = p \/ Listed(q)
      /\ \A q \in Pdevs : bound'[q] = "yes" => q = p \/ bound[q] = "yes"
  BY <1>1 DEF Register, ProbeStart, GotChannels, IInv, TypeOK, Listed
<1>6. TypeOK'
  <2>1. /\ cdevs' \subseteq Pdevs /\ nodes' \subseteq Pdevs /\ nodeless' \subseteq Pdevs
        /\ badCdev' \in BOOLEAN /\ failed' \subseteq FaultKinds
    BY <1>2 DEF IInv, TypeOK, FaultKinds
  <2>2. classes' \subseteq Int
    BY <1>1, <1>4
  <2>3. /\ chans' \subseteq Pdevs \X {"tx", "rx"}
        /\ bound' \in [Pdevs -> {"no", "yes", "released", "unlisted"}]
        /\ probes' \in [Pdevs -> Nat]
    BY <1>5 DEF IInv, TypeOK
  <2> QED
    BY <1>1, <1>3, <1>4, <2>1, <2>2, <2>3 DEF IInv, TypeOK, users
<1>7. NodeInv'
  <2>1. ASSUME NEW q \in cdevs' \cup nodes' \cup nodeless' PROVE Listed(q)'
    BY <1>2, <1>5, <2>1 DEF IInv, NodeInv, TypeOK
  <2>2. ASSUME NEW q \in Pdevs, bound'[q] = "yes"
        PROVE  /\ DEVICES'[Index[q]] = <<q, probes'[q]>>
               /\ {<<q, "tx">>, <<q, "rx">>} \subseteq chans'
               /\ q \notin nodeless' => q \in cdevs' /\ q \in nodes'
    <3>1. DEVICES'[Index[q]] = <<q, probes'[q]>>
      BY <1>3, <2>2 DEF SlotInv, Listed
    <3>2. CASE q = p
      BY <1>2, <1>5, <3>1, <3>2
    <3>3. CASE q # p
      <4>1. bound[q] = "yes"
        BY <1>5, <2>2, <3>3
      <4> QED
        BY <1>2, <1>5, <3>1, <4>1 DEF IInv, NodeInv, RegisteredIsUsable
    <3> QED
      BY <3>2, <3>3
  <2>3. \A q \in Pdevs : Listed(q)' => q \in cdevs' \cup nodeless'
    BY <1>2, <1>5 DEF IInv, NodeInv
  <2>4. DeletedOnce'
    BY <1>2 DEF IInv, NodeInv, DeletedOnce
  <2> QED
    BY <2>1, <2>2, <2>3, <2>4 DEF NodeInv, RegisteredIsUsable
<1>8. ClassInv'
  <2>1. \A q \in Pdevs : Listed(q)' => class_p'[q] = PROXY_GLOBAL_CLASS'
    BY <1>4, <1>5 DEF IInv, TypeOK
  <2> QED
    BY <1>1, <1>3, <1>4, <2>1 DEF ClassInv
<1> QED
  BY <1>3, <1>6, <1>7, <1>8 DEF IInv

\* The first and the last part of dma_proxy_remove do not touch the table.
LEMMA RemoveOutsideInv ==
  ASSUME IInv, NEW p \in Pdevs, RemoveChannels(p) \/ RemoveFree(p)
  PROVE  IInv'
<1>1. /\ UNCHANGED <<loaded, globals, classes, nclass, cdevs, nodes, nodeless, failed,
                     badClass, badCdev, probes, class_p, users>>
      /\ chans' \in {chans, chans \ {<<p, "tx">>, <<p, "rx">>}}
  BY DEF RemoveChannels, RemoveFree, objects
<1>2. /\ bound \in [Pdevs -> {"no", "yes", "released", "unlisted"}]
      /\ \/ bound[p] = "yes" /\ bound' = [bound EXCEPT ![p] = "released"]
         \/ bound[p] = "unlisted" /\ bound' = [bound EXCEPT ![p] = "no"]
  BY DEF RemoveChannels, RemoveFree, IInv, TypeOK
<1>3. /\ \A q \in Pdevs : Listed(q)' <=> Listed(q)
      /\ \A q \in Pdevs : bound'[q] = "yes" => q # p /\ bound[q] = "yes"
  BY <1>2 DEF Listed
<1>4. loaded' # "no"
  BY <1>1, <1>2 DEF IInv, SlotInv
<1>5. SlotInv'
  BY <1>1, <1>3, <1>4, SlotUnchanged DEF IInv, globals
<1>6. TypeOK'
  <2>1. chans' \subseteq Pdevs \X {"tx", "rx"}
    BY <1>1 DEF IInv, TypeOK
  <2>2. bound' \in [Pdevs -> {"no", "yes", "released", "unlisted"}]
    BY <1>2
  <2> QED
    BY <1>1, <2>1, <2>2 DEF IInv, TypeOK, globals, users
<1>7. NodeInv'
  <2>1. /\ \A q \in cdevs' \cup nodes' \cup nodeless' : Listed(q)'
        /\ \A q \in Pdevs : Listed(q)' => q \in cdevs' \cup nodeless'
    BY <1>1, <1>3 DEF IInv, NodeInv, TypeOK
  <2>2. ASSUME NEW q \in Pdevs, bound'[q] = "yes"
        PROVE  /\ DEVICES'[Index[q]] = <<q, probes'[q]>>
               /\ {<<q, "tx">>, <<q, "rx">>} \subseteq chans'
               /\ q \notin nodeless' => q \in cdevs' /\ q \in nodes'
    <3>1. /\ DEVICES[Index[q]] = <<q, probes[q]>>
          /\ {<<q, "tx">>, <<q, "rx">>} \subseteq chans
          /\ q \notin nodeless => q \in cdevs /\ q \in nodes
          /\ q # p
      BY <1>3, <2>2 DEF IInv, NodeInv, RegisteredIsUsable
    <3> QED
      BY <1>1, <3>1 DEF globals
  <2>3. DeletedOnce'
    BY <1>1 DEF IInv, NodeInv, DeletedOnce
  <2> QED
    BY <2>1, <2>2, <2>3 DEF NodeInv, RegisteredIsUsable
<1>8. ClassInv'
  BY <1>1, <1>3 DEF IInv, ClassInv, globals
<1> QED
  BY <1>5, <1>6, <1>7, <1>8 DEF IInv

\* The middle part: the last device takes the class with it.
LEMMA RemoveFromTableInv ==
  ASSUME IInv, NEW p \in Pdevs, RemoveFromTable(p)
  PROVE  IInv'
<1>1. /\ SlotInv'
      /\ DEVICES' \in [Indices -> Structs \cup {NULL}]
      /\ DEVICE_COUNT' \in Nat /\ DEVICE_COUNT' = DEVICE_COUNT - 1
  BY RemoveSlot DEF IInv
<1>2. /\ nodes' = nodes \ {p} /\ cdevs' = cdevs \ {p} /\ nodeless' = nodeless \ {p}
      /\ badCdev' = (badCdev \/ p \notin cdevs)
      /\ classes' = IF DEVICE_COUNT = 1 THEN classes \ {class_p[p]} ELSE classes
      /\ badClass' = (badClass \/ class_p[p] \notin classes)
      /\ bound[p] = "released" /\ bound' = [bound EXCEPT ![p] = "unlisted"]
      /\ UNCHANGED <<loaded, PROXY_GLOBAL_CLASS, nclass, chans, failed, probes, class_p, users>>
  BY DEF RemoveFromTable
<1>3. /\ bound \in [Pdevs -> {"no", "yes", "released", "unlisted"}]
      /\ DEVICE_COUNT \in Nat
  BY DEF IInv, TypeOK
<1>4. /\ \A q \in Pdevs : Listed(q)' <=> q # p /\ Listed(q)
      /\ \A q \in Pdevs : bound'[q] = "yes" => q # p /\ bound[q] = "yes"
  BY <1>2, <1>3 DEF Listed
<1>5. class_p[p] = PROXY_GLOBAL_CLASS
  BY <1>2 DEF IInv, ClassInv, Listed
<1>6. TypeOK'
  <2>1. /\ nodes' \subseteq Pdevs /\ cdevs' \subseteq Pdevs /\ nodeless' \subseteq Pdevs
        /\ classes' \subseteq Int
    BY <1>2 DEF IInv, TypeOK
  <2>2. /\ bound' \in [Pdevs -> {"no", "yes", "released", "unlisted"}]
        /\ badClass' \in BOOLEAN /\ badCdev' \in BOOLEAN
    BY <1>2, <1>3
  <2> QED
    BY <1>1, <1>2, <2>1, <2>2 DEF IInv, TypeOK, users
<1>7. NodeInv'
  <2>1. /\ \A q \in cdevs' \cup nodes' \cup nodeless' : Listed(q)'
        /\ \A q \in Pdevs : Listed(q)' => q \in cdevs' \cup nodeless'
    BY <1>2, <1>4 DEF IInv, NodeInv, TypeOK
  <2>2. ASSUME NEW q \in Pdevs, bound'[q] = "yes"
        PROVE  /\ DEVICES'[Index[q]] = <<q, probes'[q]>>
               /\ {<<q, "tx">>, <<q, "rx">>} \subseteq chans'
               /\ q \notin nodeless' => q \in cdevs' /\ q \in nodes'
    <3>1. /\ {<<q, "tx">>, <<q, "rx">>} \subseteq chans
          /\ q \notin nodeless => q \in cdevs /\ q \in nodes
          /\ q # p
      BY <1>4, <2>2 DEF IInv, NodeInv, RegisteredIsUsable
    <3>2. DEVICES'[Index[q]] = <<q, probes'[q]>>
      BY <1>1, <2>2 DEF SlotInv, Listed
    <3> QED
      BY <1>2, <3>1, <3>2
  <2>3. DeletedOnce'
    <3>1. p \in cdevs \cup nodeless
      BY <1>2 DEF IInv, NodeInv, Listed
    <3> QED
      BY <1>2, <3>1 DEF IInv, NodeInv, DeletedOnce
  <2> QED
    BY <2>1, <2>2, <2>3 DEF NodeInv, RegisteredIsUsable
<1>8. ClassInv'
  <2>1. classes' \subseteq {PROXY_GLOBAL_CLASS}
    BY <1>2 DEF IInv, ClassInv
  <2>2. PROXY_GLOBAL_CLASS = 0 => classes' = {}
    BY <1>2 DEF IInv, ClassInv
  <2>3. DEVICE_COUNT = 1 => classes' = {}
    BY <1>2, <1>5, <2>1
  <2>4. DEVICE_COUNT' = 0 => DEVICE_COUNT = 1
    BY <1>1, <1>3
  <2> QED
    BY <1>2, <1>4, <2>1, <2>2, <2>3, <2>4 DEF IInv, ClassInv
<1> QED
  BY <1>1, <1>6, <1>7, <1>8 DEF IInv

\* Users look at the table but change nothing in it.
LEMMA UserInv ==
  ASSUME IInv, NEW u \in Users, Open(u) \/ IoctlLookup(u) \/ IoctlReturn(u) \/ Close(u)
  PROVE  IInv'
<1>1. UNCHANGED <<loaded, globals, objects, perDev>>
  BY DEF Open, IoctlLookup, IoctlReturn, Close
<1>2. file' \in [Users -> BOOLEAN]
  BY DEF Open, IoctlLookup, IoctlReturn, Close, IInv, TypeOK
<1>3. ptr' \in [Users -> Structs \cup {NULL}]
  BY DEF Open, IoctlLookup, IoctlReturn, Close, IInv, TypeOK
<1>4. \A q \in Pdevs : Listed(q)' <=> Listed(q)
  BY <1>1 DEF Listed, perDev
<1>5. SlotInv'
  BY <1>1, <1>4, SlotUnchanged DEF IInv, SlotInv, globals, perDev
<1>6. TypeOK'
  BY <1>1, <1>2, <1>3 DEF IInv, TypeOK, globals, objects, perDev
<1>7. NodeInv' /\ ClassInv'
  BY <1>1 DEF IInv, NodeInv, ClassInv, RegisteredIsUsable, DeletedOnce, Listed, globals, objects, perDev
<1> QED
  BY <1>5, <1>6, <1>7 DEF IInv

LEMMA InvStep == IInv /\ [Next]_vars => IInv'
<1> SUFFICES ASSUME IInv, [Next]_vars PROVE IInv'
  OBVIOUS
<1>1. CASE ModuleInit
  BY <1>1, ModuleInitInv
<1>2. CASE ModuleExit \/ ModuleExited
  BY <1>2, ModuleExitInv
<1>3. ASSUME NEW p \in Pdevs, Probe(p) PROVE IInv'
  BY <1>3, ProbeFailsInv, ProbeRegistersInv DEF Probe
<1>4. ASSUME NEW p \in Pdevs, Remove(p) PROVE IInv'
  BY <1>4, RemoveOutsideInv, RemoveFromTableInv DEF Remove
<1>5. ASSUME NEW u \in Users, Open(u) \/ IoctlLookup(u) \/ IoctlReturn(u) \/ Close(u)
      PROVE  IInv'
  BY <1>5, UserInv
<1>6. CASE UNCHANGED vars
  <2>1. Occupied' = Occupied
    BY <1>6 DEF Occupied, vars, globals
  <2> QED
    BY <1>6, <2>1 DEF IInv, TypeOK, SlotInv, NodeInv, ClassInv, RegisteredIsUsable, DeletedOnce, Listed,
       vars, globals, objects, perDev, users
<1> QED
  BY <1>1, <1>2, <1>3, <1>4, <1>5, <1>6 DEF Next

LEMMA InvHolds == Spec => []IInv
BY InvInit, InvStep, PTL DEF Spec

-----------------------------------------------------------------------------
(* Theorems for every module, with and without Hotplug                     *)

\* DEVICE_COUNT is never decremented below zero (cdevice_exit), and every
\* variable keeps its type.
THEOREM TypeCorrect == Spec => []TypeOK
<1>1. IInv => TypeOK
  BY DEF IInv
<1> QED
  BY <1>1, InvHolds, PTL

\* DEVICE_COUNT is the number of entries of DEVICES, and every registered
\* device has its slot and its channels, in whatever order devices are probed
\* and removed.  A device whose own device_create failed (dma-proxy.c:729
\* returns 0) is registered like the others but lacks its character device and
\* its node; no other device does, and only such a device's character device
\* is deleted twice.
THEOREM TableSoundHolds == Spec => []TableSound
<1>1. IInv => TableSound
  BY DEF IInv, SlotInv, NodeInv, TableSound, CountMatchesTable, Occupied
<1> QED
  BY <1>1, InvHolds, PTL

\* rmmod leaves no class, character device or node behind, whatever failed
\* while the module was loaded.
THEOREM UnloadIsCleanHolds == Spec => []UnloadIsClean
<1>1. ASSUME IInv, loaded = "no" PROVE classes = {} /\ cdevs = {} /\ nodes = {}
  <2>1. \A p \in Pdevs : ~Listed(p)
    BY <1>1 DEF IInv, SlotInv, Listed
  <2>2. Occupied = {}
    BY <1>1, <2>1 DEF IInv, SlotInv
  <2>3. DEVICE_COUNT = 0
    BY <1>1, <2>2, FS_EmptySet DEF IInv, SlotInv
  <2> QED
    BY <1>1, <2>1, <2>3 DEF IInv, NodeInv, ClassInv, TypeOK
<1>2. IInv => UnloadIsClean
  BY <1>1 DEF UnloadIsClean
<1> QED
  BY <1>2, InvHolds, PTL

-----------------------------------------------------------------------------
(* Theorems for a module whose devices stay bound until it is unloaded     *)

\* A pointer an ioctl has read stays in the table while the occupied slots
\* keep what they hold.
LEMMA PointersStay ==
  ASSUME IoctlDeviceExists, UNCHANGED ptr,
         \A i \in Occupied : DEVICES'[i] = DEVICES[i]
  PROVE  IoctlDeviceExists'
BY DEF IoctlDeviceExists, Occupied

\* Once the module is being unloaded no ioctl is in progress.
LEMMA NoIoctl ==
  ASSUME PhaseInv, loaded # "yes"
  PROVE  \A u \in Users : ptr[u] = NULL
BY DEF PhaseInv

LEMMA FixedModule ==
  ASSUME IInv, FixedInv, ModuleInit \/ ModuleExit \/ ModuleExited
  PROVE  FixedInv'
<1>1. CASE ModuleInit
  <2>1. \A u \in Users : ptr[u] = NULL /\ ~file[u]
    BY <1>1 DEF ModuleInit, FixedInv, PhaseInv
  <2>2. /\ \A p \in Pdevs : bound'[p] = "no"
        /\ UNCHANGED <<file, ptr, failed, badClass>>
        /\ DEVICE_COUNT' = 0 /\ PROXY_GLOBAL_CLASS' = 0
    BY <1>1 DEF ModuleInit, IInv, SlotInv, objects, users
  <2> QED
    BY <2>1, <2>2 DEF FixedInv, PhaseInv, LiveClassInv, IoctlDeviceExists
<1>2. CASE ModuleExit \/ ModuleExited
  <2>1. UNCHANGED <<globals, objects, perDev, users>> /\ loaded' \in {"exiting", "no"}
    BY <1>2 DEF ModuleExit, ModuleExited
  <2>2. \A u \in Users : ~file[u]
    BY <1>2 DEF ModuleExit, ModuleExited, FixedInv, PhaseInv
  <2> QED
    BY <2>1, <2>2 DEF FixedInv, PhaseInv, LiveClassInv, IoctlDeviceExists,
       globals, objects, perDev, users
<1> QED
  BY <1>1, <1>2

LEMMA FixedProbe ==
  ASSUME IInv, FixedInv, NEW p \in Pdevs, Probe(p)
  PROVE  FixedInv'
<1>1. ProbeStart(p) /\ loaded = "yes" /\ UNCHANGED <<loaded, file, ptr>>
  BY DEF Probe, ProbeNoChannels, ProbeNoCdev, ProbeNoClass, ProbeSucceeds,
     ProbeNoDevice, ProbeStart, users
<1>2. bound' \in {bound, [bound EXCEPT ![p] = "yes"]}
  BY DEF Probe, ProbeNoChannels, ProbeNoCdev, ProbeNoClass, ProbeSucceeds,
     ProbeNoDevice, Register
<1>3. PhaseInv'
  BY <1>1, <1>2 DEF FixedInv, PhaseInv, IInv, TypeOK
<1>4. CASE ProbeNoChannels(p) \/ ProbeNoCdev(p) \/ ProbeNoClass(p)
  <2>1. UNCHANGED <<DEVICES, DEVICE_COUNT, classes, badClass>>
    BY <1>4 DEF ProbeNoChannels, ProbeNoCdev, ProbeNoClass, globals
  <2>2. \/ failed' # {}
        \/ UNCHANGED <<PROXY_GLOBAL_CLASS, failed>>
    BY <1>4 DEF ProbeNoChannels, ProbeNoCdev, ProbeNoClass, globals
  <2>3. LiveClassInv'
    BY <1>1, <2>1, <2>2 DEF FixedInv, LiveClassInv
  <2> QED
    BY <1>1, <1>3, <2>1, <2>3, PointersStay DEF FixedInv
<1>5. CASE ProbeSucceeds(p) \/ ProbeNoDevice(p)
  <2>1. UseClass(p) /\ Register(p)
    BY <1>5 DEF ProbeSucceeds, ProbeNoDevice
  <2>2. \A i \in Occupied : DEVICES'[i] = DEVICES[i]
    BY <1>1, <2>1, RegisterSlot DEF IInv
  <2>3. LiveClassInv'
    <3>1. CASE ProbeSucceeds(p)
      <4>1. failed' = failed /\ classes' = classes \cup NewClass
        BY <3>1 DEF ProbeSucceeds
      <4>2. failed = {} => PROXY_GLOBAL_CLASS' \in classes \cup NewClass
        <5>1. CASE PROXY_GLOBAL_CLASS = 0
          BY <2>1, <5>1 DEF UseClass, NewClass
        <5>2. CASE PROXY_GLOBAL_CLASS # 0
          BY <1>1, <2>1, <5>2 DEF UseClass, NewClass, FixedInv, LiveClassInv
        <5> QED
          BY <5>1, <5>2
      <4>3. failed = {} => ~badClass'
        BY <2>1, <4>2 DEF UseClass, FixedInv, LiveClassInv
      <4> QED
        BY <4>1, <4>2, <4>3 DEF LiveClassInv
    <3>2. CASE ProbeNoDevice(p)
      BY <3>2 DEF ProbeNoDevice, LiveClassInv
    <3> QED
      BY <1>5, <3>1, <3>2
  <2> QED
    BY <1>1, <1>3, <2>2, <2>3, PointersStay DEF FixedInv
<1> QED
  BY <1>4, <1>5 DEF Probe

LEMMA FixedRemove ==
  ASSUME ~Hotplug, IInv, FixedInv, NEW p \in Pdevs, Remove(p)
  PROVE  FixedInv'
<1>1. loaded # "yes" /\ UNCHANGED <<loaded, file, ptr, failed, PROXY_GLOBAL_CLASS>>
  BY DEF Remove, RemoveChannels, RemoveFromTable, RemoveFree, FixedInv, PhaseInv,
     globals, objects, users
<1>2. PhaseInv' /\ IoctlDeviceExists'
  <2>1. \A u \in Users : ptr[u] = NULL
    BY <1>1, NoIoctl DEF FixedInv
  <2> QED
    BY <1>1, <2>1 DEF FixedInv, PhaseInv, IoctlDeviceExists
<1>3. LiveClassInv'
  <2>1. CASE RemoveChannels(p) \/ RemoveFree(p)
    <3>1. UNCHANGED <<classes, badClass, DEVICE_COUNT>>
      BY <2>1 DEF RemoveChannels, RemoveFree, globals, objects
    <3> QED
      BY <1>1, <3>1 DEF FixedInv, LiveClassInv
  <2>2. CASE RemoveFromTable(p)
    <3>1. DEVICE_COUNT \in Nat /\ DEVICE_COUNT' \in Nat /\ DEVICE_COUNT' = DEVICE_COUNT - 1
      BY <2>2, RemoveSlot DEF IInv, TypeOK
    <3>2. DEVICE_COUNT > 0 /\ (DEVICE_COUNT' > 0 => DEVICE_COUNT # 1)
      BY <3>1
    <3>3. class_p[p] = PROXY_GLOBAL_CLASS
      BY <2>2 DEF RemoveFromTable, IInv, ClassInv, Listed
    <3>4. /\ badClass' = (badClass \/ class_p[p] \notin classes)
          /\ DEVICE_COUNT # 1 => classes' = classes
      BY <2>2 DEF RemoveFromTable
    <3> QED
      BY <1>1, <3>2, <3>3, <3>4 DEF FixedInv, LiveClassInv
  <2> QED
    BY <2>1, <2>2 DEF Remove
<1> QED
  BY <1>2, <1>3 DEF FixedInv

LEMMA FixedUser ==
  ASSUME IInv, FixedInv, NEW u \in Users,
         Open(u) \/ IoctlLookup(u) \/ IoctlReturn(u) \/ Close(u)
  PROVE  FixedInv'
<1>1. UNCHANGED <<loaded, globals, objects, perDev>>
  BY DEF Open, IoctlLookup, IoctlReturn, Close
<1>2. LiveClassInv'
  BY <1>1 DEF FixedInv, LiveClassInv, globals, objects
<1>3. PhaseInv'
  BY <1>1 DEF Open, IoctlLookup, IoctlReturn, Close, FixedInv, PhaseInv, IInv, TypeOK, perDev
<1>4. IoctlDeviceExists'
  <2>1. CASE IoctlLookup(u)
    <3>1. PICK i \in Indices : DEVICES[i] # NULL /\ ptr' = [ptr EXCEPT ![u] = DEVICES[i]]
      BY <2>1 DEF IoctlLookup
    <3> QED
      BY <1>1, <3>1 DEF FixedInv, IoctlDeviceExists, globals, IInv, TypeOK
  <2>2. CASE Open(u) \/ IoctlReturn(u) \/ Close(u)
    <3>1. ptr' \in {ptr, [ptr EXCEPT ![u] = NULL]}
      BY <2>2 DEF Open, IoctlReturn, Close
    <3> QED
      BY <1>1, <3>1 DEF FixedInv, IoctlDeviceExists, globals, IInv, TypeOK
  <2> QED
    BY <2>1, <2>2
<1> QED
  BY <1>2, <1>3, <1>4 DEF FixedInv

LEMMA FixedHolds ==
  ASSUME ~Hotplug
  PROVE  Spec => [](IInv /\ FixedInv)
<1>1. Init => FixedInv
  BY DEF Init, FixedInv, PhaseInv, LiveClassInv, IoctlDeviceExists
<1>2. ASSUME IInv, FixedInv, [Next]_vars PROVE FixedInv'
  <2>1. CASE ModuleInit \/ ModuleExit \/ ModuleExited
    BY <1>2, <2>1, FixedModule
  <2>2. ASSUME NEW p \in Pdevs, Probe(p) PROVE FixedInv'
    BY <1>2, <2>2, FixedProbe
  <2>3. ASSUME NEW p \in Pdevs, Remove(p) PROVE FixedInv'
    BY <1>2, <2>3, FixedRemove
  <2>4. ASSUME NEW u \in Users, Open(u) \/ IoctlLookup(u) \/ IoctlReturn(u) \/ Close(u)
        PROVE  FixedInv'
    BY <1>2, <2>4, FixedUser
  <2>5. CASE UNCHANGED vars
    BY <1>2, <2>5 DEF FixedInv, PhaseInv, LiveClassInv, IoctlDeviceExists,
       vars, globals, objects, perDev, users
  <2> QED
    BY <1>2, <2>1, <2>2, <2>3, <2>4, <2>5 DEF Next
<1> QED
  BY <1>1, <1>2, InvHolds, PTL DEF Spec

\* The shared class outlives every device created under it (cdevice_init and
\* cdevice_exit), as long as class_create and device_create do not fail.
THEOREM ClassSoundHolds ==
  ASSUME ~Hotplug
  PROVE  Spec => []ClassSound
<1>1. ASSUME IInv, FixedInv PROVE ClassSound
  <2>1. ASSUME failed = {}, NEW p \in Pdevs, bound[p] \in {"yes", "released"}
        PROVE  class_p[p] \in classes
    <3>1. Occupied # {} /\ Listed(p)
      BY <1>1, <2>1, SlotOccupied DEF IInv, Listed
    <3>2. DEVICE_COUNT # 0
      BY <1>1, <3>1, OccupiedFinite, FS_EmptySet DEF IInv, SlotInv
    <3>3. DEVICE_COUNT > 0
      BY <1>1, <3>2 DEF IInv, TypeOK
    <3> QED
      BY <1>1, <2>1, <3>1, <3>3 DEF IInv, ClassInv, FixedInv, LiveClassInv
  <2> QED
    BY <1>1, <2>1 DEF ClassSound, FixedInv, LiveClassInv
<1> QED
  BY <1>1, FixedHolds, PTL

\* The structure an ioctl works on is in the table, so allocated, until the
\* ioctl returns, although ioctl takes no lock: the open file keeps the
\* module, and so the device, from being removed.
THEOREM IoctlDeviceExistsHolds ==
  ASSUME ~Hotplug
  PROVE  Spec => []IoctlDeviceExists
<1>1. IInv /\ FixedInv => IoctlDeviceExists
  BY DEF FixedInv
<1> QED
  BY <1>1, FixedHolds, PTL
=============================================================================
