----------------------------- MODULE DeviceTable -----------------------------
(***************************************************************************)
(* The life of dma-proxy devices in the kernel: module load and unload,    *)
(* probe and remove of platform devices, the character devices and the     *)
(* sysfs class they share, the global DEVICES table, and the ioctls of     *)
(* other threads that look devices up in it.                               *)
(*                                                                         *)
(* probe runs under PROXY_GLOBAL_MUTEX and is one step.  remove takes the  *)
(* mutex only for its middle part and is three steps.  ioctl reads the     *)
(* table without the mutex and uses what it read in later steps.           *)
(***************************************************************************)
EXTENDS Integers, FiniteSets

CONSTANTS Pdevs,      \* platform devices in the device tree
          Index,      \* Index[p]: the number in p's dma-names
          Users,      \* threads that open device files and issue ioctls
          MAX_DEVICES,
          Faults,     \* the kernel services that may fail
          Hotplug,    \* may devices be unbound while the module stays loaded?
          MaxProbes,  \* bound: probes per device and module load
          MaxClasses, \* bound: classes created before the last module load
          NULL

FaultKinds == {"tx", "rx", "chrdev", "cdev", "class", "device"}

ASSUME TableAssumption ==
  /\ IsFiniteSet(Pdevs)
  /\ MAX_DEVICES \in Nat
  /\ Index \in [Pdevs -> 0..(MAX_DEVICES - 1)]
  /\ \A p, q \in Pdevs : Index[p] = Index[q] => p = q
  /\ Faults \subseteq FaultKinds
  /\ Hotplug \in BOOLEAN
  /\ MaxProbes \in Nat /\ MaxClasses \in Nat
  /\ NULL \notin Pdevs \X Nat

ERR_PTR == -1   \* what class_create returns when it fails; not NULL (0)

VARIABLES
  loaded,       \* "no", "yes" or "exiting" (inside dma_proxy_exit)
  \* globals of the module
  DEVICES, DEVICE_COUNT, PROXY_GLOBAL_CLASS,
  \* kernel objects
  classes,      \* sysfs classes that exist
  nclass,       \* number of classes created so far
  cdevs,        \* devices whose character device is registered
  nodes,        \* devices that have a node in /dev
  nodeless,     \* registered devices whose proxy_device_p is an error pointer
  chans,        \* DMA channels held: <<device, "tx" or "rx">>
  failed,       \* history: which of class_create, device_create have failed
  badClass,     \* a class that does not exist was used or destroyed
  badCdev,      \* a character device was deleted twice
  \* per platform device
  bound,        \* "no", "yes", or a step of dma_proxy_remove
  probes,       \* number of probes; names the current struct xilinx_dma_t
  class_p,
  \* per user thread
  file,         \* has a device file open
  ptr           \* device_to_use: the struct the ioctl works on, or NULL

globals == <<DEVICES, DEVICE_COUNT, PROXY_GLOBAL_CLASS>>
objects == <<classes, nclass, cdevs, nodes, nodeless, chans, failed, badClass, badCdev>>
perDev  == <<bound, probes, class_p>>
users   == <<file, ptr>>
vars    == <<loaded, globals, objects, perDev, users>>

Indices == 0..(MAX_DEVICES - 1)
Structs == Pdevs \X Nat

Init ==
  /\ loaded = "no"
  /\ DEVICES = [i \in Indices |-> NULL]
  /\ DEVICE_COUNT = 0 /\ PROXY_GLOBAL_CLASS = 0
  /\ classes = {} /\ nclass = 0 /\ cdevs = {} /\ nodes = {} /\ chans = {}
  /\ nodeless = {} /\ badClass = FALSE /\ badCdev = FALSE /\ failed = {}
  /\ bound = [p \in Pdevs |-> "no"]
  /\ probes = [p \in Pdevs |-> 0]
  /\ class_p = [p \in Pdevs |-> 0]
  /\ file = [u \in Users |-> FALSE]
  /\ ptr = [u \in Users |-> NULL]

-----------------------------------------------------------------------------
(* Module load and unload                                                  *)

\* insmod: the globals have their initial values, DEVICES is cleared.
ModuleInit ==
  /\ loaded = "no"
  /\ nclass < MaxClasses
  /\ loaded' = "yes"
  /\ DEVICES' = [i \in Indices |-> NULL]
  /\ DEVICE_COUNT' = 0 /\ PROXY_GLOBAL_CLASS' = 0
  /\ probes' = [p \in Pdevs |-> 0]
  /\ UNCHANGED <<objects, bound, class_p, users>>

\* Mutant: open files do not hold the module (no fops.owner).
ModuleExit_NoOwner ==
  /\ loaded = "yes"
  /\ \A p \in Pdevs : bound[p] \in {"no", "yes"}
  /\ loaded' = "exiting"
  /\ UNCHANGED <<globals, objects, perDev, users>>

\* rmmod: refused while a device file is open (fops.owner = THIS_MODULE).
ModuleExit ==
  /\ loaded = "yes"
  /\ \A u \in Users : ~file[u]
  /\ \A p \in Pdevs : bound[p] \in {"no", "yes"}
  /\ loaded' = "exiting"
  /\ UNCHANGED <<globals, objects, perDev, users>>

ModuleExited ==
  /\ loaded = "exiting"
  /\ \A p \in Pdevs : bound[p] = "no"
  /\ loaded' = "no"
  /\ UNCHANGED <<globals, objects, perDev, users>>

-----------------------------------------------------------------------------
(* dma_proxy_probe                                                         *)

ProbeStart(p) == /\ loaded = "yes"
                 /\ bound[p] = "no"
                 /\ probes[p] < MaxProbes
                 /\ probes' = [probes EXCEPT ![p] = probes[p] + 1]

Struct(p) == <<p, probes[p] + 1>>

\* No index has both channels.  A TX channel found without its RX partner
\* stays requested, and a channel that is held cannot be requested again.
ProbeNoChannels(p) ==
  /\ ProbeStart(p)
  /\ \/ /\ "tx" \in Faults \/ <<p, "tx">> \in chans
        /\ UNCHANGED chans
     \/ /\ <<p, "tx">> \notin chans
        /\ "rx" \in Faults \/ <<p, "rx">> \in chans
        /\ chans' = chans \cup {<<p, "tx">>}
  /\ UNCHANGED <<loaded, globals, classes, nclass, cdevs, nodes, nodeless, failed,
                 badClass, badCdev, bound, class_p, users>>

GotChannels(p) == /\ chans \cap {<<p, "tx">>, <<p, "rx">>} = {}
                  /\ chans' = chans \cup {<<p, "tx">>, <<p, "rx">>}

\* Mutant: the device is not counted.
Register_NotCounted(p) == /\ DEVICES' = [DEVICES EXCEPT ![Index[p]] = Struct(p)]
                          /\ DEVICE_COUNT' = DEVICE_COUNT
                          /\ bound' = [bound EXCEPT ![p] = "yes"]

\* "Globally register the device"
Register(p) == /\ DEVICES' = [DEVICES EXCEPT ![Index[p]] = Struct(p)]
               /\ DEVICE_COUNT' = DEVICE_COUNT + 1
               /\ bound' = [bound EXCEPT ![p] = "yes"]

\* Mutant: the failure of cdevice_init is ignored.
ProbeNoCdev_Ignored(p) ==
  /\ ProbeStart(p) /\ GotChannels(p)
  /\ {"chrdev", "cdev"} \cap Faults # {}
  /\ Register(p)
  /\ UNCHANGED <<loaded, PROXY_GLOBAL_CLASS, classes, nclass, cdevs, nodes,
                 nodeless, failed, badClass, badCdev, class_p, users>>

\* cdevice_init fails before it gets to the class; the channels stay held.
ProbeNoCdev(p) ==
  /\ ProbeStart(p) /\ GotChannels(p)
  /\ {"chrdev", "cdev"} \cap Faults # {}
  /\ UNCHANGED <<loaded, globals, classes, nclass, cdevs, nodes, nodeless, failed,
                 badClass, badCdev, bound, class_p, users>>

\* class_create fails: cdevice_init fails, the global keeps the error pointer.
ProbeNoClass(p) ==
  /\ ProbeStart(p) /\ GotChannels(p)
  /\ PROXY_GLOBAL_CLASS = 0
  /\ "class" \in Faults
  /\ PROXY_GLOBAL_CLASS' = ERR_PTR
  /\ failed' = failed \cup {"class"}
  /\ UNCHANGED <<loaded, DEVICES, DEVICE_COUNT, classes, nclass, cdevs, nodes,
                 nodeless, badClass, badCdev, bound, class_p, users>>

\* The class the device is created under: a new one, or the global one.
NewClass == IF PROXY_GLOBAL_CLASS = 0 THEN {nclass + 1} ELSE {}

UseClass(p) ==
  /\ PROXY_GLOBAL_CLASS' = IF NewClass = {} THEN PROXY_GLOBAL_CLASS ELSE nclass + 1
  /\ nclass' = IF NewClass = {} THEN nclass ELSE nclass + 1
  /\ class_p' = [class_p EXCEPT ![p] = PROXY_GLOBAL_CLASS']
  /\ badClass' = (badClass \/ PROXY_GLOBAL_CLASS' \notin classes \cup NewClass)

\* device_create refuses a class that is an error pointer.
ProbeSucceeds(p) ==
  /\ ProbeStart(p) /\ GotChannels(p)
  /\ PROXY_GLOBAL_CLASS # ERR_PTR
  /\ UseClass(p)
  /\ classes' = classes \cup NewClass
  /\ cdevs' = cdevs \cup {p}
  /\ nodes' = nodes \cup {p}
  /\ Register(p)
  /\ UNCHANGED <<loaded, nodeless, failed, badCdev, users>>

\* device_create fails: the class, the cdev and the region are given back,
\* and cdevice_init returns rc, which is still 0 from cdev_add: the device is
\* registered without a character device and a node.
ProbeNoDevice(p) ==
  /\ ProbeStart(p) /\ GotChannels(p)
  /\ "device" \in Faults \/ PROXY_GLOBAL_CLASS = ERR_PTR
  /\ UseClass(p)
  /\ classes' = (classes \cup NewClass) \ {PROXY_GLOBAL_CLASS'}
  /\ Register(p)
  /\ nodeless' = nodeless \cup {p}
  /\ failed' = failed \cup {"device"}
  /\ UNCHANGED <<loaded, cdevs, nodes, badCdev, users>>

Probe(p) == \/ ProbeNoChannels(p) \/ ProbeNoCdev(p) \/ ProbeNoClass(p)
            \/ ProbeSucceeds(p) \/ ProbeNoDevice(p)

-----------------------------------------------------------------------------
(* dma_proxy_remove                                                        *)

\* On rmmod, or when a device is unbound through sysfs.
RemoveChannels(p) ==
  /\ bound[p] = "yes"
  /\ loaded = "exiting" \/ (loaded = "yes" /\ Hotplug)
  /\ chans' = chans \ {<<p, "tx">>, <<p, "rx">>}
  /\ bound' = [bound EXCEPT ![p] = "released"]
  /\ UNCHANGED <<loaded, globals, classes, nclass, cdevs, nodes, nodeless, failed,
                 badClass, badCdev, probes, class_p, users>>

\* Mutants: the class goes with every device; with none.
RemoveFromTable_AnyClass(p) ==
  /\ bound[p] = "released"
  /\ nodes' = nodes \ {p}
  /\ DEVICE_COUNT' = DEVICE_COUNT - 1
  /\ classes' = classes \ {class_p[p]}
  /\ badClass' = (badClass \/ class_p[p] \notin classes)
  /\ cdevs' = cdevs \ {p}
  /\ nodeless' = nodeless \ {p}
  /\ badCdev' = (badCdev \/ p \notin cdevs)
  /\ DEVICES' = [DEVICES EXCEPT ![Index[p]] = NULL]
  /\ bound' = [bound EXCEPT ![p] = "unlisted"]
  /\ UNCHANGED <<loaded, PROXY_GLOBAL_CLASS, nclass, chans, failed, probes, class_p, users>>

RemoveFromTable_NoClass(p) ==
  /\ bound[p] = "released"
  /\ nodes' = nodes \ {p}
  /\ DEVICE_COUNT' = DEVICE_COUNT - 1
  /\ badClass' = (badClass \/ class_p[p] \notin classes)
  /\ cdevs' = cdevs \ {p}
  /\ nodeless' = nodeless \ {p}
  /\ badCdev' = (badCdev \/ p \notin cdevs)
  /\ DEVICES' = [DEVICES EXCEPT ![Index[p]] = NULL]
  /\ bound' = [bound EXCEPT ![p] = "unlisted"]
  /\ UNCHANGED <<loaded, PROXY_GLOBAL_CLASS, classes, nclass, chans, failed, probes, class_p, users>>

\* cdevice_exit and the table, under the mutex.  The character device is
\* deleted although a device without a node has lost its own in cdevice_init.
RemoveFromTable(p) ==
  LET last == DEVICE_COUNT = 1
  IN  /\ bound[p] = "released"
      /\ nodes' = nodes \ {p}
      /\ DEVICE_COUNT' = DEVICE_COUNT - 1
      /\ classes' = IF last THEN classes \ {class_p[p]} ELSE classes
      /\ badClass' = (badClass \/ class_p[p] \notin classes)
      /\ cdevs' = cdevs \ {p}
      /\ nodeless' = nodeless \ {p}
      /\ badCdev' = (badCdev \/ p \notin cdevs)
      /\ DEVICES' = [DEVICES EXCEPT ![Index[p]] = NULL]
      /\ bound' = [bound EXCEPT ![p] = "unlisted"]
      /\ UNCHANGED <<loaded, PROXY_GLOBAL_CLASS, nclass, chans, failed, probes, class_p, users>>

\* kfree(xilinx_dma)
RemoveFree(p) ==
  /\ bound[p] = "unlisted"
  /\ bound' = [bound EXCEPT ![p] = "no"]
  /\ UNCHANGED <<loaded, globals, objects, probes, class_p, users>>

Remove(p) == RemoveChannels(p) \/ RemoveFromTable(p) \/ RemoveFree(p)

-----------------------------------------------------------------------------
(* User threads: open, ioctl, close                                        *)

Open(u) == /\ loaded = "yes"
           /\ ~file[u]
           /\ nodes # {}
           /\ file' = [file EXCEPT ![u] = TRUE]
           /\ UNCHANGED <<loaded, globals, objects, perDev, ptr>>

\* device_to_use = DEVICES[rw_info.device_index]; an empty slot is refused.
IoctlLookup(u) ==
  /\ file[u] /\ ptr[u] = NULL
  /\ \E i \in Indices : /\ DEVICES[i] # NULL
                        /\ ptr' = [ptr EXCEPT ![u] = DEVICES[i]]
  /\ UNCHANGED <<loaded, globals, objects, perDev, file>>

\* The transfer on the device's channel is over and the ioctl returns.
IoctlReturn(u) ==
  /\ ptr[u] # NULL
  /\ ptr' = [ptr EXCEPT ![u] = NULL]
  /\ UNCHANGED <<loaded, globals, objects, perDev, file>>

Close(u) == /\ file[u] /\ ptr[u] = NULL
            /\ file' = [file EXCEPT ![u] = FALSE]
            /\ UNCHANGED <<loaded, globals, objects, perDev, ptr>>

-----------------------------------------------------------------------------
Next == \/ ModuleInit \/ ModuleExit \/ ModuleExited
        \/ \E p \in Pdevs : Probe(p) \/ Remove(p)
        \/ \E u \in Users : Open(u) \/ IoctlLookup(u) \/ IoctlReturn(u) \/ Close(u)

Spec == Init /\ [][Next]_vars

-----------------------------------------------------------------------------
(* Properties                                                              *)

\* Type invariant.
TypeOK ==
  /\ loaded \in {"no", "yes", "exiting"}
  /\ DEVICES \in [Indices -> Structs \cup {NULL}]
  /\ DEVICE_COUNT \in Nat /\ PROXY_GLOBAL_CLASS \in Int
  /\ classes \subseteq Int /\ nclass \in Nat
  /\ cdevs \subseteq Pdevs /\ nodes \subseteq Pdevs /\ nodeless \subseteq Pdevs
  /\ chans \subseteq Pdevs \X {"tx", "rx"}
  /\ failed \subseteq FaultKinds /\ badClass \in BOOLEAN /\ badCdev \in BOOLEAN
  /\ bound \in [Pdevs -> {"no", "yes", "released", "unlisted"}]
  /\ probes \in [Pdevs -> Nat]
  /\ class_p \in [Pdevs -> Int]
  /\ file \in [Users -> BOOLEAN]
  /\ ptr \in [Users -> Structs \cup {NULL}]

\* DEVICE_COUNT, which decides when the shared class is destroyed, is the
\* number of devices in the table, whatever failed and in whatever order
\* devices came and went.
CountMatchesTable ==
  loaded # "no" => DEVICE_COUNT = Cardinality({i \in Indices : DEVICES[i] # NULL})

\* A device that probe has registered is in the table and has both DMA
\* channels, also when its device_create failed (cdevice_init returns 0).  It
\* has a character device and a node too, unless its own device_create failed:
\* the failures of other devices and of earlier probes take nothing from it.
RegisteredIsUsable ==
  \A p \in Pdevs : bound[p] = "yes" =>
    /\ DEVICES[Index[p]] = <<p, probes[p]>>
    /\ {<<p, "tx">>, <<p, "rx">>} \subseteq chans
    /\ p \notin nodeless => p \in cdevs /\ p \in nodes

\* As long as device_create has not failed, no device is without a node and
\* no character device is deleted twice.
DeletedOnce == nodeless # {} \/ badCdev => "device" \in failed

\* The table and its count are right, so that the class lives as long as it is
\* used, and a device lacks its node, and is deleted twice by dma_proxy_remove,
\* on account of a failed device_create only.
TableSound == CountMatchesTable /\ RegisteredIsUsable /\ DeletedOnce

\* The shared class outlives every device created under it: no device is
\* created under, or removed from, a class that has been destroyed, provided
\* neither class_create nor device_create has failed.
ClassSound ==
  failed = {} =>
    /\ ~badClass
    /\ \A p \in Pdevs : bound[p] \in {"yes", "released"} => class_p[p] \in classes

\* An ioctl works on a device whose structure is allocated and in the table.
IoctlDeviceExists ==
  \A u \in Users : ptr[u] # NULL =>
    \E i \in Indices : DEVICES[i] = ptr[u]

\* Unloading the module leaves no class, character device or node behind,
\* whatever failed.
UnloadIsClean == loaded = "no" => classes = {} /\ cdevs = {} /\ nodes = {}
=============================================================================
