# Verification of gr-zcu216: the DMA proxy stack and the build's run queue

gr-zcu216 builds a Linux image for the Xilinx ZCU216 in which GNU Radio blocks
hand data to accelerators in the FPGA. The data moves by DMA, and the code of
the repository that carries the risk is the stack between a block and the DMA
engine: a kernel driver (`dma-proxy`), a user space library (`dma-proxy-lib`),
a few command line programs and the GNU Radio blocks (`gr-zynq`). The
repository also carries the tool that builds the image, bitbake
(`bitbake petalinux-image-gr` is its build step), whose core is a scheduler
of tasks and of fetches from a shared state cache. This directory models
both in TLA+, checks them with TLC and proves the safety properties of both with TLAPS, for
every size of the system.

Short names used below (under `src/sources/meta-zynq-gr/`, the run queue under
`src/sources/core/bitbake/`):

| name | file |
|------|------|
| driver | `recipes-kernel/dma-proxy/files/dma-proxy.c`, `.h` |
| library | `recipes-apps/dma-proxy-lib/files/dma-proxy-lib.c`, `.h` |
| programs | `recipes-apps/dma-proxy-utils/files/*.c` |
| blocks | `recipes-zynq/gr-zynq/files/gr-zynq/lib/*.cc` |
| run queue | `lib/bb/runqueue.py` |

## 1. Inventory

### Driver: transfers on a channel
*State.* Per direction of a device a `struct dma_proxy_channel`: the pointer
to a scatter/gather list, a `struct completion`, the cookie of the last
transfer. Per open file a `status`. The dmaengine channel underneath keeps the
submitted and issued descriptors.
*Operations.* `ioctl` with six commands (blocking, start and complete, for READ
and for WRITE), which call `start_transfer` and `wait_for_transfer`;
`sync_callback`, run by the engine in interrupt context.
*Hard.* No lock at all: callers from several threads or processes interleave
on the shared structure. The wait has a 3 s timeout and a transfer that timed
out is left with the engine, so its callback arrives during a later transfer.
*Correct when* two callers never run the code on one channel; success is
recorded only for a finished transfer of the caller; lists are freed once and
not used afterwards; nothing is left when a channel is given back.

### Driver: the scatter/gather computation
*State.* The segments of the buffer; the local variables of the three loops of
`start_transfer`. *Hard.* Offsets and lengths at segment boundaries; unsigned
subtraction; the bounds are checked in another program (the library).
*Correct when* the list is exactly the requested bytes, inside the segments.

### Driver: life of devices
*State.* The globals `DEVICES`, `DEVICE_COUNT`, `PROXY_GLOBAL_CLASS`, the mutex
around them, and the kernel objects (class, character devices, nodes, DMA
channels). *Operations.* module init and exit, `dma_proxy_probe`
(`create_channel`, `cdevice_init`), `dma_proxy_remove` (`cdevice_exit`), and
the lookup at the start of `ioctl`. *Hard.* Every kernel service may fail and
each failure has a path of its own; remove holds the mutex for a part only;
ioctl reads the table without it. *Correct when* the count is the number of
registered devices, registered devices are usable, the class outlives its
devices, ioctls work on devices that exist, and unloading leaves nothing.

### Driver: DMA buffers
*State.* Per open file the list of segments. *Operations.* `local_open`,
`mmap` (allocates segments of falling size), `dma_proxy_vma_close`, `release`.
*Hard.* Allocation that fails halfway; processes that die; sizes rounded to
powers of two; mappings that are duplicated by fork.
*Correct when* every segment allocated is freed once and the segments sum up
to the mapping.

### Library: transfer calls
*State.* Per device and direction a mutex, a condition variable and a busy
flag. *Operations.* `dmap_read`, `dmap_read_nb`, `dmap_read_complete` and the
WRITE twins, over `_wait_for_device` and `_mark_device_ready`. *Hard.*
Condition waits; a claim made by one call and given back by another; error
returns in between. *Correct when* one thread at a time owns the channel, a
channel given back is idle, every call returns and every claim ends.

### Library: buffer list
*State.* `buffer_list` and its size, under `master_mutex`. *Operations.*
`dmap_alloc_buffer`, `dmap_free_buffer`, `_buffer_select_helper`,
`_resize_buffer_list`, the constructor and the destructor. *Hard.* A
descriptor selected under the mutex is used after it; descriptors are reused
by the kernel; entries gained by `realloc` are not cleared.
*Correct when* a transfer reaches the file of the buffer it names, every buffer
has one entry, and the destructor leaves nothing.

### Library: registers
`dmap_reg_read32`, `dmap_reg_write32` over a lazily mapped `/dev/mem`; used by
the FFT block's constructor and `start`.

### Programs and blocks
`dma-proxy-util` makes blocking calls, `dma-proxy-util-nb` and
`dma-proxy-util-file` start and complete. `general_work` of each hardware block
does `dmap_read_nb`, `dmap_write`, `dmap_read_complete` per batch, logs errors
and goes on. *Hard.* A batch that fails leaves a transfer or a result behind
that meets the next batch. *Correct when* the output is the results in order
and no transfer works on a buffer outside the call it belongs to. `zynq_buffer` backs GNU Radio's buffers by DMA memory. The software
blocks (`sw_*`) and the CDMA2000 turbo code are pure computation.

### Run queue: preparation
*State.* The graph of tasks (`runtaskentries`), and the graph of setscene tasks
derived from it (`SQData`): a setscene task fetches the result of a task from
the shared state cache, which makes the tasks below it unnecessary.
*Operations.* `RunQueueData.prepare` with `calculate_task_weights`;
`build_scenequeue_data`. *Hard.* Work lists over dictionaries in accidental
order; partial results that points overwrite or inherit; `[depends]` flags that
run against the other dependencies. *Correct when* graphs with a loop are
refused and no others, the derived graph does not depend on the order and has
no circle.

### Run queue: execution
*State.* Two queues (tasks, setscene tasks), each with sets of buildable,
running and finished tasks; the sets of covered, not covered and held off tasks
that connect them; deferred setscene tasks; stamps on disk; the number of
active workers. *Operations.* `RunQueueExecute.execute`, called in a loop,
`runqueue_process_waitpid` for every exit code, `finish` and `finish_now`.
*Hard.* The queues advance together and each decides what the other may do; a
fetch can fail after others have been skipped; setscene tasks with one hash
wait for a task of the other queue; failures with and without `-k`; shutdowns.
*Correct when* a task runs only with its inputs in place, a fetch never writes
where a task is running, limits hold, the reported outcome is true, as much is
built as can be, and the build ends.

### How the parts interact
A block calls the library; the library finds the buffer, claims the channel
and issues an ioctl on the file of the buffer; the ioctl looks up the device by
number, turns the buffer into a scatter/gather list, and hands it to the engine;
the engine's callback completes the wait. What is shared: the busy flag
between the threads of a process, the channel structure between all callers
of the machine, the device table between probe, remove and ioctl.

## 2. Plan

1. `DmaProxyDriver`, `DmaProxyLib`, `ExclusiveChannel`: the transfer path, its
   abstract specification, and the proofs (done).
2. `SgList`: the scatter/gather computation (done).
3. `DeviceTable`: life of devices and failures of probe (done).
4. `DmaBuffer` and `LibBuffers`: mmap under allocation failures, vma close,
   release; the buffer list with descriptors that are reused (done).
5. `ZynqBlock`: `general_work` over both channels of a device, and what a
   failed or timed out transfer does to a block's output (done).
6. `SceneGraph` and `TaskGraph`: what the run queue derives from the graph of
   tasks, and the algorithms that derive it (done).
7. `RunQueue`: the execution of a build over that graph (done).
8. Proofs: every safety invariant of every component and the refinement (done,
   section 6).
9. To come: the parts of the run queue that are not modelled (section 7), with
   the invariants they need.

## 3. Modules

### `DmaProxyDriver` - one channel of the driver
Variables follow `struct dma_proxy_channel` (`sglist`, `cmp`, `cookie`), the
file status (`status`) and the engine. A scatter/gather list is its number in
order of allocation; `live` are the ones not yet freed. `completion` is its
`done` counter. The engine (external) processes in order, so four counters
(`submitted`, `issued`, `completed`, `called`) say all about it; a cookie is a
count, as in dmaengine. `kpc[t]` is where caller `t` is in the driver: since
there is no lock, each access to the channel structure is a step. The code and
the actions:

| code | actions |
|------|---------|
| `ioctl` | `IoctlCall`, `Return` |
| `start_transfer` | `AllocSgList`, `PrepSlaveSg(Fails)`, `DmaengineSubmit(Fails)`, `StoreCookie`, `IssuePending` |
| `wait_for_transfer` | `EnterWait`, `WaitForCompletion`, `WaitTimesOut`, `CheckStatus`, `FreeSgList`, `ClearSgList`, `NoSgList` |
| `sync_callback` | `SyncCallback` |
| hardware | `EngineFinish` |

`timedOut` is a history variable: a wait on this channel has timed out.
The device is taken to be registered (its coming and going is `DeviceTable`)
and `kmalloc` to succeed. A status check answers that the transfer is complete
or in progress; an engine that reports `DMA_ERROR` (driver 344-348) is left out,
so in the model `PROXY_ERROR` always means that a wait was ended by the callback
of another transfer, which is what `ErrorNeedsTimeout` is about.

### `DmaProxyLib` - the calls, over the driver
EXTENDS the driver. `busy` is `rd_busy` or `wr_busy` according to `Dir`; the
critical sections of `_wait_for_device` and `_mark_device_ready` are one step
each, and the condition wait splits the former. `owners` is a history variable:
threads that passed `_wait_for_device` and have not marked the channel ready.
`pending` is the state of the calling program: it calls `_complete` next.
Programs are `Blockers` or `Starters`; those in `Careful` call `_complete` only
after an `_nb` that returned 0. The programs and blocks of the repository are
not careful, which is why both kinds are modelled. READ and WRITE differ in two places,
both kept: `dmap_write_nb` does not validate the device index, and
`dmap_write_complete` passes 0 as the ioctl argument.

### `ExclusiveChannel` - what the two promise
One holder at a time, only the holder submits, success is reported only to the
holder and only when its last transfer is complete. The refinement mapping is
in `DmaProxyLib` (`Abstract`).

### `SgList`
One behaviour is one call: the library's bounds check, then the loops of
`start_transfer` with one step per iteration and the variables of the code. The
buffer is given by the offsets at which its segments start.

### `DeviceTable`
One action per outcome of `dma_proxy_probe` (it runs under the mutex), three
steps for `dma_proxy_remove` (before, under and after the mutex), and `Open`,
`IoctlLookup`, `IoctlReturn`, `Close` for user threads. Structures are named by
device and probe number, classes by order of creation. `failed` is a history variable.
`Index` gives the number in a device's `dma-names`, distinct as in a device
tree. `badClass` records that a class was used or destroyed that does not exist.
`nodeless` are the devices whose `proxy_device_p` is an error pointer: their
`device_create` failed, `cdevice_init` undid its work and returned 0 (driver 729),
and they were registered all the same. When such a device is removed its
character device is deleted a second time, which `badCdev` records.
`device_create` fails for certain when the global class is the error pointer a
failed `class_create` left (external: the kernel refuses it).

### `DmaBuffer` and `LibBuffers`
`DmaBuffer` says what `mmap`, `dma_proxy_vma_close` and `release` do to the
segments of a file; files are numbered as they are opened and segment
`<<f, k>>` is entry `k` of the list of file `f`. `segs[f][k]` is the page of the
mapping that segment `k` reaches to, so its size is the difference to the one
before. Which of the orders the allocator grants is left open, including none. `LibBuffers` puts these into
the steps of a process: constructor, `dmap_alloc_buffer`, `dmap_free_buffer`,
`_buffer_select_helper`, destructor, one step each since they hold
`master_mutex`; the ioctl that uses a selected descriptor comes later and
without the mutex. A process may end at any point and another one start.
Descriptors are given out lowest first, addresses freely. Three defects are in
the model and are hypotheses of the properties, each a history variable: memory
gained by `realloc` is not cleared (`clean`), an `mmap` that runs out of memory
leaks the segments it had (`nomem`), a failed `mmap` leaks its descriptor
(`mmapFailed`). Programs do not free a buffer while a transfer uses it.

### `ZynqBlock`
One program, alone on its device, in batches. The seven programs differ in three
ways, written down as records: whether data is copied to buffers of their own
(`zynq_loopback_legacy`, `dma-proxy-util-file`, `dma-proxy-util-nb`), whether the number of batches
comes from the input alone (TC decoder), how often a call is repeated
(`d_load`). The loop is one action per call of the library. The accelerator is
a queue that answers batch by batch; the engine does the transfers of a channel
in order and its callbacks run when they like. The TC decoder does not ask for
`zynq_buffer`, so its buffers may be ones the library does not know; it writes `CW_BITS`
bytes of a batch of `CW_BITS` floats (157), and which part of a batch the accelerator is
sent is left out. The place of batch `i` is `i % N`. `zynq_buffer` is mapped once
and moves its data to the start of the buffer when a neighbour is blocked (`zynq_buffer.cc` 142-199),
which GNU Radio does between calls of the blocks. By `DmaInsideCall` no transfer
is with the engine then, so the places do not matter to `OutputInOrder`; after a
timeout one may be, and no property says anything of places after a timeout.

### `SceneGraph`, `TaskGraph`
`SceneGraph` defines, as reachability in the graph of tasks, what the run
queue derives from it: active tasks, tasks covered by a setscene task, setscene
tasks to wait for, unskippable tasks. Reachability (`Reach`) is the least set
closed under the edges, which needs no recursion. `TaskGraph` has the algorithms with their
work lists: `Init` is the pruning of step C of `prepare`, `Weigh*` is
`calculate_task_weights` (the numbers themselves are left out, the reverse
dependencies that are left are kept, since they find the loops),
`ProcessEndpoint` and `EndpointRound` are `process_endpoints`, `EndpointsDone` and
`Unskippable*` the search for unskippable tasks and the sanity check after it,
`HardDepends*` the treatment of `[depends]` flags. A flag that names a task
that is not active ends the preparation (`nonexistent`); one that names a task
without a setscene variant makes its owner wait for a task that nothing settles,
as in the code. An item of a work list is
taken in any order. `InputsAssumption` says what `prepare` has established by
then: finitely many tasks, whose dependencies are tasks. The run compares the result with `SceneGraph`.

### `RunQueue`
Sets and variables have the names of the code. A call of `execute` is one step
of the server, because it runs to one of its returns; the returns are the
actions:

| code | actions |
|------|---------|
| `execute`, a setscene task is due | `SkipUnneeded`, `SceneUnavailable`, `StartScene` |
| `execute`, none is due | `SkipTask`, `StartTask`, `WaitWorkers`, `ForceDeferred`, `EndBuild` |
| `read_workers`, `runqueue_process_waitpid` | `Exit` |
| `finish`, `finish_now` | `Finish`, `FinishNow` |

The exit codes `execute` reads at its start are steps of their own; a task that
fails there without `-k` ends the build although that call still goes on to its
end, which is `executing`. `interrupted` is a history variable: a shutdown or
a dead worker ended the build. `unneeded` is what the metadata's
depvalidate function (`BB_SETSCENE_DEPVALID`) answers in this build, external to bitbake.
`update_holdofftasks` recomputes the sets that connect the queues (`Covered`,
`NotCovered`, `Holdoff`, `Buildable`) at most once per call. A stamp is its time:
none, one of the times of earlier builds, in any order for any tasks, or this
build. Those of this build need not be told apart, since a task is run once and
after what it depends on. A build without setscene tasks starts with the
setscene part done (1488-1495).
More is allowed than the code does in these places: the order in which setscene
tasks are looked at and the scheduler's priorities are any order, and the cache
holds any set of results. Left out: the cache of stamp checks within a
call; the stamp policies other than `perfile`; the rest of the call of
`execute` that finds a worker dead, and exit codes that arrive after the end;
setscene stamps of noexec tasks are made before all other checks, where the
code makes them one by one. `SQData` is computed once and kept in `sqdata`.

`MCDmaProxyLib`, `MCChannelLive`, `MCDeviceTable`, `MCLibBuffers`, `MCTaskGraph` and
`MCRunQueue` hold what TLC needs (symmetry, the two companies of callers of
`channel_live`, the device tree of the instance, what uncleared memory may hold, the
graphs to prepare, the build). Some invariants are conjunctions of named parts, such as
`MemorySound` of `NoLeak`, `FreedOnce` and `SegmentsFill`. Definitions whose names end
in `_Word` (such as `Claim_NoFlag`) are variants of the definition after them with a
plausible mistake; they show that a property notices it and are used by nothing else.
The modules `*_proof` extend the module they are named after and hold its theorems,
section 6.

## 4. Runs

| run | result | what it shows |
|-----|--------|---------------|
| `channel_nonblocking` | pass | three careful threads on one READ channel, timeouts, late callbacks, engine faults, bad arguments: `Exclusive`, `KernelExclusive`, `SuccessIsReal`, `SgListSound`, `ReadyMeansIdle`, `ReadyHoldsNoMemory`, `ErrorNeedsTimeout`, and the refinement of `ExclusiveChannel` |
| `channel_live` | pass | three blocking threads, or a blocking thread and a careless starter with engine faults: `EveryCallReturns`, `BusyEnds` under fairness |
| `channel_contended` | violation of `Exclusive` | a signalled waiter takes a channel that was claimed in between |
| `channel_write_complete` | violation of `ReadyMeansIdle` | `dmap_write_complete` does not wait |
| `sglist` | pass | all buffers and requests up to the bound: `EntriesSound` (segments that exist, inside them, never empty), `Covers`, `Terminates` |
| `device_load` | pass | two devices, two users, every fault: `TableSound` (the count is right, a registered device lacks its node only by its own failed `device_create`), `ClassSound`, `IoctlDeviceExists`, `UnloadIsClean` |
| `device_rebind` | violation of `ClassSound` | a device bound after the last was unbound is created under the destroyed class |
| `lib_buffers` | pass | processes that allocate, use, free, forget and die: `ListSound` (a transfer reaches its buffer, one entry per buffer), `MemorySound` (no leak, freed once, segments fill the mapping), `FiniCleans` |
| `block` | pass | all blocks with faults and late transfers: `OutputInOrder`, `Aligned`, `DmaInsideCall`, `WorkReturns` |
| `block_timeout` | violation of `ZeroMeansReceived` | a read that timed out is reported as success |
| `taskgraph` | pass | every small graph, every order of the work lists: `LoopsRefused`, `SceneDataRight`, `NoSceneDeadlock`, `Prepared` |
| `runqueue` | pass | a build with every content of the cache, stamps, failures, `-k` or not, shutdowns: `InputsPresent`, `SceneApart`, `Throttled`, `OutcomeRight`, `KeepGoing`, `BuildEnds` |

Where a run also checks `TypeOK`, that is the type invariant of its module.

### Bounds
`MaxTransfers` bounds the scatter/gather lists allocated in a behaviour. Four
transfers among three threads are enough for a transfer to time out, its
callback to come during the second and third, and a thread to be refused
meanwhile. The proofs of section 6 remove this and the other bounds for all
invariants; where a property is only model-checked, the bound matters.
`channel_live` uses three transfers of two companies. In the first three threads
block, so that two wait at once while the third holds the channel, and a signal
must not be lost on the wrong one; there are no engine faults and no waits that
end unsignalled. In the second one thread blocks, and its wait may end
unsignalled, and one starts transfers that may fail and ignores every return
code, as the blocks do: one that holds, one that waits, and one more to
overtake with. A careful starter that meets an engine fault is in neither: it leaves the
flag set for ever (section 5, library 556), and `BusyEnds` is false for it. Which
company it is is decided by the first call, and kept by an action constraint
(`OneCompany`); it excludes calls, which nobody has to make, and faults, in whose place
the step may succeed, so that no thread is stopped by it. The two together are
out of reach (15 million states). `SgList` has up to 4 segments and 8
units: a first, two middle and a last segment, each of any size. `DeviceTable`
has two devices in three slots, two probes per device and two loads, so that
one device can fail and be tried again while the other stays.
`LibBuffers` has four files over three descriptors and three addresses, so that
both are reused, and a list that grows twice by one entry; a mapping of three
pages is made of one to three segments. `ZynqBlock` has three batches in
buffers of two, so that places are reused, and four transfers per channel, so
that two batches can be done twice and a timed out transfer can meet the next two.
`TaskGraph` takes every graph of 3 tasks with its loops, every one of 4 tasks with
at most one dependency each (so with every loop of four), every loop-free graph of 4
tasks with up to two `[depends]` flags (a single one may name any task) and every one of
5 without: chains, a
diamond under two setscene tasks, and a setscene task in the middle of a chain
all occur. `RunQueue` has one build of 7 tasks on 2 threads in which the hard
cases meet: two setscene tasks of one hash and one stamp above a shared
ordinary task, a `[depends]` flag, a setscene task that may be unneeded, a
noexec task, two tasks of one recipe that may have stamps and setscene stamps of earlier builds,
either the older one (`MaxAge` is 2), a name limited to one
thread. Every content of the cache is an initial state. A build without setscene
tasks is an instance of the theorems of section 6 and not of this run.
`CHECK_DEADLOCK` is off because programs may stop calling, and the bounds stop them.

### Fairness
`FairSpec` has weak fairness of `Progress(t)` per thread: a thread that is
inside a call is scheduled, and a program that started a transfer goes on to
complete it: all programs and blocks call `_complete` unconditionally, after a
blocking write on the other channel, whose wait ends in time as well. The driver's wait is part of it
because `wait_for_completion_timeout` returns after 3 s whatever happens.
Nothing is assumed of the engine, of further calls, or of the condition wait:
its timeout is 5000 s, since seconds are set where the comment says
milliseconds, and its callers do not rely on it. `SgList` is one sequential
call, weakly fair as a whole. In `ZynqBlock` the thread of the block is weakly fair,
the device, the engine, source and sink are not. `TaskGraph` is one sequential
call. In `RunQueue` the server calls `execute` (or, once it shuts down,
`finish`) again as long as the build is not over, and a task handed to a worker
ends, with success or failure; nothing is assumed of the user or of the order in which
tasks end.

## 5. Findings

1. `_wait_for_device` (library 424-448) waits in an `if`, not in a loop, so
   "Blocking wait for device to be not busy" may end with a busy device. With
   two threads that make blocking calls both own the channel, both are in
   the driver, and the driver has no lock. Hence the hypothesis of the theorems.
2. `dmap_write_complete` passes 0 for the argument, `copy_from_user` fails and
   the ioctl returns without waiting; the channel is marked ready with the DMA
   running. The header says "This call blocks."
3. `cdevice_exit` destroys the class with the last device but keeps
   `PROXY_GLOBAL_CLASS`. Harmless at module unload, not when a device is
   unbound and bound again.
4. `wait_for_transfer` records a timeout in the file's status, which nobody
   can read: the ioctl and `dmap_read_complete` return 0. The programs that
   test the result use a buffer that was not written.

Also seen, in the models, without a run of its own:

* `dmap_read_nb` and `dmap_write_nb` (library 556) leave the channel busy when
  the ioctl fails. A caller that respects the error never completes, and the
  flag stays; callers that ignore the error release it.
* `cdevice_init` (driver 729) returns 0 when `device_create` fails, so the device is
  registered without a node, and its character device, already deleted, is deleted again
  when it is removed (`badCdev`).
* A failed `dmap_read_nb` shifts all later output of a block by one batch
  (`Aligned` needs `~failed`); a late read of a program with one buffer of its own
  (`zynq_loopback_legacy_impl.cc` 129, `dma-proxy-util-file`) does get the result of its
  batch, but in the buffer the loop uses for a later batch by then, and it is
  copied out as that one's result; the TC decoder block can produce more than there
  is room for (`overrun`); the three defects of the buffer code, section 3.
* Run queue 2163: `sq_deferred.pop(key)` returns the value, so the task forced
  is the one waited for and not the one that waits. When the former was
  skipped as unneeded it ends both covered and not covered, which the comment at 1946
  calls a bug. It needs a deferral to a task that may be unneeded, which the
  instance of the run does not have; section 6 says how a task then runs without its input.
* Run queue 2722 and 1991: a task that is named in a `[depends]` flag waits for none of
  its users, so if it names another it may be waved off for that one alone.
* Run queue 152-178: a failed task never leaves the count for `number_threads`,
  so with `-k` other tasks of that name may never run although they could.
  `KeepGoing` makes an exception for them (`NoSlotLeft`).
* Run queue 1999-2002: the wait for running tasks that a setscene task covers is
  a `continue` of the inner loop and has no effect. `SceneApart` shows that it is
  not needed.
* Run queue 82: the key for deferral contains the literal `taskname`, so that
  tasks of different names are paired if their hashes agree, where the comment says
  "We match on PN, taskname and hash being equal".
* Run queue 1794: a build cut short by `finish_now` reports success if no task
  had failed, hence `~interrupted` in `OutcomeRight`.

## 6. Proofs

Every theorem is about `Spec`, for every value of the constants that satisfies
the assumptions of its module: the types of the constants, and what is said
below. Hardly any of the properties is inductive as it stands. In each module `IInv` is the
inductive invariant, a conjunction of named parts; the first lemmas say that
`Init` implies it and that each action keeps it, and the theorems follow from it.

### Channel: `DmaProxyLib_proof`
For any finite set of threads, any number of transfers, both directions, with
every fault and timeout allowed.

* `TypeCorrect`, without further hypothesis.
* Under `Disciplined`: `ExclusiveHolds`, `KernelExclusiveHolds`, `SuccessIsRealHolds`,
  `SgListSoundHolds`, and `Refinement`: `Spec => ImplementsExclusiveChannel`.
* Under `Disciplined` and `CompleteWaits`, for an engine that reports no errors of its
  own: `ReadyMeansIdleHolds` and `ErrorNeedsTimeoutHolds`; with `NoLostList` as well,
  `ReadyHoldsNoMemoryHolds`.

`Disciplined` says that callers of `_nb` look at its result and that a thread
making blocking calls is alone on the channel. Both halves are needed:
finding 1 is the counterexample when two threads block, and a thread
that completes after `DMAP_DEVICE_IN_USE` releases the channel of another.
`CompleteWaits` says that nobody uses the nonblocking pair on a WRITE channel,
where finding 2 is the counterexample. `NoLostList` says that no blocking call
meets an engine fault: it would mark the channel ready with a list that nobody
frees.

`IInv` adds: the flag is set while there is an owner, and everybody past the
claim, in the driver or with a transfer to complete is the owner (`OwnerInv`);
the program counters fit the calls, so that a starter never blocks (`CallInv`);
the cookie in the channel is the one of the caller that is waiting or will
wait, and completed, issued and submitted are ordered (`CookieInv`); the list
pointer dangles only between `kfree` and the assignment of NULL (`ListInv`).
`SuccessIsReal` then follows from the cookie: a late callback can end a wait
early, but the status check compares the caller's own cookie.
For the refinement every step is shown to be one abstract step or a stutter:
`Claim` acquires, `MarkDeviceReady` releases, `DmaengineSubmit` submits, `EngineFinish`
completes, `CheckStatus` reports, the end of the wait forgets.
The idle channel needs three more parts: which command a caller at each place
has issued (`CmdInv`); as long as no wait timed out, at most one transfer is in
flight and the counters of the engine and of the completion differ by that one
(`FlightInv`); the only list in memory is the one the channel points to, and it
is gone where the channel is claimed or given back (`MemInv`).

### Scatter/gather list: `SgList_proof`
`TypeCorrect`, `EntriesSoundHolds` and `CoversHolds`, for any number of segments,
any sizes and any request. `IInv` says that no segment is empty and the offset
is in the buffer (`BufferInv`), and has one invariant per loop: the start of the
segment the first loop is at and what remains add up to the offset (`StartInv`);
every segment the second loop has passed is needed, and it stops where they
suffice (`EndInv`); the entries below `idx` are the right ones (`FillInv`). The
library's bounds check is what keeps the loops inside the buffer.

### Life of devices: `DeviceTable_proof`
For any finite set of devices, slots, loads and probes, and every failure of a
kernel service. `TypeCorrect`, `TableSoundHolds` and `UnloadIsCleanHolds` hold
with and without hotplug: the table holds the current structure of each device
that is probed and nothing else, and the count is the number of its entries
(`SlotInv`); only such devices have a character device or a node, and each has them
unless it is in `nodeless` (`NodeInv`);
between two loads there is at most one class, the global points to it, and it is
there only while a device is (`ClassInv`). `ClassSoundHolds` and
`IoctlDeviceExistsHolds` assume `~Hotplug`, devices bound and unbound only with
the module: without it finding 3 is the counterexample to the first, and a
device unbound after the lookup of an ioctl the counterexample to the second. `FixedInv`
then says that removal and probing never overlap, and that an ioctl keeps the module
loaded (`PhaseInv`); and that, unless a probe failed, the class the global points to
exists while devices can be probed or are there (`LiveClassInv`).

### Buffers: `LibBuffers_proof`
For any number of files, descriptors, addresses, threads and processes.
`TypeCorrect`, `ListSoundHolds`, `FiniCleansHolds`, and `MemoryKept`, which is
`NoLeak /\ FreedOnce`. The invariant: no two descriptors or addresses lead to
one file (`FileInv`); the memory of the mapped files is allocated, and nothing
else is (`MemInv`); an entry in use is for a buffer, of which it has the
descriptor (`EntryInv`); no buffer has two entries and, while the library
lives, each has one (`UniqueInv`); a selected entry is still in the list
(`SelectInv`); only a failed mmap leaves a descriptor without an entry
(`OpenInv`); a process that has ended has nothing (`DeadInv`). The history
variables `clean`, `nomem` and `mmapFailed` are hypotheses where the
properties have them. `MemorySoundHolds` adds that the segments fill the mapping.
It has the hypothesis `PowersOfTwo`, which is how `Naturals` defines
`2^i`: the provers have no arithmetic of powers. From it follows that the largest order
that fits exists, so a segment is at least one page and never longer than what is left.

### Blocks: `ZynqBlock_proof`
`TypeCorrect`, `OutputInOrderHolds`, `AlignedHolds`, `DmaInsideCallHolds`, for
all programs, any number of batches, any size of the buffers and any load.
The invariant: a call works on batches that are there (`CallInv`) and its own
buffer has the current one once it is copied (`CopyInv`); a channel on which no
wait timed out has exactly the transfer of this batch, or nothing (`TxInv`,
`RxInv`), and nothing at all if the buffers are not DMA buffers (`NoDmaInv`);
reads are paired with the results on their way (`AlignInv`, as long as no write timed out and
no call returned an error; `AlignedHolds` says which batch's result a read receives, not
where that is used afterwards); once the completion
of a read can be seen its result has arrived (`ReceivedInv`); there is room for
the output (`RoomInv`); and what the sink may take, with what the call has done,
is right (`OutInv`). The last two need that places less than `N` apart differ,
a lemma about `%`.

### Preparation: `SceneGraph_proof`, `TaskGraph_proof`
`SceneGraph_proof` has the lemmas about reachability, and that among any tasks
of a finite graph without loops one depends on none of the others
(`SomeTaskAtBottom`) and one is needed by none (`SomeTaskOnTop`): the one that
reaches fewest, or most. `TaskGraph_proof` proves,
for every finite graph and every order of the work lists: `LoopsRefusedHolds`, a
graph is refused exactly when it has a loop; `SceneDataRightHolds`, the setscene
graph and the unskippable tasks are the ones `SceneGraph` defines; `NeverWrong`, the fatal error of
`build_scenequeue_data` ("Something went badly wrong during scenequeue
generation") does not occur; and `NoSceneDeadlockHolds`, for `[depends]` flags
without a circle among themselves, which the code does not check. No induction
over the graph is needed, because reachability is a least closed set. A task
that has been weighed is on no loop and its count is that of the users not yet
weighed (`WeightsInv`); what a setscene task has collected is reachable, and
closed but for what is handed on (`SquashInv`); an ordinary task is due, waits
for a user or is dealt with, so that nothing is forgotten (`PendingInv`); a
task named by a processed flag waits only for those it names (`HardInv`);
what has been found unskippable is so, and a round that adds nothing has
found all (`SkipInv`).

### Execution: `RunQueue_proof`
All for any finite build that satisfies `BuildAssumption`, any cache, stamps,
failures and shutdowns.

* `TypeCorrect`, `ThrottledHolds` and `SceneApartHolds`, without further hypothesis.
* Under `UnneededApart`: `InputsPresentHolds`.
* Under `UnneededApart` and `LoopFree`: `OutcomeRightHolds` and `KeepGoingHolds`.

`UnneededApart` says of a setscene task that depvalidate may wave off that no task is
deferred to it, and that it is not in the middle of a chain of `[depends]` flags, named
in one and naming another in its own. TLC finds a task that runs without an input in
small builds with either. The code enforces neither. In a build with one configuration
no two tasks of a recipe have one hash, so nothing is deferred; but OE-core's
depvalidate always waves off `do_populate_lic` (`sstate.bbclass` 1031), and in a
multiconfig build one such task may be deferred to another. In the first (section 5, run
queue 2163) the task is waved off, and so are those it would need; then it is forced and
runs. In the second it waits for the ones it names only, and is waved off when they are
covered; the task that names it then fails, and runs without it. `LoopFree` says that
neither the tasks nor the setscene tasks wait in a circle: `prepare` refuses the former
(`LoopsRefusedHolds`), and `NoSceneDeadlockHolds` of the preparation is the latter. The
instance of the run satisfies both.

`IInv`: what is running or over has been marked as running (`QueueInv`); a
setscene task is not settled while a worker runs it, because it is not started
before those it waits for are settled (`SettleInv`); the set of tasks held off
may be out of date only on the safe side, and no task below an unsettled
setscene task runs (`HoldInv`). `SceneApart` follows from the last; the wait in
the code at 1999-2002 is not needed for it.

`InputInv`: what is buildable has its dependencies complete (`ReadyInv`); the
lists of covered tasks are up to date or marked for update (`ListsInv`); no setscene task is
both covered and not, since one that others are deferred to is not in the
cache (`DeferInv`); a covered one was fetched, is up to date or was waved off
when its users were covered (`FetchInv`); what runs is not covered (`LiveInv`);
and a complete task is decided for good: its result is there, or it is covered
and stays so (`DoneInv`). If a task that runs lacked an input, the input would
be covered by a setscene task that was not fetched; that one was waved off, so
its users are covered, and the task that runs is a user or covered by one.

`WorkInv`: an unsettled setscene task that waits for none can be started
(`SceneQueueInv`); no task is forgotten when the setscene tasks above it are
settled (`DecidedInv`) or its dependencies are complete (`QueuedInv`); only a
failure without `-k` or a request shuts the build down (`ShutdownInv`). When a
queue has nothing to start and nothing runs, the lemmas on graphs without loops
give the contradiction: of the setscene tasks not settled one waits for none of
the others, and of the tasks that neither are complete nor depend on a failure
or a name without a slot, one has all its dependencies complete.

### Only model-checked
* The liveness properties `EveryCallReturns`, `BusyEnds`, `Terminates`,
  `WorkReturns`, `Prepared`, `BuildEnds`: the prover has no rules for fairness.
* The violations of section 5, which are counterexamples.

## 7. Not modelled

* Registers (`dmap_reg_*`, the configuration of the FFT): one thread, straight-line
  code, failures that one call shows. The software blocks and the coding half
  of the turbo code: functions of their arguments that a test can try at every
  size.
* Run queue: hashes that change during a build (`process_possible_migrations`,
  2268-2431; which hashes change is the hash server's decision), setscene
  enforcement, `--force`, `--setscene-only`, `--skip-setscene`, `nostamp`
  tasks, a fakeroot worker that cannot be started, and the first half of
  `prepare`, which resolves names and flags of recipes to tasks. Of its second
  half: the resolution of targets with its fatal error (872-903), targets that
  end in `-` (905-908), `--runall` and `--runonly` (924-976), all of which only give
  another set of roots to `mark_active`, and the fatal errors for an empty queue
  (983-987). In `RunQueue` a `[depends]` flag names setscene tasks only; one that
  names another task, for which `TaskGraph` shows an entry that nothing settles, is
  left out there.
* The `DMA_ERROR` status of the engine (driver 344-348).
* Mappings duplicated by fork, and failures of `kzalloc` and `krealloc`; a
  process that dies during a DMA (its segments are freed under the engine).
* Several processes on one device: the flag is per process, so nothing excludes
  them; the driver's steps are modelled finely enough to add them.
* `_wait_for_device` for an index that `dmap_write_nb` did not validate.
* Floating point: matrix inversion (block, HLS), the difference ratio, the
  turbo decoder's metrics.
* The rest of the vendored tooling (bitbake's parser, fetchers, server, hash
  server and user interfaces, OE-core's classes and scripts, toaster) and the
  layers `meta-*` other than `meta-zynq-gr`, build scripts, the FPGA designs, the
  Python bindings (generated) and benchmarks. Nearly all Python of the
  repository is in this group, so the models cover a small share of its Python
  lines and most of the repository's own C and C++ control.
