----------------------------- MODULE DmaProxyLib -----------------------------
(***************************************************************************)
(* The transfer calls of dma-proxy-lib (dmap_read, dmap_read_nb,           *)
(* dmap_read_complete and their WRITE twins) for one channel of one device *)
(* in one process, composed with the driver's channel (DmaProxyDriver).    *)
(*                                                                         *)
(* The library keeps, per channel, a busy flag under a mutex and a         *)
(* condition variable.  The mutex is held only for the few statements of   *)
(* _wait_for_device and _mark_device_ready and is given up by the          *)
(* condition wait, so each of these critical sections is one step.         *)
(*                                                                         *)
(* Callers are the programs of the repository: a thread in Blockers calls  *)
(* dmap_read / dmap_write (dma-proxy-util), a thread in Starters calls the *)
(* _nb call and then the _complete call (dma-proxy-util-nb, -file and the  *)
(* GNU Radio blocks).  Those programs call _complete whatever _nb          *)
(* returned; a thread in Careful does so only when _nb returned 0, which   *)
(* is what "wait for previously started operation" asks of a caller.       *)
(***************************************************************************)
EXTENDS DmaProxyDriver

CONSTANTS Dir,       \* "READ" or "WRITE": the channel of the device
          Blockers,  \* threads that use the blocking call
          Starters,  \* threads that use the nonblocking pair of calls
          Careful,   \* Starters that look at what the _nb call returned
          ArgErrors, \* the argument errors the programs make
          LibTimeouts \* the threads whose pthread_cond_timedwait may end unsignalled

DMAP_INVALID_BUF_PTR      == 2
DMAP_INVALID_DEVICE_IDX   == 3
DMAP_ACCESS_OUT_OF_BOUNDS == 4
DMAP_DEVICE_IN_USE        == 5

ASSUME LibAssumption == /\ Dir \in {"READ", "WRITE"}
                        /\ Blockers \subseteq Threads
                        /\ Starters \subseteq Threads
                        /\ Careful \subseteq Starters
                        /\ ArgErrors \subseteq {DMAP_INVALID_BUF_PTR,
                                            DMAP_INVALID_DEVICE_IDX,
                                            DMAP_ACCESS_OUT_OF_BOUNDS}
                        /\ LibTimeouts \subseteq Threads

VARIABLES
  busy,     \* rd_busy / wr_busy
  pc,       \* where each thread is in the library
  call,     \* the API call it is in, or was in last
  rc,       \* the value the call returns
  owners,   \* threads that passed _wait_for_device and have not marked ready yet
  pending   \* threads whose program calls _complete next

libVars == <<busy, pc, call, rc, owners, pending>>
vars    == <<drvVars, libVars>>

Calls == {"blocking", "nb", "complete"}
LibPcs == {"idle", "claim", "waiting", "signalled", "claimed",
           "complete", "ioctl", "ready"}

ReturnCodes == {0, -1, Uncopied, DMAP_INVALID_BUF_PTR, DMAP_INVALID_DEVICE_IDX,
                DMAP_ACCESS_OUT_OF_BOUNDS, DMAP_DEVICE_IN_USE}

Init ==
  /\ DrvInit
  /\ busy    = FALSE
  /\ pc      = [t \in Threads |-> "idle"]
  /\ call    = [t \in Threads |-> "blocking"]
  /\ rc      = [t \in Threads |-> 0]
  /\ owners  = {}
  /\ pending = {}

-----------------------------------------------------------------------------
(* Entry of the API calls: the checks of the arguments                     *)

\* What the argument checks and _buffer_select_helper may answer to a call
\* that starts a transfer.  dmap_write_nb does not validate the device index.
\* The _complete call is given the device and the buffer of the _nb call, so
\* a device or a pointer that was unknown there is unknown again; its zero
\* length is never out of bounds.
SelectResults(t, c) ==
  CASE c = "complete" -> IF rc[t] \in {DMAP_INVALID_BUF_PTR, DMAP_INVALID_DEVICE_IDX}
                         THEN {rc[t]} ELSE {0}
    [] c = "nb" /\ Dir = "WRITE" -> {0} \cup (ArgErrors \ {DMAP_INVALID_DEVICE_IDX})
    [] OTHER -> {0} \cup ArgErrors

\* Bound: threads that have not reached kmalloc yet count as transfers.
Starting == {t \in Threads : \/ pc[t] \in {"claim", "waiting", "signalled", "claimed"}
                             \/ kpc[t] = "alloc"}
Budget == nalloc + Cardinality(Starting) < MaxTransfers

\* Call c of thread t: the checks, and on success on to program point next.
Enter(t, c, next) ==
  /\ pc[t] = "idle"
  /\ call' = [call EXCEPT ![t] = c]
  /\ \E r \in SelectResults(t, c) :
       /\ rc' = [rc EXCEPT ![t] = r]
       /\ pc' = [pc EXCEPT ![t] = IF r = 0 THEN next ELSE "idle"]
       \* a program that ignores the result of _nb completes it all the same
       /\ pending' = CASE r = 0 -> pending
                      [] r # 0 /\ c = "nb" -> pending \cup ({t} \ Careful)
                      [] OTHER -> pending \ {t}
  /\ UNCHANGED <<drvVars, busy, owners>>

\* dmap_read, dmap_write
CallBlocking(t) ==
  /\ t \in Blockers /\ t \notin pending /\ Budget
  /\ Enter(t, "blocking", "claim")

\* dmap_read_nb, dmap_write_nb
CallNonblocking(t) ==
  /\ t \in Starters /\ t \notin pending /\ Budget
  /\ Enter(t, "nb", "claim")

\* dmap_read_complete, dmap_write_complete: no _wait_for_device
CallComplete(t) ==
  /\ t \in Starters /\ t \in pending
  /\ Enter(t, "complete", "complete")

-----------------------------------------------------------------------------
(* _wait_for_device                                                        *)

\* Mutant: the flag is not set.
Claim_NoFlag(t) == /\ owners' = owners \cup {t}
                   /\ pc'   = [pc EXCEPT ![t] = "claimed"]
                   /\ UNCHANGED <<drvVars, busy, call, rc, pending>>

Claim(t) == /\ busy' = TRUE
            /\ owners' = owners \cup {t}
            /\ pc'   = [pc EXCEPT ![t] = "claimed"]
            /\ UNCHANGED <<drvVars, call, rc, pending>>

\* Mutant: the nonblocking call, too, goes on when the channel is busy.
WaitForDevice_NoInUse(t) ==
  /\ pc[t] = "claim"
  /\ Claim(t)

WaitForDevice(t) ==
  /\ pc[t] = "claim"
  /\ \/ ~busy /\ Claim(t)
     \/ /\ busy /\ call[t] = "blocking"      \* pthread_cond_timedwait
        /\ pc' = [pc EXCEPT ![t] = "waiting"]
        /\ UNCHANGED <<drvVars, busy, call, rc, owners, pending>>
     \/ /\ busy /\ call[t] = "nb"
        /\ pc' = [pc EXCEPT ![t] = "idle"]
        /\ rc' = [rc EXCEPT ![t] = DMAP_DEVICE_IN_USE]
        /\ pending' = pending \cup ({t} \ Careful)
        /\ UNCHANGED <<drvVars, busy, call, owners>>

\* The wait ends without a signal: ETIMEDOUT, or a spurious wakeup, which
\* POSIX allows.  The code treats both like a signal.
WaitEndsUnsignalled(t) ==
  /\ pc[t] = "waiting"
  /\ t \in LibTimeouts
  /\ pc' = [pc EXCEPT ![t] = "signalled"]
  /\ UNCHANGED <<drvVars, busy, call, rc, owners, pending>>

\* The mutex is taken again and the wait returns.  The flag is not looked at
\* a second time.
WaitReturns(t) ==
  /\ pc[t] = "signalled"
  /\ Claim(t)

-----------------------------------------------------------------------------
(* The ioctls and _mark_device_ready                                       *)

StartIoctl(t) ==
  /\ pc[t] = "claimed"
  /\ IoctlCall(t, IF call[t] = "nb" THEN "START" ELSE "BLOCKING", TRUE)
  /\ pc' = [pc EXCEPT ![t] = "ioctl"]
  /\ UNCHANGED <<busy, call, rc, owners, pending>>

\* Mutant: dmap_read_complete, too, passes no argument.
CompleteIoctl_NoArgument(t) ==
  /\ pc[t] = "complete"
  /\ IoctlCall(t, "COMPLETE", FALSE)
  /\ pc' = [pc EXCEPT ![t] = "ioctl"]
  /\ UNCHANGED <<busy, call, rc, owners, pending>>

\* dmap_read_complete passes &rw_info, dmap_write_complete passes 0.
CompleteIoctl(t) ==
  /\ pc[t] = "complete"
  /\ IoctlCall(t, "COMPLETE", Dir = "READ")
  /\ pc' = [pc EXCEPT ![t] = "ioctl"]
  /\ UNCHANGED <<busy, call, rc, owners, pending>>

\* Mutant: the _nb call, too, marks the channel ready.
IoctlReturn_Ready(t) ==
  /\ pc[t] = "ioctl"
  /\ kpc[t] = "user"
  /\ rc' = [rc EXCEPT ![t] = ret[t]]
  /\ \/ /\ call[t] = "nb"
        /\ pc' = [pc EXCEPT ![t] = "idle"]
        /\ busy' = FALSE
        /\ pending' = pending \cup (IF ret[t] = 0 THEN {t} ELSE {t} \ Careful)
     \/ /\ call[t] # "nb"
        /\ pc' = [pc EXCEPT ![t] = "ready"]
        /\ UNCHANGED <<busy, pending>>
  /\ UNCHANGED <<drvVars, call, owners>>

\* The ioctl is over.  The _nb call returns with the channel still claimed,
\* whether or not the transfer was started.
IoctlReturn(t) ==
  /\ pc[t] = "ioctl"
  /\ kpc[t] = "user"
  /\ rc' = [rc EXCEPT ![t] = ret[t]]
  /\ \/ /\ call[t] = "nb"
        /\ pc' = [pc EXCEPT ![t] = "idle"]
        /\ pending' = pending \cup (IF ret[t] = 0 THEN {t} ELSE {t} \ Careful)
     \/ /\ call[t] # "nb"
        /\ pc' = [pc EXCEPT ![t] = "ready"]
        /\ UNCHANGED pending
  /\ UNCHANGED <<drvVars, busy, call, owners>>

\* Mutants: nobody is signalled; the flag is not cleared.
MarkDeviceReady_NoSignal(t) ==
  /\ pc[t] = "ready"
  /\ busy' = FALSE
  /\ owners' = owners \ {t}
  /\ pending' = pending \ {t}
  /\ pc' = [pc EXCEPT ![t] = "idle"]
  /\ UNCHANGED <<drvVars, call, rc>>

MarkDeviceReady_StillBusy(t) ==
  /\ pc[t] = "ready"
  /\ owners' = owners \ {t}
  /\ pending' = pending \ {t}
  /\ pc' = [pc EXCEPT ![t] = "idle"]
  /\ UNCHANGED <<drvVars, busy, call, rc>>

\* busy = false; pthread_cond_signal(cv)
MarkDeviceReady(t) ==
  /\ pc[t] = "ready"
  /\ busy' = FALSE
  /\ owners' = owners \ {t}
  /\ pending' = pending \ {t}
  /\ LET waiters == {u \in Threads : pc[u] = "waiting"}
     IN  \/ /\ waiters = {}
            /\ pc' = [pc EXCEPT ![t] = "idle"]
         \/ \E u \in waiters :
              pc' = [pc EXCEPT ![t] = "idle", ![u] = "signalled"]
  /\ UNCHANGED <<drvVars, call, rc>>

-----------------------------------------------------------------------------
LibStep(t) == \/ CallBlocking(t) \/ CallNonblocking(t) \/ CallComplete(t)
              \/ WaitForDevice(t) \/ WaitEndsUnsignalled(t) \/ WaitReturns(t)
              \/ StartIoctl(t) \/ CompleteIoctl(t) \/ IoctlReturn(t)
              \/ MarkDeviceReady(t)

Next == \/ \E t \in Threads : LibStep(t)
        \/ \E t \in Threads : KernelStep(t) /\ UNCHANGED libVars
        \/ EngineStep /\ UNCHANGED libVars

Spec == Init /\ [][Next]_vars

(***************************************************************************)
(* Fairness.  A thread that is inside a call goes on (the kernel schedules *)
(* it; the driver's wait ends by its 3000 ms timeout at the latest), and a *)
(* program that started a transfer goes on to complete it.  Nothing is     *)
(* assumed of the DMA engine, of programs making further calls, or of the  *)
(* condition wait ending without a signal.                                 *)
(***************************************************************************)
Progress(t) == \/ CallComplete(t)
               \/ WaitForDevice(t) \/ WaitReturns(t)
               \/ StartIoctl(t) \/ CompleteIoctl(t) \/ IoctlReturn(t)
               \/ MarkDeviceReady(t)
               \/ KernelStep(t) /\ UNCHANGED libVars

FairSpec == Spec /\ \A t \in Threads : WF_vars(Progress(t))

-----------------------------------------------------------------------------
(* Properties                                                              *)

\* Type invariant.
TypeOK ==
  /\ DrvTypeOK
  /\ busy    \in BOOLEAN
  /\ pc      \in [Threads -> LibPcs]
  /\ call    \in [Threads -> Calls]
  /\ rc      \in [Threads -> ReturnCodes]
  /\ owners  \subseteq Threads
  /\ pending \subseteq Threads

\* The busy flag does its work: no two threads have passed _wait_for_device
\* on the channel without a _mark_device_ready in between.
Exclusive == \A t, u \in owners : t = u

\* The unlocked driver code is never run by two threads on one channel, so
\* none of them sees the list, completion or cookie of another.
KernelExclusive ==
  \A t, u \in Threads : kpc[t] # "user" /\ kpc[u] # "user" => t = u

\* wait_for_transfer stores PROXY_NO_ERROR only when the caller's own
\* transfer is complete, although the callback of an earlier transfer that
\* timed out may be what ended the wait.
SuccessIsReal ==
  \A t \in Threads :
    kpc[t] \in {"free", "clear"} /\ status[t] = "PROXY_NO_ERROR"
      => 0 < mine[t] /\ mine[t] <= completed

\* No scatter/gather list is freed twice, and device_prep_slave_sg is never
\* given one that has been freed.
SgListSound ==
  /\ ~badFree
  /\ \A t \in Threads : kpc[t] = "prep" => sglist \in live

\* A channel marked ready has no DMA running on it, unless a wait has timed
\* out (the driver then leaves the transfer with the engine): what the
\* library calls complete is complete, and no buffer is written behind its
\* owner's back.
ReadyMeansIdle == ~busy /\ ~timedOut => completed = submitted

\* A channel that is marked ready holds no scatter/gather list, not even
\* after timeouts.
ReadyHoldsNoMemory == ~busy => live = {}

\* As long as the DMA engine answers in time every transfer ends in
\* PROXY_NO_ERROR: the callback that ends a wait is the transfer's own.
ErrorNeedsTimeout ==
  ~timedOut => \A t \in Threads :
                 kpc[t] \in {"free", "clear"} => status[t] = "PROXY_NO_ERROR"

\* The library and the driver together implement the abstract channel.
Abstract == INSTANCE ExclusiveChannel WITH
              holders <- owners,
              last    <- mine,
              success <- {t \in Threads : /\ kpc[t] \in {"free", "clear"}
                                         /\ status[t] = "PROXY_NO_ERROR"}

ImplementsExclusiveChannel == Abstract!Spec

\* Every API call returns: no wakeup is lost between _mark_device_ready and
\* _wait_for_device, and nobody waits for a completion for ever.
EveryCallReturns == \A t \in Threads : pc[t] # "idle" ~> pc[t] = "idle"

\* A claimed channel becomes ready again.
BusyEnds == busy ~> ~busy
=============================================================================
