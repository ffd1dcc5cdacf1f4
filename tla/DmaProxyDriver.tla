--------------------------- MODULE DmaProxyDriver ---------------------------
(***************************************************************************)
(* One DMA channel (one direction of one device) of the dma-proxy kernel   *)
(* driver: struct dma_proxy_channel, the ioctl that starts a transfer on   *)
(* it and waits for it, the completion callback, and the dmaengine channel *)
(* underneath.                                                             *)
(*                                                                         *)
(* The driver takes no lock in ioctl, start_transfer or wait_for_transfer, *)
(* so every access to the shared channel structure is a step of its own    *)
(* and the steps of several callers interleave freely.  Each caller uses a *)
(* buffer (an open file) of its own; what start_transfer computes from the *)
(* buffer list is the subject of module SgList.                            *)
(***************************************************************************)
EXTENDS Integers, FiniteSets

CONSTANTS Threads,        \* the threads that may issue an ioctl
          MaxTransfers,   \* bound: number of start_transfer calls explored
          DriverTimeouts, \* may the 3000 ms wait of wait_for_transfer elapse?
          EngineFaults    \* may device_prep_slave_sg / dmaengine_submit fail?

ASSUME DriverAssumption == /\ IsFiniteSet(Threads)
                           /\ MaxTransfers \in Nat
                           /\ DriverTimeouts \in BOOLEAN
                           /\ EngineFaults \in BOOLEAN

VARIABLES
  \* struct dma_proxy_channel
  sglist,     \* the scatter/gather list pointer; allocations are numbered, 0 is NULL
  cmp,        \* the done counter of struct completion
  cookie,     \* the dmaengine cookie stored last (-1: an error code)
  \* the kernel heap, as far as scatter/gather lists go
  live,       \* lists that kmalloc returned and kfree has not been given
  nalloc,     \* number of lists allocated so far
  badFree,    \* a list was given to kfree that was not allocated
  \* the dmaengine channel (external): transfers are handled in order, so
  \* cookie n is submitted, issued, completed, called back when n is at most
  \* the counter of that name
  submitted, issued, completed, called,
  timedOut,   \* history: some wait on the channel has timed out
  \* per caller
  kpc,        \* where the caller is inside the driver; "user" when it is not
  cmd,        \* the ioctl command
  mine,       \* the cookie dmaengine_submit returned to the caller (0: none)
  status,     \* proxy_file->status
  ret         \* the ioctl's return value

channel   == <<sglist, cmp, cookie>>
heap      == <<live, nalloc, badFree>>
engine    == <<submitted, issued, completed, called, timedOut>>
callers   == <<kpc, cmd, mine, status, ret>>
drvVars   == <<channel, heap, engine, callers>>

\* The three kinds of command; the READ ones use rx_channel, the WRITE ones
\* tx_channel, and are alike in everything else.
Cmds == {"BLOCKING", "START", "COMPLETE"}

ProxyStatus == {"PROXY_NO_ERROR", "PROXY_BUSY", "PROXY_TIMEOUT", "PROXY_ERROR"}

KernelPcs == {"user", "alloc", "prep", "submit", "store", "issue",
              "wait", "woken", "timedout", "free", "clear"}

\* Bytes copy_from_user could not copy: sizeof(struct dma_proxy_rw_info).
Uncopied == 12

DrvInit ==
  /\ sglist = 0 /\ cmp = 0 /\ cookie = 0
  /\ live = {} /\ nalloc = 0 /\ badFree = FALSE
  /\ submitted = 0 /\ issued = 0 /\ completed = 0 /\ called = 0
  /\ timedOut = FALSE
  /\ kpc    = [t \in Threads |-> "user"]
  /\ cmd    = [t \in Threads |-> "BLOCKING"]
  /\ mine   = [t \in Threads |-> 0]
  /\ status = [t \in Threads |-> "PROXY_NO_ERROR"]
  /\ ret    = [t \in Threads |-> 0]

-----------------------------------------------------------------------------
(* ioctl: entry and exit                                                   *)

\* Entering wait_for_transfer marks the caller's file busy.
EnterWait(t) == /\ kpc'    = [kpc EXCEPT ![t] = "wait"]
                /\ status' = [status EXCEPT ![t] = "PROXY_BUSY"]

Return(t, value) == /\ kpc' = [kpc EXCEPT ![t] = "user"]
                    /\ ret' = [ret EXCEPT ![t] = value]

\* ioctl(file, c, arg) up to the dispatch on the command.  An argument that
\* cannot be copied from user space ends the call at once, and the number of
\* bytes not copied, a positive number, is the result.
IoctlCall(t, c, argReadable) ==
  /\ kpc[t] = "user"
  /\ cmd' = [cmd EXCEPT ![t] = c]
  /\ \/ /\ ~argReadable
        /\ Return(t, Uncopied)
        /\ UNCHANGED status
     \/ /\ argReadable /\ c = "COMPLETE"
        /\ EnterWait(t)
        /\ UNCHANGED ret
     \/ /\ argReadable /\ c # "COMPLETE"
        /\ kpc' = [kpc EXCEPT ![t] = "alloc"]
        /\ UNCHANGED <<status, ret>>
  /\ UNCHANGED <<channel, heap, engine, mine>>

-----------------------------------------------------------------------------
(* start_transfer                                                          *)

\* The list of the transfer is allocated straight into the channel; whatever
\* list the channel still pointed to is forgotten.
AllocSgList(t) ==
  /\ kpc[t] = "alloc"
  /\ nalloc' = nalloc + 1
  /\ sglist' = nalloc + 1
  /\ live'   = live \cup {nalloc + 1}
  /\ kpc'    = [kpc EXCEPT ![t] = "prep"]
  /\ UNCHANGED <<cmp, cookie, badFree, engine, cmd, mine, status, ret>>

\* A descriptor is made from the channel's list, and the completion is
\* initialised before the descriptor can be submitted.
PrepSlaveSg(t) ==
  /\ kpc[t] = "prep"
  /\ cmp' = 0
  /\ kpc' = [kpc EXCEPT ![t] = "submit"]
  /\ UNCHANGED <<sglist, cookie, heap, engine, cmd, mine, status, ret>>

PrepSlaveSgFails(t) ==
  /\ kpc[t] = "prep"
  /\ EngineFaults
  /\ Return(t, -1)
  /\ UNCHANGED <<channel, heap, engine, cmd, mine, status>>

DmaengineSubmit(t) ==
  /\ kpc[t] = "submit"
  /\ submitted' = submitted + 1
  /\ mine' = [mine EXCEPT ![t] = submitted + 1]
  /\ kpc'  = [kpc EXCEPT ![t] = "store"]
  /\ UNCHANGED <<channel, heap, issued, completed, called, timedOut, cmd, status, ret>>

\* The error code takes the place of a cookie.
DmaengineSubmitFails(t) ==
  /\ kpc[t] = "submit"
  /\ EngineFaults
  /\ cookie' = -1
  /\ Return(t, -1)
  /\ UNCHANGED <<sglist, cmp, heap, engine, cmd, mine, status>>

StoreCookie(t) ==
  /\ kpc[t] = "store"
  /\ cookie' = mine[t]
  /\ kpc' = [kpc EXCEPT ![t] = "issue"]
  /\ UNCHANGED <<sglist, cmp, heap, engine, cmd, mine, status, ret>>

\* Everything submitted on the channel becomes active.  START returns here,
\* BLOCKING goes on to wait.
IssuePending(t) ==
  /\ kpc[t] = "issue"
  /\ issued' = submitted
  /\ \/ /\ cmd[t] = "START"
        /\ Return(t, 0)
        /\ UNCHANGED status
     \/ /\ cmd[t] # "START"
        /\ EnterWait(t)
        /\ UNCHANGED ret
  /\ UNCHANGED <<channel, heap, submitted, completed, called, timedOut, cmd, mine>>

-----------------------------------------------------------------------------
(* wait_for_transfer                                                       *)

\* Mutant: the wait returns without a completion.
WaitForCompletion_NoWait(t) ==
  /\ kpc[t] = "wait"
  /\ cmp' = cmp - 1
  /\ kpc' = [kpc EXCEPT ![t] = "woken"]
  /\ UNCHANGED <<sglist, cookie, heap, engine, cmd, mine, status, ret>>

WaitForCompletion(t) ==
  /\ kpc[t] = "wait"
  /\ cmp > 0
  /\ cmp' = cmp - 1
  /\ kpc' = [kpc EXCEPT ![t] = "woken"]
  /\ UNCHANGED <<sglist, cookie, heap, engine, cmd, mine, status, ret>>

WaitTimesOut(t) ==
  /\ kpc[t] = "wait"
  /\ DriverTimeouts
  /\ cmp = 0
  /\ kpc' = [kpc EXCEPT ![t] = "timedout"]
  /\ timedOut' = TRUE
  /\ UNCHANGED <<channel, heap, submitted, issued, completed, called, cmd, mine, status, ret>>

\* Mutants: the cookie is not looked at; it is compared the wrong way.
IsTxComplete_Ignored == TRUE
IsTxComplete_Strict  == cookie < completed

\* dma_async_is_tx_complete(channel, cookie) = DMA_COMPLETE.  The other answer
\* is DMA_IN_PROGRESS: an engine that reports DMA_ERROR for a transfer is left
\* out, so that PROXY_ERROR stands for a wait ended by another's callback.
IsTxComplete == cookie <= completed

\* The status is stored in the file; it is not part of the ioctl's result,
\* and a transfer that timed out stays with the DMA engine.
CheckStatus(t) ==
  /\ kpc[t] \in {"woken", "timedout"}
  /\ status' = [status EXCEPT ![t] = CASE kpc[t] = "timedout" -> "PROXY_TIMEOUT"
                                       [] kpc[t] = "woken" /\ ~IsTxComplete -> "PROXY_ERROR"
                                       [] OTHER -> "PROXY_NO_ERROR"]
  /\ kpc' = [kpc EXCEPT ![t] = "free"]
  /\ UNCHANGED <<channel, heap, engine, cmd, mine, ret>>

\* Mutant: the list is dropped without kfree.
FreeSgList_Leak(t) ==
  /\ kpc[t] = "free"
  /\ sglist # 0
  /\ kpc' = [kpc EXCEPT ![t] = "clear"]
  /\ UNCHANGED <<channel, heap, engine, cmd, mine, status, ret>>

\* if (sglist) { kfree(sglist); ...
FreeSgList(t) ==
  /\ kpc[t] = "free"
  /\ sglist # 0
  /\ live' = live \ {sglist}
  /\ badFree' = (badFree \/ sglist \notin live)
  /\ kpc' = [kpc EXCEPT ![t] = "clear"]
  /\ UNCHANGED <<channel, nalloc, engine, cmd, mine, status, ret>>

NoSgList(t) ==
  /\ kpc[t] = "free"
  /\ sglist = 0
  /\ Return(t, 0)
  /\ UNCHANGED <<channel, heap, engine, cmd, mine, status>>

\* ... sglist = NULL; }
ClearSgList(t) ==
  /\ kpc[t] = "clear"
  /\ sglist' = 0
  /\ Return(t, 0)
  /\ UNCHANGED <<cmp, cookie, heap, engine, cmd, mine, status>>

-----------------------------------------------------------------------------
(* The DMA engine (external) and the callback                              *)

\* The hardware finishes the oldest active transfer: its cookie is complete.
EngineFinish ==
  /\ completed < issued
  /\ completed' = completed + 1
  /\ UNCHANGED <<channel, heap, submitted, issued, called, timedOut, callers>>

\* Its callback runs later, from a tasklet: complete(&pchannel_p->cmp).
SyncCallback ==
  /\ called < completed
  /\ called' = called + 1
  /\ cmp' = cmp + 1
  /\ UNCHANGED <<sglist, cookie, heap, submitted, issued, completed, timedOut, callers>>

-----------------------------------------------------------------------------
StartTransfer(t) == \/ AllocSgList(t)
                    \/ PrepSlaveSg(t) \/ PrepSlaveSgFails(t)
                    \/ DmaengineSubmit(t) \/ DmaengineSubmitFails(t)
                    \/ StoreCookie(t) \/ IssuePending(t)

WaitForTransfer(t) == \/ WaitForCompletion(t) \/ WaitTimesOut(t)
                      \/ CheckStatus(t)
                      \/ FreeSgList(t) \/ NoSgList(t) \/ ClearSgList(t)

KernelStep(t) == StartTransfer(t) \/ WaitForTransfer(t)

EngineStep == EngineFinish \/ SyncCallback

DrvTypeOK ==
  /\ sglist \in Nat /\ cmp \in Nat /\ cookie \in Int
  /\ live \subseteq Nat /\ nalloc \in Nat /\ badFree \in BOOLEAN
  /\ submitted \in Nat /\ issued \in Nat /\ completed \in Nat /\ called \in Nat
  /\ timedOut \in BOOLEAN
  /\ kpc    \in [Threads -> KernelPcs]
  /\ cmd    \in [Threads -> Cmds]
  /\ mine   \in [Threads -> Nat]
  /\ status \in [Threads -> ProxyStatus]
  /\ ret    \in [Threads -> {0, -1, Uncopied}]
=============================================================================
