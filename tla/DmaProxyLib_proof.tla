-------------------------- MODULE DmaProxyLib_proof --------------------------
(***************************************************************************)
(* Proofs about DmaProxyLib for any number of threads, any bound on the    *)
(* transfers, either direction, and with DMA timeouts, engine faults and   *)
(* condition waits that end without a signal all allowed.                  *)
(***************************************************************************)
EXTENDS DmaProxyLib, TLAPS

\* How the calls must be used for the busy flag to exclude: what _nb returned
\* is looked at, and a thread that blocks on the channel is alone on it.
Disciplined == /\ Careful = Starters
               /\ \A t \in Blockers, u \in Threads : u = t

-----------------------------------------------------------------------------
(* The inductive invariant                                                 *)

\* The flag is set while anybody owns the channel, and only an owner is past
\* _wait_for_device, in the kernel, or about to complete a transfer.
OwnerInv ==
  /\ Exclusive
  /\ owners # {} => busy
  /\ \A t \in Threads :
       pc[t] \in {"claimed", "complete", "ioctl", "ready"} \/ t \in pending => t \in owners
  /\ \A t \in Threads : kpc[t] # "user" => pc[t] = "ioctl"

\* Where a thread is fits the call it is in; only blockers wait.
CallInv ==
  \A t \in Threads :
    /\ pc[t] \in {"claim", "waiting", "signalled", "claimed"} => t \notin pending /\ call[t] # "complete"
    /\ pc[t] \in {"waiting", "signalled"} => t \in Blockers
    /\ pc[t] = "claim" /\ call[t] = "blocking" => t \in Blockers
    /\ pc[t] # "idle" /\ call[t] = "nb" => t \in Starters
    /\ pc[t] = "complete" => call[t] = "complete" /\ t \in pending
    /\ kpc[t] \in {"alloc", "prep", "submit", "store", "issue"} =>
         t \notin pending /\ call[t] # "complete"
    /\ pc[t] = "ioctl" /\ call[t] = "nb" => t \notin pending

\* The channel's cookie is the one of the transfer of t.
OwnCookie(t) == 0 < mine[t] /\ cookie = mine[t]

CookieInv ==
  /\ completed <= issued /\ issued <= submitted
  /\ \A t \in Threads :
       /\ kpc[t] = "store" => 0 < mine[t]
       /\ kpc[t] \in {"issue", "wait", "woken", "timedout", "free", "clear"} => OwnCookie(t)
       /\ t \in pending => OwnCookie(t)
       /\ pc[t] = "ioctl" /\ kpc[t] = "user" /\ call[t] = "nb" /\ ret[t] = 0 => OwnCookie(t)

\* Between the steps that free the list and clear the pointer the pointer
\* dangles; at no other time.
ListInv ==
  /\ ~badFree
  /\ (\A t \in Threads : kpc[t] # "clear") => sglist = 0 \/ sglist \in live
  /\ \A t \in Threads : kpc[t] = "prep" => sglist \in live

IInv == TypeOK /\ OwnerInv /\ CallInv /\ CookieInv /\ SuccessIsReal /\ ListInv

-----------------------------------------------------------------------------
(* Type correctness                                                        *)

\* The driver's steps keep the driver's types.
LEMMA KernelTypes ==
  ASSUME TypeOK, NEW t \in Threads, KernelStep(t), UNCHANGED libVars
  PROVE  TypeOK'
<1> USE DEF TypeOK, DrvTypeOK, libVars, channel, heap, engine, callers,
            KernelPcs, Cmds, ProxyStatus, Return, EnterWait, Uncopied
<1>1. CASE AllocSgList(t)
  BY <1>1 DEF AllocSgList
<1>2. CASE PrepSlaveSg(t)
  BY <1>2 DEF PrepSlaveSg
<1>3. CASE PrepSlaveSgFails(t)
  BY <1>3 DEF PrepSlaveSgFails
<1>4. CASE DmaengineSubmit(t)
  BY <1>4 DEF DmaengineSubmit
<1>5. CASE DmaengineSubmitFails(t)
  BY <1>5 DEF DmaengineSubmitFails
<1>6. CASE StoreCookie(t)
  BY <1>6 DEF StoreCookie
<1>7. CASE IssuePending(t)
  BY <1>7 DEF IssuePending
<1>8. CASE WaitForCompletion(t)
  BY <1>8 DEF WaitForCompletion
<1>9. CASE WaitTimesOut(t)
  BY <1>9 DEF WaitTimesOut
<1>10. CASE CheckStatus(t)
  BY <1>10 DEF CheckStatus
<1>11. CASE FreeSgList(t)
  BY <1>11 DEF FreeSgList
<1>12. CASE NoSgList(t)
  BY <1>12 DEF NoSgList
<1>13. CASE ClearSgList(t)
  BY <1>13 DEF ClearSgList
<1> QED
  BY <1>1, <1>2, <1>3, <1>4, <1>5, <1>6, <1>7, <1>8, <1>9, <1>10, <1>11, <1>12, <1>13
     DEF KernelStep, StartTransfer, WaitForTransfer

\* The engine's steps keep the types.
LEMMA EngineTypes ==
  ASSUME TypeOK, EngineStep, UNCHANGED libVars
  PROVE  TypeOK'
<1> USE DEF TypeOK, DrvTypeOK, libVars, channel, heap, callers
<1>1. CASE EngineFinish
  BY <1>1 DEF EngineFinish
<1>2. CASE SyncCallback
  BY <1>2 DEF SyncCallback
<1> QED
  BY <1>1, <1>2 DEF EngineStep

\* The library's steps keep the types.
LEMMA LibTypes ==
  ASSUME TypeOK, NEW t \in Threads, LibStep(t)
  PROVE  TypeOK'
<1> USE DEF TypeOK, DrvTypeOK, drvVars, channel, heap, engine, callers,
            KernelPcs, Cmds, ProxyStatus, Uncopied, Calls, LibPcs, ReturnCodes,
            DMAP_INVALID_BUF_PTR, DMAP_INVALID_DEVICE_IDX,
            DMAP_ACCESS_OUT_OF_BOUNDS, DMAP_DEVICE_IN_USE
<1>1. CASE CallBlocking(t)
  BY <1>1, LibAssumption DEF CallBlocking, Enter, SelectResults
<1>2. CASE CallNonblocking(t)
  BY <1>2, LibAssumption DEF CallNonblocking, Enter, SelectResults
<1>3. CASE CallComplete(t)
  BY <1>3, LibAssumption DEF CallComplete, Enter, SelectResults
<1>4. CASE WaitForDevice(t)
  <2>1. CASE Claim(t)
    BY <2>1 DEF Claim
  <2>2. CASE ~Claim(t)
    BY <1>4, <2>2 DEF WaitForDevice
  <2> QED
    BY <2>1, <2>2
<1>5. CASE WaitEndsUnsignalled(t)
  BY <1>5 DEF WaitEndsUnsignalled
<1>6. CASE WaitReturns(t)
  BY <1>6 DEF WaitReturns, Claim
<1>7. CASE StartIoctl(t)
  BY <1>7 DEF StartIoctl, IoctlCall, Return, EnterWait
<1>8. CASE CompleteIoctl(t)
  BY <1>8 DEF CompleteIoctl, IoctlCall, Return, EnterWait
<1>9. CASE IoctlReturn(t)
  BY <1>9 DEF IoctlReturn
<1>10. CASE MarkDeviceReady(t)
  BY <1>10 DEF MarkDeviceReady
<1> QED
  BY <1>1, <1>2, <1>3, <1>4, <1>5, <1>6, <1>7, <1>8, <1>9, <1>10 DEF LibStep

LEMMA TypeStep == TypeOK /\ [Next]_vars => TypeOK'
<1> SUFFICES ASSUME TypeOK, [Next]_vars PROVE TypeOK'
  OBVIOUS
<1>1. CASE UNCHANGED vars
  BY <1>1 DEF TypeOK, DrvTypeOK, vars, drvVars, libVars, channel, heap, engine, callers
<1>2. CASE Next
  BY <1>2, KernelTypes, EngineTypes, LibTypes DEF Next
<1> QED
  BY <1>1, <1>2

LEMMA TypeInit == Init => TypeOK
<1> SUFFICES ASSUME Init PROVE TypeOK
  OBVIOUS
<1>1. DrvTypeOK
  <2>1. ret \in [Threads -> {0, -1, Uncopied}]
    BY DEF Init, DrvInit
  <2>2. kpc \in [Threads -> KernelPcs] /\ cmd \in [Threads -> Cmds]
    BY DEF Init, DrvInit, KernelPcs, Cmds
  <2>3. mine \in [Threads -> Nat] /\ status \in [Threads -> ProxyStatus]
    BY DEF Init, DrvInit, ProxyStatus
  <2>4. /\ sglist \in Nat /\ cmp \in Nat /\ cookie \in Int
        /\ live \subseteq Nat /\ nalloc \in Nat
        /\ submitted \in Nat /\ issued \in Nat /\ completed \in Nat /\ called \in Nat
    BY DEF Init, DrvInit
  <2>5. badFree \in BOOLEAN /\ timedOut \in BOOLEAN
    BY DEF Init, DrvInit
  <2> QED
    BY <2>1, <2>2, <2>3, <2>4, <2>5 DEF DrvTypeOK
<1>2. /\ busy \in BOOLEAN /\ owners \subseteq Threads /\ pending \subseteq Threads
      /\ pc \in [Threads -> LibPcs] /\ call \in [Threads -> Calls]
      /\ rc \in [Threads -> ReturnCodes]
  BY DEF Init, LibPcs, Calls, ReturnCodes
<1> QED
  BY <1>1, <1>2 DEF TypeOK

\* Every variable of the library and the driver keeps its type in every
\* behaviour, however the calls are used.
THEOREM TypeCorrect == Spec => []TypeOK
BY TypeInit, TypeStep, PTL DEF Spec

-----------------------------------------------------------------------------
(* Exclusion                                                               *)

LEMMA InvInit == Init => IInv
<1> SUFFICES ASSUME Init PROVE IInv
  OBVIOUS
<1>1. TypeOK
  BY TypeInit
<1>2. OwnerInv /\ CallInv /\ CookieInv /\ SuccessIsReal /\ ListInv
  BY DEF Init, DrvInit, OwnerInv, Exclusive, CallInv, CookieInv, SuccessIsReal, ListInv
<1> QED
  BY <1>1, <1>2 DEF IInv

\* The driver's steps keep the invariant.
LEMMA KernelInv ==
  ASSUME IInv, TypeOK', NEW t \in Threads, KernelStep(t), UNCHANGED libVars
  PROVE  IInv'
<1> USE DEF IInv, OwnerInv, Exclusive, CallInv, CookieInv, OwnCookie, SuccessIsReal,
            ListInv, TypeOK, DrvTypeOK, libVars, channel, heap, engine, callers
<1>1. CASE AllocSgList(t)
  BY <1>1 DEF AllocSgList
<1>2. CASE PrepSlaveSg(t)
  BY <1>2 DEF PrepSlaveSg
<1>3. CASE PrepSlaveSgFails(t)
  BY <1>3 DEF PrepSlaveSgFails, Return
<1>4. CASE DmaengineSubmit(t)
  BY <1>4 DEF DmaengineSubmit
<1>5. CASE DmaengineSubmitFails(t)
  BY <1>5 DEF DmaengineSubmitFails, Return
<1>6. CASE StoreCookie(t)
  BY <1>6 DEF StoreCookie
<1>7. CASE IssuePending(t)
  BY <1>7 DEF IssuePending, Return, EnterWait
<1>8. CASE WaitForCompletion(t)
  BY <1>8 DEF WaitForCompletion
<1>9. CASE WaitTimesOut(t)
  BY <1>9 DEF WaitTimesOut
<1>10. CASE CheckStatus(t)
  BY <1>10 DEF CheckStatus, IsTxComplete
<1>11. CASE FreeSgList(t)
  BY <1>11 DEF FreeSgList
<1>12. CASE NoSgList(t)
  BY <1>12 DEF NoSgList, Return
<1>13. CASE ClearSgList(t)
  BY <1>13 DEF ClearSgList, Return
<1> QED
  BY <1>1, <1>2, <1>3, <1>4, <1>5, <1>6, <1>7, <1>8, <1>9, <1>10, <1>11, <1>12, <1>13 DEF KernelStep, StartTransfer, WaitForTransfer

\* The engine's steps keep the invariant.
LEMMA EngineInv ==
  ASSUME IInv, TypeOK', EngineStep, UNCHANGED libVars
  PROVE  IInv'
<1> USE DEF IInv, OwnerInv, Exclusive, CallInv, CookieInv, OwnCookie, SuccessIsReal,
            ListInv, TypeOK, DrvTypeOK, libVars, channel, heap, callers
<1>1. CASE EngineFinish
  BY <1>1 DEF EngineFinish
<1>2. CASE SyncCallback
  BY <1>2 DEF SyncCallback
<1> QED
  BY <1>1, <1>2 DEF EngineStep

\* The library's steps keep the invariant.
LEMMA LibInv ==
  ASSUME Disciplined, IInv, TypeOK', NEW t \in Threads, LibStep(t)
  PROVE  IInv'
<1> USE DEF IInv, OwnerInv, Exclusive, CallInv, CookieInv, OwnCookie, SuccessIsReal,
            ListInv, TypeOK, DrvTypeOK, drvVars, channel, heap, engine, callers
<1>1. CASE CallBlocking(t)
  BY <1>1 DEF CallBlocking, Enter
<1>2. CASE CallNonblocking(t)
  BY <1>2 DEF CallNonblocking, Enter, Disciplined
<1>3. CASE CallComplete(t)
  BY <1>3 DEF CallComplete, Enter
<1>4. CASE WaitForDevice(t)
  <2>1. CASE Claim(t) /\ ~busy
    BY <1>4, <2>1 DEF WaitForDevice, Claim
  <2>2. CASE busy /\ call[t] = "blocking"
    BY <1>4, <2>2 DEF WaitForDevice
  <2>3. CASE busy /\ call[t] = "nb"
    BY <1>4, <2>3 DEF WaitForDevice, Disciplined
  <2> QED
    BY <1>4, <2>1, <2>2, <2>3 DEF WaitForDevice
<1>5. CASE WaitEndsUnsignalled(t)
  BY <1>5 DEF WaitEndsUnsignalled
<1>6. CASE WaitReturns(t)
  BY <1>6 DEF WaitReturns, Claim, Disciplined
<1>7. CASE StartIoctl(t)
  BY <1>7 DEF StartIoctl, IoctlCall, Return, EnterWait
<1>8. CASE CompleteIoctl(t)
  BY <1>8 DEF CompleteIoctl, IoctlCall, Return, EnterWait
<1>9. CASE IoctlReturn(t)
  BY <1>9 DEF IoctlReturn, Disciplined
<1>10. CASE MarkDeviceReady(t)
  BY <1>10 DEF MarkDeviceReady
<1> QED
  BY <1>1, <1>2, <1>3, <1>4, <1>5, <1>6, <1>7, <1>8, <1>9, <1>10 DEF LibStep

LEMMA InvStep == Disciplined /\ IInv /\ [Next]_vars => IInv'
<1> SUFFICES ASSUME Disciplined, IInv, [Next]_vars PROVE IInv'
  OBVIOUS
<1>0. TypeOK'
  BY TypeStep DEF IInv
<1>1. CASE UNCHANGED vars
  BY <1>0, <1>1 DEF IInv, OwnerInv, Exclusive, CallInv, CookieInv, OwnCookie, SuccessIsReal,
       ListInv, vars, drvVars, libVars, channel, heap, engine, callers
<1>2. CASE Next
  BY <1>0, <1>2, KernelInv, EngineInv, LibInv DEF Next
<1> QED
  BY <1>1, <1>2

\* The busy flag of a channel excludes: at most one thread owns the channel,
\* for any number of threads, if nobody but a thread alone blocks on it.
THEOREM ExclusiveHolds ==
  ASSUME Disciplined
  PROVE  Spec => []Exclusive
<1>1. IInv => Exclusive
  BY DEF IInv, OwnerInv
<1>2. IInv /\ [Next]_vars => IInv'
  BY InvStep
<1> QED
  BY <1>1, <1>2, InvInit, PTL DEF Spec

\* The driver's unlocked code is run by one thread at a time.
THEOREM KernelExclusiveHolds ==
  ASSUME Disciplined
  PROVE  Spec => []KernelExclusive
<1>1. IInv => KernelExclusive
  BY DEF IInv, OwnerInv, Exclusive, KernelExclusive
<1>2. IInv /\ [Next]_vars => IInv'
  BY InvStep
<1> QED
  BY <1>1, <1>2, InvInit, PTL DEF Spec

\* PROXY_NO_ERROR is stored only for a transfer that is complete, whatever
\* timed out before and however late its callback comes.
THEOREM SuccessIsRealHolds ==
  ASSUME Disciplined
  PROVE  Spec => []SuccessIsReal
<1>1. IInv => SuccessIsReal
  BY DEF IInv
<1>2. IInv /\ [Next]_vars => IInv'
  BY InvStep
<1> QED
  BY <1>1, <1>2, InvInit, PTL DEF Spec

\* No scatter/gather list is freed twice or used after it was freed.
THEOREM SgListSoundHolds ==
  ASSUME Disciplined
  PROVE  Spec => []SgListSound
<1>1. IInv => SgListSound
  BY DEF IInv, ListInv, SgListSound
<1>2. IInv /\ [Next]_vars => IInv'
  BY InvStep
<1> QED
  BY <1>1, <1>2, InvInit, PTL DEF Spec

-----------------------------------------------------------------------------
(* The library and the driver implement ExclusiveChannel                   *)

\* What the abstract channel sees as success.
Succeeded == {t \in Threads : /\ kpc[t] \in {"free", "clear"}
                              /\ status[t] = "PROXY_NO_ERROR"}

absVars == <<owners, submitted, completed, mine, Succeeded>>

\* A driver step is a submission, a report of success, the end of one, or
\* invisible.
LEMMA KernelRefines ==
  ASSUME IInv, NEW t \in Threads, KernelStep(t), UNCHANGED libVars
  PROVE  Abstract!Next \/ UNCHANGED absVars
<1> USE DEF IInv, OwnerInv, Exclusive, CookieInv, OwnCookie, TypeOK, DrvTypeOK,
            libVars, channel, heap, engine, callers, absVars, Succeeded
<1>1. t \in owners /\ owners = {t}
  <2>1. kpc[t] # "user"
    BY DEF KernelStep, StartTransfer, WaitForTransfer, AllocSgList, PrepSlaveSg,
           PrepSlaveSgFails, DmaengineSubmit, DmaengineSubmitFails, StoreCookie,
           IssuePending, WaitForCompletion, WaitTimesOut, CheckStatus,
           FreeSgList, NoSgList, ClearSgList
  <2> QED
    BY <2>1
<1>2. CASE DmaengineSubmit(t)
  <2>1. Abstract!Submit(t)
    BY <1>1, <1>2 DEF DmaengineSubmit, Abstract!Submit
  <2> QED
    BY <2>1 DEF Abstract!Next
<1>3. CASE CheckStatus(t)
  <2>1. CASE status'[t] = "PROXY_NO_ERROR"
    <3>1. Abstract!ReportSuccess(t)
      BY <1>1, <1>3, <2>1 DEF CheckStatus, IsTxComplete, Abstract!ReportSuccess
    <3> QED
      BY <3>1 DEF Abstract!Next
  <2>2. CASE status'[t] # "PROXY_NO_ERROR"
    BY <1>3, <2>2 DEF CheckStatus
  <2> QED
    BY <2>1, <2>2
<1>4. CASE NoSgList(t) \/ ClearSgList(t)
  <2>1. Abstract!Forget(t)
    BY <1>4 DEF NoSgList, ClearSgList, Return, Abstract!Forget
  <2> QED
    BY <2>1 DEF Abstract!Next
<1>5. CASE IssuePending(t)
  BY <1>5 DEF IssuePending, Return, EnterWait
<1>6. CASE AllocSgList(t) \/ PrepSlaveSg(t) \/ StoreCookie(t)
  BY <1>6 DEF AllocSgList, PrepSlaveSg, StoreCookie
<1>7. CASE PrepSlaveSgFails(t) \/ DmaengineSubmitFails(t)
  BY <1>7 DEF PrepSlaveSgFails, DmaengineSubmitFails, Return
<1>8. CASE WaitForCompletion(t) \/ WaitTimesOut(t)
  BY <1>8 DEF WaitForCompletion, WaitTimesOut
<1>9. CASE FreeSgList(t)
  BY <1>9 DEF FreeSgList
<1> QED
  BY <1>2, <1>3, <1>4, <1>5, <1>6, <1>7, <1>8, <1>9
     DEF KernelStep, StartTransfer, WaitForTransfer

\* An engine step completes a transfer or is invisible.
LEMMA EngineRefines ==
  ASSUME IInv, EngineStep, UNCHANGED libVars
  PROVE  Abstract!Next \/ UNCHANGED absVars
<1> USE DEF libVars, channel, heap, callers, absVars, Succeeded
<1>1. CASE EngineFinish
  <2>1. Abstract!Complete
    BY <1>1 DEF EngineFinish, Abstract!Complete, IInv, CookieInv, TypeOK, DrvTypeOK
  <2> QED
    BY <2>1 DEF Abstract!Next
<1>2. CASE SyncCallback
  BY <1>2 DEF SyncCallback
<1> QED
  BY <1>1, <1>2 DEF EngineStep

\* A library step acquires the channel, releases it, or is invisible.
LEMMA LibRefines ==
  ASSUME Disciplined, IInv, NEW t \in Threads, LibStep(t)
  PROVE  Abstract!Next \/ UNCHANGED absVars
<1> USE DEF IInv, OwnerInv, Exclusive, CallInv, TypeOK, DrvTypeOK, drvVars,
            channel, heap, engine, callers, absVars, Succeeded
<1>1. CASE Claim(t) /\ owners = {}
  <2>1. Abstract!Acquire(t)
    BY <1>1 DEF Claim, Abstract!Acquire
  <2> QED
    BY <2>1 DEF Abstract!Next
<1>2. CASE Claim(t) /\ t \in owners
  BY <1>2 DEF Claim
<1>3. CASE CallBlocking(t) \/ CallNonblocking(t) \/ CallComplete(t)
  BY <1>3 DEF CallBlocking, CallNonblocking, CallComplete, Enter
<1>4. CASE WaitForDevice(t)
  BY <1>1, <1>4 DEF WaitForDevice
<1>5. CASE WaitEndsUnsignalled(t)
  BY <1>5 DEF WaitEndsUnsignalled
<1>6. CASE WaitReturns(t)
  BY <1>1, <1>2, <1>6 DEF WaitReturns, Disciplined
<1>7. CASE StartIoctl(t) \/ CompleteIoctl(t)
  BY <1>7 DEF StartIoctl, CompleteIoctl, IoctlCall, Return, EnterWait
<1>8. CASE IoctlReturn(t)
  BY <1>8 DEF IoctlReturn
<1>9. CASE MarkDeviceReady(t)
  <2>1. Abstract!Release(t)
    BY <1>9 DEF MarkDeviceReady, Abstract!Release
  <2> QED
    BY <2>1 DEF Abstract!Next
<1> QED
  BY <1>3, <1>4, <1>5, <1>6, <1>7, <1>8, <1>9 DEF LibStep

\* Every behaviour of the library over the driver is a behaviour of the
\* abstract channel: held by one thread at a time, used only by its holder,
\* and success reported only for completed transfers.
THEOREM Refinement ==
  ASSUME Disciplined
  PROVE  Spec => ImplementsExclusiveChannel
<1>1. Init => Abstract!Init
  BY DEF Init, DrvInit, Abstract!Init
<1>2. IInv /\ [Next]_vars => [Abstract!Next]_(Abstract!vars)
  <2>0. absVars = Abstract!vars /\ absVars' = (Abstract!vars)'
    BY DEF absVars, Succeeded, Abstract!vars
  <2> SUFFICES ASSUME IInv, [Next]_vars PROVE Abstract!Next \/ UNCHANGED absVars
    BY <2>0
  <2>1. CASE UNCHANGED vars
    BY <2>1 DEF vars, drvVars, libVars, channel, heap, engine, callers, absVars, Succeeded
  <2>2. CASE Next
    BY <2>2, KernelRefines, EngineRefines, LibRefines DEF Next
  <2> QED
    BY <2>1, <2>2
<1>3. IInv /\ [Next]_vars => IInv'
  BY InvStep
<1> QED
  BY <1>1, <1>2, <1>3, InvInit, PTL
     DEF Spec, ImplementsExclusiveChannel, Abstract!Spec

-----------------------------------------------------------------------------
(***************************************************************************)
(* What a channel that is marked ready promises: no DMA is running on it   *)
(* and it holds no memory.                                                 *)
(*                                                                         *)
(* Both need more than exclusion.  dmap_write_complete returns at once and *)
(* marks the channel ready with the transfer still running (the run        *)
(* channel_write_complete), so no thread may use the nonblocking pair on a *)
(* WRITE channel; and the blocking call marks the channel ready after a    *)
(* transfer that could not be started, whose list nobody frees.            *)
(***************************************************************************)

\* Every _complete call that is made waits for its transfer.
CompleteWaits == Dir = "READ" \/ Starters = {}

\* A transfer that cannot be started does not end in _mark_device_ready.
NoLostList == ~EngineFaults \/ Blockers = {}

-----------------------------------------------------------------------------
(* Its inductive invariant, on top of IInv                                 *)

\* The ioctl a thread is in is the one its call makes, and only a started
\* transfer is completed.
CmdInv ==
  \A t \in Threads :
    /\ t \in pending => t \in Starters
    /\ t \in pending /\ pc[t] \in {"idle", "complete"} => rc[t] = 0
    /\ pc[t] # "idle" /\ call[t] = "blocking" => t \in Blockers
    /\ pc[t] = "ioctl" => (cmd[t] = "START" <=> call[t] = "nb")
    /\ kpc[t] \in {"wait", "woken", "timedout", "free", "clear"} => call[t] # "nb"

\* The _nb call of t has started a transfer that _complete has not waited for.
Started(t) == \/ pc[t] \in {"idle", "complete"} /\ t \in pending
              \/ pc[t] = "ioctl" /\ kpc[t] = "user" /\ call[t] = "nb" /\ ret[t] = 0

\* The transfer of t is with the engine and its completion not consumed.
Flying(t) == kpc[t] \in {"store", "issue", "wait"} \/ Started(t)

InFlight == \E t \in Threads : Flying(t)

\* Until a wait times out at most one transfer is in flight; its callback is
\* the only one to come, and the completion counts it.
FlightInv ==
  /\ called <= completed
  /\ \A t \in Threads : mine[t] <= submitted
  /\ \A t \in Threads : kpc[t] = "timedout" => timedOut
  /\ ~timedOut => IF InFlight
                  THEN called + 1 = submitted + cmp
                  ELSE called = submitted /\ cmp = 0
  /\ ErrorNeedsTimeout

\* The channel points to the only list there is.
MemInv ==
  /\ live \subseteq {sglist} /\ 0 \notin live
  /\ owners = {} => live = {}
  /\ \A t \in Threads :
       /\ pc[t] \in {"claimed", "ready"} => live = {}
       /\ kpc[t] \in {"alloc", "clear"} => live = {}
       /\ pc[t] = "ioctl" /\ kpc[t] = "user" /\ call[t] # "nb" => live = {}
       /\ ~EngineFaults /\ t \in owners =>
            pc[t] \in {"claimed", "complete", "ioctl", "ready"} \/ t \in pending
       /\ ~EngineFaults /\ pc[t] = "ioctl" /\ kpc[t] = "user" => ret[t] = 0

-----------------------------------------------------------------------------
(* The commands                                                            *)

\* The driver's steps leave the library's state alone.
LEMMA CmdKernel ==
  ASSUME IInv, CmdInv, NEW t \in Threads, KernelStep(t), UNCHANGED libVars
  PROVE  CmdInv'
<1> USE DEF IInv, OwnerInv, CallInv, CmdInv, TypeOK, DrvTypeOK, libVars,
            channel, heap, engine, callers
<1>1. CASE AllocSgList(t)
  BY <1>1 DEF AllocSgList
<1>2. CASE PrepSlaveSg(t)
  BY <1>2 DEF PrepSlaveSg
<1>3. CASE PrepSlaveSgFails(t)
  BY <1>3 DEF PrepSlaveSgFails, Return
<1>4. CASE DmaengineSubmit(t)
  BY <1>4 DEF DmaengineSubmit
<1>5. CASE DmaengineSubmitFails(t)
  BY <1>5 DEF DmaengineSubmitFails, Return
<1>6. CASE StoreCookie(t)
  BY <1>6 DEF StoreCookie
<1>7. CASE IssuePending(t)
  BY <1>7 DEF IssuePending, Return, EnterWait
<1>8. CASE WaitForCompletion(t)
  BY <1>8 DEF WaitForCompletion
<1>9. CASE WaitTimesOut(t)
  BY <1>9 DEF WaitTimesOut
<1>10. CASE CheckStatus(t)
  BY <1>10 DEF CheckStatus, IsTxComplete
<1>11. CASE FreeSgList(t)
  BY <1>11 DEF FreeSgList
<1>12. CASE NoSgList(t)
  BY <1>12 DEF NoSgList, Return
<1>13. CASE ClearSgList(t)
  BY <1>13 DEF ClearSgList, Return
<1> QED
  BY <1>1, <1>2, <1>3, <1>4, <1>5, <1>6, <1>7, <1>8, <1>9, <1>10, <1>11, <1>12, <1>13
     DEF KernelStep, StartTransfer, WaitForTransfer

\* A thread's call decides the ioctl it makes.
LEMMA CmdLib ==
  ASSUME Disciplined, IInv, CmdInv, NEW t \in Threads, LibStep(t)
  PROVE  CmdInv'
<1> USE DEF IInv, OwnerInv, CallInv, CmdInv, TypeOK, DrvTypeOK, drvVars, channel, heap,
            engine, callers
<1>1. CASE CallBlocking(t)
  BY <1>1 DEF CallBlocking, Enter
<1>2. CASE CallNonblocking(t)
  BY <1>2 DEF CallNonblocking, Enter, Disciplined
<1>3. CASE CallComplete(t)
  BY <1>3 DEF CallComplete, Enter
<1>4. CASE WaitForDevice(t)
  BY <1>4 DEF WaitForDevice, Claim, Disciplined
<1>5. CASE WaitEndsUnsignalled(t)
  BY <1>5 DEF WaitEndsUnsignalled
<1>6. CASE WaitReturns(t)
  BY <1>6 DEF WaitReturns, Claim
<1>7. CASE StartIoctl(t)
  BY <1>7 DEF StartIoctl, IoctlCall
<1>8. CASE CompleteIoctl(t)
  BY <1>8 DEF CompleteIoctl, IoctlCall, Return, EnterWait
<1>9. CASE IoctlReturn(t)
  BY <1>9 DEF IoctlReturn, Disciplined
<1>10. CASE MarkDeviceReady(t)
  BY <1>10 DEF MarkDeviceReady
<1> QED
  BY <1>1, <1>2, <1>3, <1>4, <1>5, <1>6, <1>7, <1>8, <1>9, <1>10 DEF LibStep

LEMMA CmdStep ==
  ASSUME Disciplined, IInv, CmdInv, [Next]_vars
  PROVE  CmdInv'
<1>1. ASSUME EngineStep, UNCHANGED libVars PROVE CmdInv'
  BY <1>1 DEF EngineStep, EngineFinish, SyncCallback, CmdInv, callers, libVars
<1>2. CASE UNCHANGED vars
  BY <1>2 DEF CmdInv, vars, drvVars, libVars, callers
<1> QED
  BY <1>1, <1>2, CmdKernel, CmdLib DEF Next

-----------------------------------------------------------------------------
(* Transfers in flight                                                     *)

\* Only the owner's transfer is in flight.
LEMMA FlyingOwner ==
  ASSUME IInv, NEW t \in Threads
  PROVE  /\ Flying(t) => t \in owners
         /\ t \in owners => (InFlight <=> Flying(t))
         /\ ~busy => ~InFlight
BY DEF IInv, OwnerInv, Exclusive, Flying, Started, InFlight

\* The caller of the driver owns the channel.
LEMMA KernelOwner ==
  ASSUME IInv, NEW t \in Threads, KernelStep(t)
  PROVE  t \in owners /\ pc[t] = "ioctl" /\ kpc[t] # "user"
<1>1. kpc[t] # "user"
  BY DEF KernelStep, StartTransfer, WaitForTransfer, AllocSgList, PrepSlaveSg,
         PrepSlaveSgFails, DmaengineSubmit, DmaengineSubmitFails, StoreCookie,
         IssuePending, WaitForCompletion, WaitTimesOut, CheckStatus,
         FreeSgList, NoSgList, ClearSgList
<1> QED
  BY <1>1 DEF IInv, OwnerInv

\* submit puts a transfer in flight, the end of the wait takes it out.
LEMMA FlightKernel ==
  ASSUME IInv, IInv', CmdInv, FlightInv,
         NEW t \in Threads, KernelStep(t), UNCHANGED libVars
  PROVE  FlightInv'
<1>1. pc[t] = "ioctl" /\ (InFlight <=> Flying(t)) /\ (InFlight' <=> Flying(t)')
  <2>1. t \in owners /\ t \in owners' /\ pc[t] = "ioctl"
    BY KernelOwner DEF libVars
  <2>2. InFlight' <=> Flying(t)'
    BY <2>1 DEF IInv, OwnerInv, Exclusive, Flying, Started, InFlight
  <2> QED
    BY <2>1, <2>2, FlyingOwner
<1> USE DEF IInv, TypeOK, DrvTypeOK, CmdInv, CookieInv, OwnCookie, FlightInv, Flying, Started,
            ErrorNeedsTimeout, libVars, channel, heap, engine, callers
<1>2. CASE AllocSgList(t)
  BY <1>1, <1>2 DEF AllocSgList
<1>3. CASE PrepSlaveSg(t)
  BY <1>1, <1>3 DEF PrepSlaveSg
<1>4. CASE PrepSlaveSgFails(t)
  BY <1>1, <1>4 DEF PrepSlaveSgFails, Return
<1>5. CASE DmaengineSubmit(t)
  BY <1>1, <1>5 DEF DmaengineSubmit
<1>6. CASE DmaengineSubmitFails(t)
  BY <1>1, <1>6 DEF DmaengineSubmitFails, Return
<1>7. CASE StoreCookie(t)
  BY <1>1, <1>7 DEF StoreCookie
<1>8. CASE IssuePending(t)
  BY <1>1, <1>8 DEF IssuePending, Return, EnterWait
<1>9. CASE WaitForCompletion(t)
  BY <1>1, <1>9 DEF WaitForCompletion
<1>10. CASE WaitTimesOut(t)
  BY <1>1, <1>10 DEF WaitTimesOut
<1>11. CASE CheckStatus(t)
  BY <1>1, <1>11 DEF CheckStatus, IsTxComplete
<1>12. CASE FreeSgList(t)
  BY <1>1, <1>12 DEF FreeSgList
<1>13. CASE NoSgList(t)
  BY <1>1, <1>13 DEF NoSgList, Return
<1>14. CASE ClearSgList(t)
  BY <1>1, <1>14 DEF ClearSgList, Return
<1> QED
  BY <1>2, <1>3, <1>4, <1>5, <1>6, <1>7, <1>8, <1>9, <1>10, <1>11, <1>12, <1>13, <1>14
     DEF KernelStep, StartTransfer, WaitForTransfer

LEMMA FlightEngine ==
  ASSUME IInv, IInv', FlightInv, EngineStep, UNCHANGED libVars
  PROVE  FlightInv'
<1>1. InFlight' <=> InFlight
  BY DEF EngineStep, EngineFinish, SyncCallback, InFlight, Flying, Started, callers, libVars
<1> USE DEF IInv, TypeOK, DrvTypeOK, CookieInv, FlightInv, ErrorNeedsTimeout,
            libVars, channel, heap, callers
<1>2. CASE EngineFinish
  BY <1>1, <1>2 DEF EngineFinish
<1>3. CASE SyncCallback
  BY <1>1, <1>3 DEF SyncCallback
<1> QED
  BY <1>2, <1>3 DEF EngineStep

\* No step of the library puts a transfer in flight or takes it out: _complete
\* is called for the transfers that _nb has started, and for no other.
LEMMA LibFlying ==
  ASSUME Disciplined, CompleteWaits, IInv, CmdInv, NEW t \in Threads, LibStep(t)
  PROVE  \A u \in Threads : Flying(u)' <=> Flying(u)
<1> USE DEF IInv, OwnerInv, CallInv, CmdInv, TypeOK, DrvTypeOK, Flying, Started,
            drvVars, channel, heap, engine, callers
<1>1. CASE CallBlocking(t)
  BY <1>1 DEF CallBlocking, Enter
<1>2. CASE CallNonblocking(t)
  BY <1>2 DEF CallNonblocking, Enter, Disciplined
<1>3. CASE CallComplete(t)
  BY <1>3 DEF CallComplete, Enter, SelectResults, DMAP_INVALID_BUF_PTR, DMAP_INVALID_DEVICE_IDX
<1>4. CASE WaitForDevice(t)
  BY <1>4 DEF WaitForDevice, Claim, Disciplined
<1>5. CASE WaitEndsUnsignalled(t)
  BY <1>5 DEF WaitEndsUnsignalled
<1>6. CASE WaitReturns(t)
  BY <1>6 DEF WaitReturns, Claim
<1>7. CASE StartIoctl(t)
  BY <1>7 DEF StartIoctl, IoctlCall
<1>8. CASE CompleteIoctl(t)
  BY <1>8 DEF CompleteIoctl, IoctlCall, Return, EnterWait, CompleteWaits
<1>9. CASE IoctlReturn(t)
  BY <1>9 DEF IoctlReturn, Disciplined
<1>10. CASE MarkDeviceReady(t)
  BY <1>10 DEF MarkDeviceReady
<1> QED
  BY <1>1, <1>2, <1>3, <1>4, <1>5, <1>6, <1>7, <1>8, <1>9, <1>10 DEF LibStep

LEMMA FlightLib ==
  ASSUME Disciplined, CompleteWaits, IInv, CmdInv, FlightInv, NEW t \in Threads, LibStep(t)
  PROVE  FlightInv'
<1>1. InFlight' <=> InFlight
  BY LibFlying DEF InFlight
<1>2. UNCHANGED <<channel, heap, engine, mine>>
  BY DEF LibStep, CallBlocking, CallNonblocking, CallComplete, Enter, WaitForDevice, Claim,
     WaitEndsUnsignalled, WaitReturns, StartIoctl, CompleteIoctl, IoctlCall, IoctlReturn,
     MarkDeviceReady, drvVars, callers
<1>3. \A u \in Threads : kpc'[u] \in {"timedout", "free", "clear"} =>
                          kpc'[u] = kpc[u] /\ status'[u] = status[u]
  BY DEF LibStep, CallBlocking, CallNonblocking, CallComplete, Enter, WaitForDevice, Claim,
     WaitEndsUnsignalled, WaitReturns, StartIoctl, CompleteIoctl, IoctlCall, Return, EnterWait,
     IoctlReturn, MarkDeviceReady, drvVars, callers, IInv, TypeOK, DrvTypeOK
<1> QED
  BY <1>1, <1>2, <1>3 DEF FlightInv, ErrorNeedsTimeout, channel, engine

-----------------------------------------------------------------------------
(* Memory                                                                  *)

\* The driver's steps: the list is allocated when there is none, and freed by
\* the wait; a transfer that cannot be started keeps the channel busy.
LEMMA MemKernel ==
  ASSUME NoLostList, IInv, CmdInv, MemInv,
         NEW t \in Threads, KernelStep(t), UNCHANGED libVars
  PROVE  MemInv'
<1>1. t \in owners /\ pc[t] = "ioctl" /\ \A u \in Threads : u # t => pc[u] \notin {"claimed", "ioctl", "ready"} /\ kpc[u] = "user"
  BY KernelOwner DEF IInv, OwnerInv, Exclusive
<1> USE DEF IInv, TypeOK, DrvTypeOK, CallInv, CmdInv, MemInv, libVars, channel, heap, engine, callers
<1>2. CASE AllocSgList(t)
  BY <1>1, <1>2 DEF AllocSgList
<1>3. CASE PrepSlaveSg(t)
  BY <1>1, <1>3 DEF PrepSlaveSg
<1>4. CASE PrepSlaveSgFails(t)
  BY <1>1, <1>4 DEF PrepSlaveSgFails, Return, NoLostList, Calls
<1>5. CASE DmaengineSubmit(t)
  BY <1>1, <1>5 DEF DmaengineSubmit
<1>6. CASE DmaengineSubmitFails(t)
  BY <1>1, <1>6 DEF DmaengineSubmitFails, Return, NoLostList, Calls
<1>7. CASE StoreCookie(t)
  BY <1>1, <1>7 DEF StoreCookie
<1>8. CASE IssuePending(t)
  BY <1>1, <1>8 DEF IssuePending, Return, EnterWait
<1>9. CASE WaitForCompletion(t)
  BY <1>1, <1>9 DEF WaitForCompletion
<1>10. CASE WaitTimesOut(t)
  BY <1>1, <1>10 DEF WaitTimesOut
<1>11. CASE CheckStatus(t)
  BY <1>1, <1>11 DEF CheckStatus
<1>12. CASE FreeSgList(t)
  BY <1>1, <1>12 DEF FreeSgList
<1>13. CASE NoSgList(t)
  BY <1>1, <1>13 DEF NoSgList, Return
<1>14. CASE ClearSgList(t)
  BY <1>1, <1>14 DEF ClearSgList, Return
<1> QED
  BY <1>2, <1>3, <1>4, <1>5, <1>6, <1>7, <1>8, <1>9, <1>10, <1>11, <1>12, <1>13, <1>14
     DEF KernelStep, StartTransfer, WaitForTransfer

\* The library's steps: a thread that claims the channel finds no list in it.
LEMMA MemLib ==
  ASSUME Disciplined, CompleteWaits, NoLostList, IInv, CmdInv, MemInv,
         NEW t \in Threads, LibStep(t)
  PROVE  MemInv'
<1> USE DEF IInv, TypeOK, DrvTypeOK, OwnerInv, Exclusive, CallInv, CmdInv, MemInv,
            drvVars, channel, heap, engine, callers
<1>1. CASE CallBlocking(t)
  BY <1>1 DEF CallBlocking, Enter
<1>2. CASE CallNonblocking(t)
  BY <1>2 DEF CallNonblocking, Enter, Disciplined
<1>3. CASE CallComplete(t)
  BY <1>3 DEF CallComplete, Enter, SelectResults, DMAP_INVALID_BUF_PTR, DMAP_INVALID_DEVICE_IDX
<1>4. CASE WaitForDevice(t)
  <2>1. CASE Claim(t) /\ ~busy
    BY <1>4, <2>1 DEF WaitForDevice, Claim
  <2>2. CASE busy /\ call[t] = "blocking"
    BY <1>4, <2>2 DEF WaitForDevice
  <2>3. CASE busy /\ call[t] = "nb"
    <3>1. pc[t] = "claim" /\ t \in Careful /\ (~EngineFaults => t \notin owners)
      BY <1>4, <2>3 DEF WaitForDevice, Disciplined
    <3>2. /\ pc' = [pc EXCEPT ![t] = "idle"]
          /\ pending' = pending \cup ({t} \ Careful)
          /\ UNCHANGED <<sglist, live, owners, kpc, ret, call>>
      BY <1>4, <2>3 DEF WaitForDevice, Claim
    <3>3. pending' = pending
      BY <3>1, <3>2
    <3> QED
      BY <3>1, <3>2, <3>3
  <2> QED
    BY <1>4, <2>1, <2>2, <2>3 DEF WaitForDevice
<1>5. CASE WaitEndsUnsignalled(t)
  BY <1>5 DEF WaitEndsUnsignalled
<1>6. CASE WaitReturns(t)
  BY <1>6 DEF WaitReturns, Claim, Disciplined, NoLostList
<1>7. CASE StartIoctl(t)
  BY <1>7 DEF StartIoctl, IoctlCall
<1>8. CASE CompleteIoctl(t)
  BY <1>8 DEF CompleteIoctl, IoctlCall, Return, EnterWait, CompleteWaits
<1>9. CASE IoctlReturn(t)
  BY <1>9 DEF IoctlReturn, Disciplined
<1>10. CASE MarkDeviceReady(t)
  BY <1>10 DEF MarkDeviceReady
<1> QED
  BY <1>1, <1>2, <1>3, <1>4, <1>5, <1>6, <1>7, <1>8, <1>9, <1>10 DEF LibStep

-----------------------------------------------------------------------------
(* Theorems                                                                *)

LEMMA CmdHolds ==
  ASSUME Disciplined
  PROVE  Spec => [](IInv /\ CmdInv)
<1>1. Init => IInv /\ CmdInv
  BY InvInit DEF Init, DrvInit, CmdInv
<1>2. IInv /\ CmdInv /\ [Next]_vars => (IInv /\ CmdInv)'
  BY InvStep, CmdStep
<1> QED
  BY <1>1, <1>2, PTL DEF Spec

LEMMA FlightHolds ==
  ASSUME Disciplined, CompleteWaits
  PROVE  Spec => [](IInv /\ FlightInv)
<1>1. Init => FlightInv
  <2> SUFFICES ASSUME Init PROVE FlightInv
    OBVIOUS
  <2>1. ~InFlight
    BY DEF Init, DrvInit, InFlight, Flying, Started
  <2> QED
    BY <2>1 DEF Init, DrvInit, FlightInv, ErrorNeedsTimeout
<1>2. ASSUME IInv, IInv', CmdInv, FlightInv, [Next]_vars PROVE FlightInv'
  <2>1. CASE UNCHANGED vars
    BY <1>2, <2>1 DEF FlightInv, InFlight, Flying, Started, ErrorNeedsTimeout,
       vars, drvVars, libVars, channel, heap, engine, callers
  <2>2. CASE Next
    BY <1>2, <2>2, FlightKernel, FlightEngine, FlightLib DEF Next
  <2> QED
    BY <1>2, <2>1, <2>2
<1> QED
  BY <1>1, <1>2, CmdHolds, PTL DEF Spec

LEMMA MemHolds ==
  ASSUME Disciplined, CompleteWaits, NoLostList
  PROVE  Spec => [](IInv /\ MemInv)
<1>1. Init => MemInv
  BY DEF Init, DrvInit, MemInv
<1>2. ASSUME IInv, CmdInv, MemInv, [Next]_vars PROVE MemInv'
  <2>1. CASE UNCHANGED vars
    BY <1>2, <2>1 DEF MemInv, vars, drvVars, libVars, channel, heap, callers
  <2>2. ASSUME EngineStep, UNCHANGED libVars PROVE MemInv'
    BY <1>2, <2>2 DEF EngineStep, EngineFinish, SyncCallback, MemInv, libVars, channel, heap, callers
  <2> QED
    BY <1>2, <2>1, <2>2, MemKernel, MemLib DEF Next
<1> QED
  BY <1>1, <1>2, CmdHolds, PTL DEF Spec

\* A channel whose busy flag is clear (_mark_device_ready) has no transfer
\* with the DMA engine, as long as no wait in wait_for_transfer timed out.
THEOREM ReadyMeansIdleHolds ==
  ASSUME Disciplined, CompleteWaits
  PROVE  Spec => []ReadyMeansIdle
<1>1. ASSUME IInv, FlightInv, ~busy, ~timedOut PROVE completed = submitted
  <2>1. ~InFlight
    BY <1>1 DEF IInv, OwnerInv, Flying, Started, InFlight
  <2> QED
    BY <1>1, <2>1 DEF FlightInv, IInv, CookieInv, TypeOK, DrvTypeOK
<1>2. IInv /\ FlightInv => ReadyMeansIdle
  BY <1>1 DEF ReadyMeansIdle
<1> QED
  BY <1>2, FlightHolds, PTL

\* As long as the engine answers in time wait_for_transfer stores
\* PROXY_NO_ERROR: the callback that ends a wait belongs to the transfer that
\* is waited for, never to an earlier one.
THEOREM ErrorNeedsTimeoutHolds ==
  ASSUME Disciplined, CompleteWaits
  PROVE  Spec => []ErrorNeedsTimeout
<1>1. IInv /\ FlightInv => ErrorNeedsTimeout
  BY DEF FlightInv
<1> QED
  BY <1>1, FlightHolds, PTL

\* A channel whose busy flag is clear holds no scatter/gather list, whatever
\* timed out before.
THEOREM ReadyHoldsNoMemoryHolds ==
  ASSUME Disciplined, CompleteWaits, NoLostList
  PROVE  Spec => []ReadyHoldsNoMemory
<1>1. IInv /\ MemInv => ReadyHoldsNoMemory
  BY DEF IInv, OwnerInv, MemInv, ReadyHoldsNoMemory
<1> QED
  BY <1>1, MemHolds, PTL
=============================================================================
