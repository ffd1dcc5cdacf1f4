-------------------------- MODULE ExclusiveChannel --------------------------
(***************************************************************************)
(* What a DMA channel promises to the threads of a process, stated without *)
(* flags, condition variables, scatter/gather lists or completions: the    *)
(* channel is held by one thread at a time, only its holder submits        *)
(* transfers, and a holder is told of success only when every transfer it  *)
(* has submitted while holding the channel is complete.                    *)
(***************************************************************************)
EXTENDS Integers

CONSTANT Threads

VARIABLES holders,   \* threads that hold the channel
          submitted, \* number of transfers submitted so far
          completed, \* number of transfers the engine has completed
          last,      \* per thread, the last transfer it submitted (0: none)
          success    \* threads that have been told that transfer succeeded

vars == <<holders, submitted, completed, last, success>>

Init == /\ holders = {}
        /\ submitted = 0 /\ completed = 0
        /\ last = [t \in Threads |-> 0]
        /\ success = {}

Acquire(t) == /\ holders = {}
              /\ holders' = {t}
              /\ UNCHANGED <<submitted, completed, last, success>>

Submit(t) == /\ holders = {t}
             /\ submitted' = submitted + 1
             /\ last' = [last EXCEPT ![t] = submitted + 1]
             /\ UNCHANGED <<holders, completed, success>>

Complete == /\ completed < submitted
            /\ completed' = completed + 1
            /\ UNCHANGED <<holders, submitted, last, success>>

ReportSuccess(t) == /\ holders = {t}
                    /\ 0 < last[t] /\ last[t] <= completed
                    /\ success' = success \cup {t}
                    /\ UNCHANGED <<holders, submitted, completed, last>>

\* The driver is done with the report.
Forget(t) == /\ success' = success \ {t}
             /\ UNCHANGED <<holders, submitted, completed, last>>

Release(t) == /\ holders = {t}
              /\ holders' = {}
              /\ UNCHANGED <<submitted, completed, last, success>>

Next == \/ Complete
        \/ \E t \in Threads : \/ Acquire(t) \/ Release(t)
                              \/ Submit(t)
                              \/ ReportSuccess(t) \/ Forget(t)

Spec == Init /\ [][Next]_vars
=============================================================================
