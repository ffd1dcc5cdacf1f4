---------------------------- MODULE MCChannelLive ----------------------------
(* Two companies of threads that share a channel, for TLC.  In the first    *)
(* all threads block.  In the second t1 blocks and its condition wait may   *)
(* end unsignalled, and t3 starts transfers, meets engine faults and        *)
(* ignores every return code; t3 makes the first call there.                *)
EXTENDS DmaProxyLib

CONSTANTS t1, t3

\* call[t3] is "blocking" initially and for ever in the first company.
Mixed == call[t3] # "blocking"

Fresh == nalloc = 0 /\ \A t \in Threads : pc[t] = "idle"

CallsMade == IF Mixed THEN {<<t1, "blocking">>, <<t3, "nb">>, <<t3, "complete">>}
             ELSE Threads \X {"blocking"}

Faulty(t) == WaitEndsUnsignalled(t) \/ PrepSlaveSgFails(t) \/ DmaengineSubmitFails(t)

\* Action constraint.  Every step it excludes is a call, which need not be
\* made, or a fault, instead of which the step may succeed: a thread that may
\* proceed still may.
OneCompany == /\ Mixed' # Mixed => Fresh
              /\ \A t \in Threads : pc'[t] # "idle" => <<t, call'[t]>> \in CallsMade'
              /\ ~Mixed => \A t \in Threads : ~Faulty(t)
=============================================================================
