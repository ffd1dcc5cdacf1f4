--------------------------- MODULE RunQueue_proof ---------------------------
(***************************************************************************)
(* Proofs about RunQueue for every build: any finite graph of tasks, any   *)
(* setscene tasks and [depends] flags, any contents of the shared state    *)
(* cache and of the stamp directory, any number of threads, and whatever   *)
(* tasks fail, in whatever order exit codes arrive.                        *)
(***************************************************************************)
EXTENDS RunQueue, SceneGraph_proof

-----------------------------------------------------------------------------
(* The inductive invariant                                                 *)

\* What is running or over has been marked as running, and the graph of the
\* setscene tasks stays as it was computed.
QueueInv ==
    /\ sqdata = SQData
    /\ Settled \cup sq_live \subseteq sq_running
    /\ sq_live \subseteq sq_buildable
    /\ runq_complete \cup failed_tids \subseteq runq_running

\* A setscene task is not settled while a worker runs it, although the
\* failure of another may settle it unrun (HardFail): it is not started
\* before those it waits for are settled.
SettleInv ==
    /\ sq_live \cap Settled = {}
    /\ \A s \in sq_buildable : s \in Settled \/ SqRevdeps(s) \subseteq Settled

\* The list of tasks to hold off may be out of date, but only on the safe
\* side, and what it holds off is not running.
HoldInv ==
    /\ ~holdoff_need_update => HoldoffNow \subseteq holdoff_tasks
    /\ \A t \in Live : \A s \in Setscene \ Settled : t # s /\ t \notin SqCovered({s})

IInv == TypeOK /\ QueueInv /\ Throttled /\ SettleInv /\ HoldInv

\* The times of stamps: what is made in this build is younger than all others.
LEMMA StampTimes ==
  /\ New \in Nat /\ None = 0 /\ New # None
  /\ {None} \cup OldTimes \subseteq None .. New /\ New \in None .. New
  /\ None .. New \subseteq Nat /\ \A n \in None .. New : n <= New
BY BuildAssumption DEF New, None, OldTimes

-----------------------------------------------------------------------------
(* Graphs                                                                  *)

\* Where the setscene tasks' graph lies: covered tasks are ordinary tasks, and
\* a setscene task waits for the setscene tasks it names in its [depends] flag.
LEMMA SqDataTypes ==
  ASSUME sqdata = SQData
  PROVE  /\ \A S \in SUBSET Setscene : SqCovered(S) \subseteq Tasks \ Setscene
         /\ \A S \in SUBSET Setscene : \A s \in S : SqCovered({s}) \subseteq SqCovered(S)
         /\ Unskippable \subseteq Tasks
         /\ \A s \in Setscene : SqRevdeps(s) \subseteq Setscene
         /\ \A s, d \in Setscene : s \in HardDeps[d] => d \in SqRevdeps(s)
<1>1. \A s \in Setscene : sqdata.sq_covered_tasks[s] \subseteq Tasks \ Setscene
  <2> SUFFICES ASSUME NEW s \in Setscene
               PROVE  sqdata.sq_covered_tasks[s] \subseteq Tasks \ Setscene
    OBVIOUS
  <2>1. sqdata.sq_covered_tasks[s] = Reach(Depends, Setscene, Depends[s]) \ Setscene
    BY DEF SQData, sq_covered_tasks
  <2> QED
    BY <2>1, ReachDomain DEF Tasks
<1>2. Unskippable \subseteq Tasks
  BY ReachDomain DEF Unskippable, SQData, unskippable, Tasks
<1>3. ASSUME NEW s \in Setscene
      PROVE  /\ SqRevdeps(s) \subseteq Setscene
             /\ \A d \in Setscene : s \in HardDeps[d] => d \in SqRevdeps(s)
  <2>1. SqRevdeps(s) = sq_revdeps(Depends, Setscene, HardDeps, s)
    BY DEF SqRevdeps, SQData
  <2> QED
    BY <2>1, BuildAssumption DEF sq_revdeps, SoftRevdeps
<1> QED
  BY <1>1, <1>2, <1>3 DEF SqCovered

\* A failing setscene task takes only setscene tasks with it.
LEMMA HardFailTypes ==
  ASSUME NEW s \in Setscene
  PROVE  HardFail(s) \subseteq Setscene /\ s \in HardFail(s)
BY ReachDomain DEF HardFail

-----------------------------------------------------------------------------
(* Type correctness                                                        *)

\* Settling setscene tasks.
LEMMA SettleTypes ==
  ASSUME TypeOK, sqdata = SQData, NEW C \in SUBSET Setscene, NEW N \in SUBSET Setscene,
         Settle(C, N)
  PROVE  /\ scenequeue_covered' \subseteq Setscene /\ scenequeue_notcovered' \subseteq Setscene
         /\ sq_running' \subseteq Setscene /\ sq_buildable' \subseteq Setscene
         /\ tasks_scenequeue_done' \subseteq Tasks
         /\ holdoff_need_update' = TRUE
<1>1. SqCovered(C \cup N) \subseteq Tasks
  BY SqDataTypes
<1>2. SceneBuildable(Settled \cup C \cup N) \subseteq Setscene
  BY DEF SceneBuildable
<1>3. tasks_scenequeue_done' \subseteq Tasks
  BY <1>1, BuildAssumption DEF Settle, SceneDone, TypeOK
<1> QED
  BY <1>2, <1>3 DEF Settle, TypeOK

\* The holdoff lists and the queue of the middle of execute.
LEMMA HoldoffTypes ==
  ASSUME TypeOK, sqdata = SQData
  PROVE  /\ Covered \subseteq Tasks /\ NotCovered \subseteq Tasks
         /\ Holdoff \subseteq Tasks /\ Buildable \subseteq Tasks
         /\ Candidates \subseteq Tasks
<1>1. SqCovered(Setscene \ Settled) \subseteq Tasks
  BY SqDataTypes
<1>2. CoveredNow \subseteq Tasks /\ NotCoveredNow \subseteq Tasks /\ HoldoffNow \subseteq Tasks
  BY <1>1, BuildAssumption DEF CoveredNow, NotCoveredNow, HoldoffNow, TypeOK
<1>3. Covered \subseteq Tasks /\ NotCovered \subseteq Tasks /\ Holdoff \subseteq Tasks
  BY <1>2 DEF Covered, NotCovered, Holdoff, TypeOK
<1>4. Buildable \subseteq Tasks
  BY <1>2 DEF Buildable, TypeOK
<1> QED
  BY <1>3, <1>4 DEF Candidates

\* The tasks running are finitely many.
LEMMA LiveFinite ==
  ASSUME TypeOK
  PROVE  /\ IsFiniteSet(Live) /\ IsFiniteSet(sq_live)
         /\ Cardinality(Live) \in Nat /\ Cardinality(sq_live) \in Nat
<1>1. Live \in SUBSET Tasks /\ sq_live \in SUBSET Tasks
  BY BuildAssumption DEF TypeOK, Live
<1>2. IsFiniteSet(Live) /\ IsFiniteSet(sq_live)
  BY <1>1, BuildAssumption, FS_Subset
<1> QED
  BY <1>2, FS_CardinalityType

\* Taking an entry from sq_deferred.
LEMMA UndeferTypes ==
  ASSUME TypeOK, NEW s, Undefer(s)
  PROVE  sq_deferred' \in [DOMAIN sq_deferred' -> Setscene] /\ DOMAIN sq_deferred' \subseteq Setscene
<1>1. DOMAIN sq_deferred' = DOMAIN sq_deferred \ {s}
  BY DEF Undefer
<1> QED
  BY <1>1 DEF TypeOK, Undefer

-----------------------------------------------------------------------------
(* The initial state                                                       *)

LEMMA InitTypes == Init => TypeOK
<1> SUFFICES ASSUME Init PROVE TypeOK
  OBVIOUS
<1>1. /\ rqstate = "Running" /\ executing = FALSE /\ abort \in BOOLEAN /\ interrupted = FALSE
      /\ sqdone \in BOOLEAN /\ holdoff_need_update = TRUE /\ active = 0 /\ sqdata = SQData
      /\ stamp \in [Tasks -> {None} \cup OldTimes] /\ unneeded \subseteq Setscene
      /\ scenequeue_notcovered = {} /\ sq_live = {} /\ sq_running = scenequeue_covered
      /\ tasks_covered = {} /\ tasks_notcovered \subseteq Tasks /\ holdoff_tasks = {}
      /\ runq_running = {} /\ runq_complete = {} /\ failed_tids = {}
  BY BuildAssumption DEF Init
<1>2. /\ scstamp \subseteq Setscene /\ scenequeue_covered \subseteq Setscene
      /\ outrightfail \subseteq Setscene
  BY DEF Init
<1>3. sq_buildable \subseteq Setscene
  BY <1>2 DEF Init, SceneBuildable
<1>4. tasks_scenequeue_done \subseteq Tasks
  <2>1. SqCovered(scenequeue_covered) \subseteq Tasks /\ Unskippable \subseteq Tasks
    BY <1>1, <1>2, SqDataTypes
  <2> QED
    BY <1>2, <2>1, BuildAssumption DEF Init, SceneDone
<1>5. runq_buildable \subseteq Tasks
  BY <1>1, SqDataTypes DEF Init
<1>6. sq_deferred \in [DOMAIN sq_deferred -> Setscene] /\ DOMAIN sq_deferred \subseteq Setscene
  <2> DEFINE Same(s) == {u \in outrightfail : HashIndex[u] = HashIndex[s]}
             First(s) == CHOOSE u \in outrightfail :
                           /\ HashIndex[u] = HashIndex[s]
                           /\ \A v \in outrightfail : HashIndex[v] = HashIndex[s] => u <= v
  <2>1. sq_deferred = [s \in {u \in outrightfail : First(u) # u} |-> First(s)]
    BY DEF Init
  <2>2. ASSUME NEW s \in outrightfail PROVE First(s) \in outrightfail
    <3>1. Same(s) \in SUBSET Nat /\ Same(s) # {}
      BY <1>2, BuildAssumption
    <3>2. PICK u \in Same(s) : \A v \in Same(s) : u <= v
      BY <3>1, LeastNumber
    <3> QED
      BY <3>2
  <2> HIDE DEF First
  <2> QED
    BY <1>2, <2>1, <2>2
<1>7. active \in 0 .. NumberThreads
  BY <1>1, BuildAssumption
<1>8. stamp \in [Tasks -> None .. New]
  BY <1>1, StampTimes
<1> QED
  BY <1>1, <1>2, <1>3, <1>4, <1>5, <1>6, <1>7, <1>8 DEF TypeOK

LEMMA InvInit == Init => IInv
<1> SUFFICES ASSUME Init PROVE IInv
  OBVIOUS
<1>1. TypeOK
  BY InitTypes
<1>2. Live = {} /\ sq_live = {} /\ active = 0
  BY DEF Init, Live
<1>3. QueueInv
  BY DEF Init, QueueInv, Settled
<1>4. Throttled
  BY <1>2, FS_EmptySet, BuildAssumption DEF Throttled
<1>5. SettleInv
  BY DEF Init, SettleInv, Settled, SceneBuildable
<1>6. HoldInv
  BY <1>2 DEF Init, HoldInv
<1> QED
  BY <1>1, <1>3, <1>4, <1>5, <1>6 DEF IInv

-----------------------------------------------------------------------------
(* Steps that settle setscene tasks                                        *)

\* Settling tasks that no worker is running, or no longer runs.
LEMMA SettleStep ==
  ASSUME IInv, NEW C \in SUBSET Setscene, NEW N \in SUBSET Setscene, Settle(C, N),
         UNCHANGED <<sqdata, runq_running, runq_complete, failed_tids>>,
         sq_live' \subseteq sq_live, (C \cup N) \cap sq_live' = {}
  PROVE  QueueInv' /\ SettleInv' /\ HoldInv' /\ Live' = Live
<1>1. /\ Settled' = Settled \cup C \cup N /\ sq_running' = sq_running \cup C \cup N
      /\ sq_buildable' = sq_buildable \cup C \cup N \cup SceneBuildable(Settled \cup C \cup N)
      /\ holdoff_need_update' = TRUE
  BY DEF Settle, Settled
<1>2. Live' = Live
  BY DEF Live
<1>3. QueueInv'
  BY <1>1 DEF IInv, QueueInv
<1>4. \A s \in Setscene : SqRevdeps(s)' = SqRevdeps(s) /\ SqCovered({s})' = SqCovered({s})
  BY DEF SqRevdeps, SqCovered
<1>5. SettleInv'
  BY <1>1, <1>4 DEF IInv, TypeOK, SettleInv, SceneBuildable
<1>6. HoldInv'
  BY <1>1, <1>2, <1>4 DEF IInv, HoldInv
<1> QED
  BY <1>2, <1>3, <1>5, <1>6

\* The tasks a failure of s takes with it are not running: one that is running
\* was started when those it names in its [depends] flag were settled.
LEMMA HardFailApart ==
  ASSUME IInv, NEW s \in Setscene \ Settled
  PROVE  HardFail(s) \cap sq_live \subseteq {s}
<1> DEFINE H == [u \in Setscene |-> HardDeps[u] \ Settled]
           S == {s} \cup (Setscene \ (Settled \cup sq_live))
<1>1. DOMAIN H = Setscene /\ S \in SUBSET DOMAIN H
  OBVIOUS
<1>2. ASSUME NEW v \in S, NEW u \in H[v] PROVE u \in S
  <2>1. v \in Setscene \ Settled /\ u \in HardDeps[v] /\ u \in Setscene \ Settled
    BY <1>2, BuildAssumption
  <2>2. v \in SqRevdeps(u)
    BY <2>1, SqDataTypes DEF IInv, QueueInv
  <2>3. u \notin sq_live
    BY <2>1, <2>2 DEF IInv, QueueInv, SettleInv
  <2> QED
    BY <2>1, <2>3
<1>3. Closed(H, {}, S)
  BY <1>2 DEF Closed
<1>4. HardFail(s) = Reach(H, {}, {s}) /\ {s} \subseteq S
  BY DEF HardFail
<1>5. S \cap sq_live \subseteq {s}
  OBVIOUS
<1> HIDE DEF H, S
<1>6. HardFail(s) \subseteq S
  BY <1>1, <1>3, <1>4, ReachLeast
<1> QED
  BY <1>5, <1>6

\* The count of running tasks and the threads, when none starts or ends.
LEMMA ThrottleUnchanged ==
  ASSUME Throttled, Live' = Live, UNCHANGED <<sq_live, active>>
  PROVE  Throttled'
BY DEF Throttled

\* execute settles the setscene task s, which is due, without a worker.
LEMMA SceneSettledInv ==
  ASSUME IInv, NEW s \in Setscene,
         SkipUnneeded(s) \/ SceneUnavailable(s) \/ (StartScene(s) /\ StampCurrentRec(s))
  PROVE  IInv'
<1>1. /\ SceneTurn(s) /\ Undefer(s)
      /\ outrightfail' \in {outrightfail, outrightfail \ {s}}
      /\ UNCHANGED <<rqstate, sqdata, abort, interrupted, unneeded, stampvars, active, sq_live,
                     sqdone, holdoffvars, runq_buildable, runvars>>
  BY DEF SkipUnneeded, SceneUnavailable, StartScene
<1>2. s \notin sq_running /\ s \notin Settled /\ s \notin sq_live /\ executing' = FALSE
  BY <1>1 DEF SceneTurn, SceneReady, IInv, QueueInv
<1>3. PICK C \in SUBSET Setscene, N \in SUBSET Setscene :
        Settle(C, N) /\ (C \cup N) \cap sq_live = {}
  <2>1. CASE SkipUnneeded(s)
    BY <1>2, <2>1 DEF SkipUnneeded
  <2>2. CASE SceneUnavailable(s) \/ (StartScene(s) /\ StampCurrentRec(s))
    <3>1. Settle({}, HardFail(s))
      BY <2>2 DEF SceneUnavailable, StartScene
    <3>2. HardFail(s) \in SUBSET Setscene /\ HardFail(s) \cap sq_live = {}
      BY <1>2, HardFailTypes, HardFailApart
    <3> QED
      BY <3>1, <3>2
  <2> QED
    BY <2>1, <2>2
<1>4. QueueInv' /\ SettleInv' /\ HoldInv' /\ Live' = Live
  BY <1>1, <1>3, SettleStep DEF runvars
<1>5. Throttled'
  BY <1>1, <1>4, ThrottleUnchanged DEF IInv
<1>6. /\ scenequeue_covered' \subseteq Setscene /\ scenequeue_notcovered' \subseteq Setscene
      /\ sq_running' \subseteq Setscene /\ sq_buildable' \subseteq Setscene
      /\ tasks_scenequeue_done' \subseteq Tasks
      /\ holdoff_need_update' = TRUE
  BY <1>3, SettleTypes DEF IInv, QueueInv
<1>7. sq_deferred' \in [DOMAIN sq_deferred' -> Setscene] /\ DOMAIN sq_deferred' \subseteq Setscene
  BY <1>1, UndeferTypes DEF IInv
<1>8. TypeOK'
  BY <1>1, <1>2, <1>6, <1>7 DEF IInv, TypeOK, stampvars, holdoffvars, runvars
<1> QED
  BY <1>4, <1>5, <1>8 DEF IInv

\* The holdoff list that execute uses holds off all that must be held off.
LEMMA HoldoffSafe ==
  ASSUME HoldInv
  PROVE  HoldoffNow \subseteq Holdoff
BY DEF HoldInv, Holdoff

\* Bringing the holdoff lists up to date, with nothing settled in the same step.
LEMMA HoldoffUpdated ==
  ASSUME IInv, update_holdofftasks, UNCHANGED <<sqdata, scenequeue_covered, scenequeue_notcovered>>,
         runq_complete \subseteq runq_complete'
  PROVE  /\ HoldoffNow' \subseteq holdoff_tasks'
         /\ Settled' = Settled
         /\ \A s \in Setscene : SqCovered({s})' = SqCovered({s}) /\ SqRevdeps(s)' = SqRevdeps(s)
         /\ tasks_covered' \subseteq Tasks /\ tasks_notcovered' \subseteq Tasks
         /\ holdoff_tasks' \subseteq Tasks
<1>1. Settled' = Settled
  BY DEF Settled
<1>2. HoldoffNow' \subseteq HoldoffNow
  BY <1>1 DEF HoldoffNow, SqCovered
<1>3. HoldoffNow \subseteq holdoff_tasks'
  BY HoldoffSafe DEF update_holdofftasks, IInv
<1>4. /\ tasks_covered' \subseteq Tasks /\ tasks_notcovered' \subseteq Tasks
      /\ holdoff_tasks' \subseteq Tasks
  BY HoldoffTypes DEF update_holdofftasks, IInv, QueueInv
<1> QED
  BY <1>1, <1>2, <1>3, <1>4 DEF SqCovered, SqRevdeps

\* execute hands the setscene task s to a worker.
LEMMA StartSceneInv ==
  ASSUME IInv, NEW s \in Setscene, StartScene(s), ~StampCurrentRec(s)
  PROVE  IInv'
<1>1. /\ SceneTurn(s) /\ Undefer(s) /\ outrightfail' = outrightfail \ {s}
      /\ sq_running' = sq_running \cup {s} /\ sq_live' = sq_live \cup {s} /\ active' = active + 1
      /\ UNCHANGED <<sq_buildable, scenequeue_covered, scenequeue_notcovered, tasks_scenequeue_done,
                     rqstate, sqdata, abort, interrupted, unneeded, stampvars, sqdone, runvars>>
      /\ \/ UNCHANGED <<holdoffvars, holdoff_need_update, runq_buildable>>
         \/ update_holdofftasks /\ runq_buildable' = Buildable /\ holdoff_need_update' = FALSE
  BY DEF StartScene
<1>2. /\ s \notin sq_running /\ s \notin Settled /\ s \notin sq_live /\ s \in sq_buildable
      /\ executing' = FALSE /\ active < NumberThreads
      /\ \A u \in sq_live : StampFile[u] # StampFile[s]
  BY <1>1 DEF SceneTurn, SceneReady, CanStart, BuildStamps, IInv, QueueInv
<1>3. /\ Live' = Live /\ Settled' = Settled
      /\ \A u \in Setscene : SqCovered({u})' = SqCovered({u}) /\ SqRevdeps(u)' = SqRevdeps(u)
  BY <1>1 DEF Live, Settled, SqCovered, SqRevdeps, runvars
<1>4. QueueInv' /\ SettleInv'
  BY <1>1, <1>2, <1>3 DEF IInv, TypeOK, QueueInv, SettleInv, runvars
<1>5. HoldInv' /\ tasks_covered' \subseteq Tasks /\ tasks_notcovered' \subseteq Tasks
      /\ holdoff_tasks' \subseteq Tasks /\ runq_buildable' \subseteq Tasks
      /\ holdoff_need_update' \in BOOLEAN
  <2>1. CASE UNCHANGED <<holdoffvars, holdoff_need_update, runq_buildable>>
    <3>1. HoldoffNow' = HoldoffNow
      BY <1>1, <1>3 DEF HoldoffNow, SqCovered, runvars
    <3> QED
      BY <1>3, <2>1, <3>1 DEF IInv, TypeOK, HoldInv, holdoffvars
  <2>2. CASE update_holdofftasks /\ runq_buildable' = Buildable /\ holdoff_need_update' = FALSE
    <3>1. runq_complete \subseteq runq_complete'
      BY <1>1 DEF runvars
    <3>2. /\ HoldoffNow' \subseteq holdoff_tasks'
          /\ tasks_covered' \subseteq Tasks /\ tasks_notcovered' \subseteq Tasks
          /\ holdoff_tasks' \subseteq Tasks
      BY <1>1, <2>2, <3>1, HoldoffUpdated
    <3>3. runq_buildable' \subseteq Tasks
      BY <2>2, HoldoffTypes DEF IInv, QueueInv
    <3>4. HoldInv'
      BY <1>3, <3>2 DEF IInv, HoldInv
    <3> QED
      BY <2>2, <3>2, <3>3, <3>4
  <2> QED
    BY <1>1, <2>1, <2>2
<1>6. Throttled'
  <2>1. /\ active = Cardinality(Live) + Cardinality(sq_live)
        /\ \A t, u \in sq_live : StampFile[t] = StampFile[u] => t = u
    BY DEF IInv, Throttled
  <2>2. Cardinality(sq_live') = Cardinality(sq_live) + 1
    BY <1>1, <1>2, LiveFinite, FS_AddElement DEF IInv
  <2>3. Cardinality(Live) \in Nat /\ Cardinality(sq_live) \in Nat /\ active \in Nat /\ NumberThreads \in Nat
    BY LiveFinite, BuildAssumption DEF IInv, TypeOK
  <2>4. active' = Cardinality(Live') + Cardinality(sq_live') /\ active' <= NumberThreads
    BY <1>1, <1>2, <1>3, <2>1, <2>2, <2>3
  <2>5. \A t, u \in sq_live' : StampFile[t] = StampFile[u] => t = u
    BY <1>1, <1>2, <2>1
  <2> QED
    BY <1>3, <2>4, <2>5 DEF IInv, Throttled
<1>7. sq_deferred' \in [DOMAIN sq_deferred' -> Setscene] /\ DOMAIN sq_deferred' \subseteq Setscene
  BY <1>1, UndeferTypes DEF IInv
<1>8. active' \in 0 .. NumberThreads
  BY <1>1, <1>2, BuildAssumption DEF IInv, TypeOK
<1>9. TypeOK'
  BY <1>1, <1>2, <1>5, <1>7, <1>8 DEF IInv, TypeOK, stampvars, runvars
<1> QED
  BY <1>4, <1>5, <1>6, <1>9 DEF IInv

-----------------------------------------------------------------------------
(* Steps of the middle and the end of execute                              *)

\* What the branches after the holdoff lists have in common.
LEMMA MainTurnTypes ==
  ASSUME IInv, MainTurn, runq_complete \subseteq runq_complete',
         UNCHANGED <<scenequeue_covered, scenequeue_notcovered>>
  PROVE  /\ executing' = FALSE /\ sqdone' \in BOOLEAN
         /\ UNCHANGED <<sqdata, abort, interrupted, unneeded, sq_live, outrightfail>>
         /\ tasks_covered' \subseteq Tasks /\ tasks_notcovered' \subseteq Tasks
         /\ holdoff_tasks' \subseteq Tasks /\ HoldoffNow' \subseteq holdoff_tasks'
         /\ Settled' = Settled
         /\ \A s \in Setscene : SqCovered({s})' = SqCovered({s}) /\ SqRevdeps(s)' = SqRevdeps(s)
<1>1. /\ executing' = FALSE /\ update_holdofftasks
      /\ UNCHANGED <<sqdata, abort, interrupted, unneeded, sq_live, outrightfail>>
  BY DEF MainTurn
<1>2. sqdone' \in BOOLEAN
  BY DEF MainTurn
<1> QED
  BY <1>1, <1>2, HoldoffUpdated

\* execute skips task t.
LEMMA SkipTaskInv ==
  ASSUME IInv, NEW t \in Tasks, SkipTask(t)
  PROVE  IInv'
<1>1. /\ MainTurn /\ t \in Candidates
      /\ runq_running' = runq_running \cup {t} /\ runq_complete' = runq_complete \cup {t}
      /\ runq_buildable' = Buildable \cup {t} \cup NewlyBuildable(t)
      /\ holdoff_need_update' = FALSE
      /\ UNCHANGED <<rqstate, active, sqvars, sq_deferred, failed_tids>>
      /\ stamp' \in {stamp, [stamp EXCEPT ![t] = New]} /\ scstamp' \in {scstamp, scstamp \ {t}}
  BY DEF SkipTask
<1>2. /\ executing' = FALSE /\ sqdone' \in BOOLEAN
      /\ UNCHANGED <<sqdata, abort, interrupted, unneeded, sq_live, outrightfail>>
      /\ tasks_covered' \subseteq Tasks /\ tasks_notcovered' \subseteq Tasks
      /\ holdoff_tasks' \subseteq Tasks /\ HoldoffNow' \subseteq holdoff_tasks'
      /\ Settled' = Settled
      /\ \A s \in Setscene : SqCovered({s})' = SqCovered({s}) /\ SqRevdeps(s)' = SqRevdeps(s)
  BY <1>1, MainTurnTypes DEF sqvars
<1>3. t \notin runq_running
  BY <1>1 DEF Candidates
<1>4. Live' = Live
  BY <1>1, <1>3 DEF Live, IInv, QueueInv
<1>5. QueueInv' /\ SettleInv' /\ HoldInv'
  <2>1. QueueInv'
    BY <1>1, <1>2 DEF IInv, QueueInv, sqvars
  <2>2. SettleInv'
    BY <1>1, <1>2 DEF IInv, TypeOK, SettleInv, sqvars
  <2>3. HoldInv'
    BY <1>2, <1>4 DEF IInv, HoldInv
  <2> QED
    BY <2>1, <2>2, <2>3
<1>6. Throttled'
  BY <1>1, <1>2, <1>4, ThrottleUnchanged DEF IInv
<1>7. TypeOK'
  <2>1. runq_buildable' \subseteq Tasks
    BY <1>1, HoldoffTypes DEF IInv, QueueInv, NewlyBuildable, revdeps, Tasks
  <2>2. stamp' \in [Tasks -> None .. New] /\ scstamp' \subseteq Setscene
    BY <1>1, StampTimes DEF IInv, TypeOK
  <2> QED
    BY <1>1, <1>2, <2>1, <2>2 DEF IInv, TypeOK, sqvars
<1> QED
  BY <1>5, <1>6, <1>7 DEF IInv

\* execute hands task t to a worker.
LEMMA StartTaskInv ==
  ASSUME IInv, NEW t \in Tasks, StartTask(t)
  PROVE  IInv'
<1>1. /\ MainTurn /\ t \in Candidates
      /\ runq_running' = runq_running \cup {t} /\ active' = active + 1
      /\ runq_buildable' = Buildable /\ holdoff_need_update' = FALSE
      /\ UNCHANGED <<rqstate, stampvars, sqvars, sq_deferred, runq_complete, failed_tids>>
  BY DEF StartTask
<1>2. /\ executing' = FALSE /\ sqdone' \in BOOLEAN
      /\ UNCHANGED <<sqdata, abort, interrupted, unneeded, sq_live, outrightfail>>
      /\ tasks_covered' \subseteq Tasks /\ tasks_notcovered' \subseteq Tasks
      /\ holdoff_tasks' \subseteq Tasks /\ HoldoffNow' \subseteq holdoff_tasks'
      /\ Settled' = Settled
      /\ \A s \in Setscene : SqCovered({s})' = SqCovered({s}) /\ SqRevdeps(s)' = SqRevdeps(s)
  BY <1>1, MainTurnTypes DEF sqvars
<1>3. /\ t \notin runq_running /\ t \notin Holdoff /\ active < NumberThreads /\ SlotFree(t)
      /\ \A u \in Live : StampFile[u] # StampFile[t]
  BY <1>1 DEF Candidates, CanStart, BuildStamps
<1>4. Live' = Live \cup {t} /\ t \notin Live /\ t \notin runq_complete
  BY <1>1, <1>3 DEF Live, IInv, QueueInv
<1>5. QueueInv' /\ SettleInv'
  BY <1>1, <1>2 DEF IInv, TypeOK, QueueInv, SettleInv, sqvars
<1>6. HoldInv'
  <2>1. ASSUME NEW s \in Setscene \ Settled PROVE t # s /\ t \notin SqCovered({s})
    <3>1. t \notin HoldoffNow
      BY <1>3, HoldoffSafe DEF IInv
    <3>2. SqCovered({s}) \subseteq SqCovered(Setscene \ Settled)
      BY SqDataTypes DEF IInv, QueueInv
    <3> QED
      BY <1>4, <3>1, <3>2 DEF HoldoffNow
  <2> QED
    BY <1>2, <1>4, <2>1 DEF IInv, HoldInv
<1>7. Throttled'
  <2>1. /\ active = Cardinality(Live) + Cardinality(sq_live)
        /\ \A v \in Live : MaxThreads[TaskName[v]] # 0 =>
             Cardinality({u \in Live : TaskName[u] = TaskName[v]}) <= MaxThreads[TaskName[v]]
        /\ \A v, u \in Live : StampFile[v] = StampFile[u] => v = u
        /\ \A v, u \in sq_live : StampFile[v] = StampFile[u] => v = u
    BY DEF IInv, Throttled
  <2>2. /\ Cardinality(Live) \in Nat /\ Cardinality(sq_live) \in Nat /\ IsFiniteSet(Live)
        /\ active \in Nat /\ NumberThreads \in Nat
    BY LiveFinite, BuildAssumption DEF IInv, TypeOK
  <2>3. Cardinality(Live') = Cardinality(Live) + 1
    BY <1>4, <2>2, FS_AddElement
  <2>4. active' = Cardinality(Live') + Cardinality(sq_live') /\ active' <= NumberThreads
    BY <1>1, <1>2, <1>3, <2>1, <2>2, <2>3
  <2>5. ASSUME NEW v \in Live', MaxThreads[TaskName[v]] # 0
        PROVE  Cardinality({u \in Live' : TaskName[u] = TaskName[v]}) <= MaxThreads[TaskName[v]]
    <3>1. CASE TaskName[v] # TaskName[t]
      <4>1. v \in Live /\ {u \in Live' : TaskName[u] = TaskName[v]} = {u \in Live : TaskName[u] = TaskName[v]}
        BY <1>4, <2>5, <3>1
      <4> QED
        BY <2>1, <2>5, <4>1
    <3>2. CASE TaskName[v] = TaskName[t]
      <4> DEFINE R == {r \in runq_running \ runq_complete : TaskName[r] = TaskName[t]}
                 L == {u \in Live' : TaskName[u] = TaskName[v]}
      <4>1. R \in SUBSET Tasks /\ L \in SUBSET (R \cup {t}) /\ t \notin R
        BY <1>3, <1>4, <3>2 DEF Live, IInv, TypeOK
      <4>2. Cardinality(R) < MaxThreads[TaskName[v]] /\ MaxThreads[TaskName[v]] \in Nat
        BY <1>3, <2>5, <3>2, BuildAssumption DEF SlotFree
      <4> HIDE DEF R, L
      <4>3. IsFiniteSet(R) /\ Cardinality(R) \in Nat
        BY <4>1, BuildAssumption, FS_Subset, FS_CardinalityType
      <4>4. IsFiniteSet(R \cup {t}) /\ Cardinality(R \cup {t}) = Cardinality(R) + 1
        BY <4>1, <4>3, FS_AddElement
      <4>5. Cardinality(L) <= Cardinality(R \cup {t}) /\ Cardinality(L) \in Nat
        BY <4>1, <4>4, FS_Subset, FS_CardinalityType
      <4>6. Cardinality(L) <= MaxThreads[TaskName[v]]
        BY <4>2, <4>3, <4>4, <4>5
      <4> QED
        BY <4>6 DEF L
    <3> QED
      BY <3>1, <3>2
  <2>6. \A v, u \in Live' : StampFile[v] = StampFile[u] => v = u
    BY <1>3, <1>4, <2>1
  <2> QED
    BY <1>2, <2>1, <2>4, <2>5, <2>6 DEF Throttled
<1>8. TypeOK'
  <2>1. runq_buildable' \subseteq Tasks
    BY <1>1, HoldoffTypes DEF IInv, QueueInv
  <2>2. active' \in 0 .. NumberThreads
    BY <1>1, <1>3, BuildAssumption DEF IInv, TypeOK
  <2> QED
    BY <1>1, <1>2, <2>1, <2>2 DEF IInv, TypeOK, sqvars, stampvars
<1> QED
  BY <1>5, <1>6, <1>7, <1>8 DEF IInv

\* execute starts nothing: it waits, or the build ends.
LEMMA NothingStartedInv ==
  ASSUME IInv, WaitWorkers \/ EndBuild
  PROVE  IInv'
<1>1. /\ MainTurn
      /\ runq_buildable' = Buildable /\ holdoff_need_update' = FALSE
      /\ UNCHANGED <<stampvars, active, sqvars, sq_deferred, runvars>>
      /\ rqstate' \in {rqstate, "Complete", "Failed"}
  BY DEF WaitWorkers, EndBuild
<1>2. /\ executing' = FALSE /\ sqdone' \in BOOLEAN
      /\ UNCHANGED <<sqdata, abort, interrupted, unneeded, sq_live, outrightfail>>
      /\ tasks_covered' \subseteq Tasks /\ tasks_notcovered' \subseteq Tasks
      /\ holdoff_tasks' \subseteq Tasks /\ HoldoffNow' \subseteq holdoff_tasks'
      /\ Settled' = Settled
      /\ \A s \in Setscene : SqCovered({s})' = SqCovered({s}) /\ SqRevdeps(s)' = SqRevdeps(s)
  BY <1>1, MainTurnTypes DEF sqvars, runvars
<1>3. Live' = Live
  BY <1>1 DEF Live, runvars
<1>4. QueueInv' /\ SettleInv' /\ HoldInv'
  <2>1. QueueInv'
    BY <1>1, <1>2 DEF IInv, QueueInv, sqvars, runvars
  <2>2. SettleInv'
    BY <1>1, <1>2 DEF IInv, TypeOK, SettleInv, sqvars
  <2>3. HoldInv'
    BY <1>2, <1>3 DEF IInv, HoldInv
  <2> QED
    BY <2>1, <2>2, <2>3
<1>5. Throttled'
  BY <1>1, <1>2, <1>3, ThrottleUnchanged DEF IInv
<1>6. TypeOK'
  <2>1. runq_buildable' \subseteq Tasks
    BY <1>1, HoldoffTypes DEF IInv, QueueInv
  <2>2. rqstate' \in {"Running", "CleanUp", "Complete", "Failed"}
    BY <1>1 DEF IInv, TypeOK
  <2> QED
    BY <1>1, <1>2, <2>1, <2>2 DEF IInv, TypeOK, sqvars, stampvars, runvars
<1> QED
  BY <1>4, <1>5, <1>6 DEF IInv

\* Deadlock on deferred tasks: nothing is running, so whatever task is forced,
\* no worker runs it.
LEMMA ForceDeferredInv ==
  ASSUME IInv, NEW s \in Setscene, ForceDeferred(s)
  PROVE  IInv'
<1>1. /\ MainTurn /\ active = 0 /\ s \in DOMAIN sq_deferred
      /\ Settle({}, HardFail(sq_deferred[s])) /\ Undefer(s) /\ runq_buildable' = Buildable
      /\ UNCHANGED <<rqstate, stampvars, active, runvars>>
  BY DEF ForceDeferred, Deferred
<1>2. /\ executing' = FALSE /\ sqdone' \in BOOLEAN /\ update_holdofftasks
      /\ UNCHANGED <<sqdata, abort, interrupted, unneeded, sq_live, outrightfail>>
  BY <1>1 DEF MainTurn
<1>3. sq_live = {}
  <2>1. active = Cardinality(Live) + Cardinality(sq_live)
    BY DEF IInv, Throttled
  <2>2. Cardinality(sq_live) = 0
    BY <1>1, <2>1, LiveFinite DEF IInv
  <2> QED
    BY <2>2, LiveFinite, FS_EmptySet DEF IInv
<1>4. HardFail(sq_deferred[s]) \in SUBSET Setscene
  <2>1. sq_deferred[s] \in Setscene
    BY <1>1 DEF IInv, TypeOK
  <2> QED
    BY <2>1, HardFailTypes
<1>5. QueueInv' /\ SettleInv' /\ HoldInv' /\ Live' = Live
  <2> DEFINE N == HardFail(sq_deferred[s])
  <2>1. Settle({}, N) /\ N \in SUBSET Setscene /\ ({} \cup N) \cap sq_live' = {}
    BY <1>1, <1>2, <1>3, <1>4
  <2> HIDE DEF N
  <2> QED
    BY <1>1, <1>2, <2>1, SettleStep DEF runvars
<1>6. Throttled'
  BY <1>1, <1>2, <1>5, ThrottleUnchanged DEF IInv
<1>7. /\ scenequeue_covered' \subseteq Setscene /\ scenequeue_notcovered' \subseteq Setscene
      /\ sq_running' \subseteq Setscene /\ sq_buildable' \subseteq Setscene
      /\ tasks_scenequeue_done' \subseteq Tasks
      /\ holdoff_need_update' = TRUE
  BY <1>1, <1>4, SettleTypes DEF IInv, QueueInv
<1>8. sq_deferred' \in [DOMAIN sq_deferred' -> Setscene] /\ DOMAIN sq_deferred' \subseteq Setscene
  BY <1>1, UndeferTypes DEF IInv
<1>9. /\ tasks_covered' \subseteq Tasks /\ tasks_notcovered' \subseteq Tasks
      /\ holdoff_tasks' \subseteq Tasks /\ runq_buildable' \subseteq Tasks
  BY <1>1, <1>2, HoldoffTypes DEF update_holdofftasks, IInv, QueueInv
<1>10. TypeOK'
  BY <1>1, <1>2, <1>7, <1>8, <1>9 DEF IInv, TypeOK, stampvars, runvars
<1> QED
  BY <1>5, <1>6, <1>10 DEF IInv

-----------------------------------------------------------------------------
(* Exit codes, and the end                                                 *)

\* One running task fewer.
LEMMA ThrottleLess ==
  ASSUME IInv, active' = active - 1,
         \/ \E t \in Live : Live' = Live \ {t} /\ sq_live' = sq_live
         \/ \E t \in sq_live : sq_live' = sq_live \ {t} /\ Live' = Live
  PROVE  Throttled' /\ active' \in 0 .. NumberThreads
<1>1. /\ active = Cardinality(Live) + Cardinality(sq_live) /\ active <= NumberThreads
      /\ \A v \in Live : MaxThreads[TaskName[v]] # 0 =>
           Cardinality({u \in Live : TaskName[u] = TaskName[v]}) <= MaxThreads[TaskName[v]]
      /\ \A v, u \in Live : StampFile[v] = StampFile[u] => v = u
      /\ \A v, u \in sq_live : StampFile[v] = StampFile[u] => v = u
  BY DEF IInv, Throttled
<1>2. /\ Cardinality(Live) \in Nat /\ Cardinality(sq_live) \in Nat
      /\ IsFiniteSet(Live) /\ IsFiniteSet(sq_live)
      /\ active \in Nat /\ NumberThreads \in Nat
  BY LiveFinite, BuildAssumption DEF IInv, TypeOK
<1>3. Live' \subseteq Live /\ sq_live' \subseteq sq_live
  OBVIOUS
<1>4. IsFiniteSet(Live') /\ IsFiniteSet(sq_live') /\ Cardinality(Live') \in Nat /\ Cardinality(sq_live') \in Nat
  BY <1>2, <1>3, FS_Subset, FS_CardinalityType
<1>5. Cardinality(Live') + Cardinality(sq_live') = Cardinality(Live) + Cardinality(sq_live) - 1
  <2>1. CASE \E t \in Live : Live' = Live \ {t} /\ sq_live' = sq_live
    <3>1. Cardinality(Live') = Cardinality(Live) - 1
      BY <1>2, <2>1, FS_RemoveElement
    <3> QED
      BY <1>2, <2>1, <3>1
  <2>2. CASE \E t \in sq_live : sq_live' = sq_live \ {t} /\ Live' = Live
    <3>1. Cardinality(sq_live') = Cardinality(sq_live) - 1
      BY <1>2, <2>2, FS_RemoveElement
    <3> QED
      BY <1>2, <2>2, <3>1
  <2> QED
    BY <2>1, <2>2
<1>6. active' = Cardinality(Live') + Cardinality(sq_live') /\ active' \in 0 .. NumberThreads
  BY <1>1, <1>2, <1>4, <1>5
<1>7. ASSUME NEW v \in Live', MaxThreads[TaskName[v]] # 0
      PROVE  Cardinality({u \in Live' : TaskName[u] = TaskName[v]}) <= MaxThreads[TaskName[v]]
  <2> DEFINE A == {u \in Live' : TaskName[u] = TaskName[v]}
             B == {u \in Live : TaskName[u] = TaskName[v]}
  <2>1. A \in SUBSET B /\ B \in SUBSET Live
    BY <1>3
  <2>2. Cardinality(B) <= MaxThreads[TaskName[v]] /\ MaxThreads[TaskName[v]] \in Nat
    <3>1. v \in Live /\ v \in Tasks
      BY <1>3, <1>7 DEF Live, IInv, TypeOK
    <3> QED
      BY <1>1, <1>7, <3>1, BuildAssumption
  <2> HIDE DEF A, B
  <2>3. IsFiniteSet(B) /\ Cardinality(A) <= Cardinality(B)
    BY <1>2, <2>1, FS_Subset
  <2>4. Cardinality(A) \in Nat /\ Cardinality(B) \in Nat
    BY <2>1, <2>3, FS_Subset, FS_CardinalityType
  <2>5. Cardinality(A) <= MaxThreads[TaskName[v]]
    BY <2>2, <2>3, <2>4
  <2> QED
    BY <2>5 DEF A
<1>8. Throttled'
  BY <1>1, <1>3, <1>6, <1>7 DEF Throttled
<1> QED
  BY <1>6, <1>8

\* The exit code of the setscene task t.
LEMMA SceneExitInv ==
  ASSUME IInv, NEW t \in sq_live, NEW ok \in BOOLEAN, Exit(t, ok)
  PROVE  IInv'
<1>1. /\ active' = active - 1 /\ sq_live' = sq_live \ {t}
      /\ scstamp' = IF ok THEN scstamp \cup {t} ELSE scstamp
      /\ IF ok THEN Settle({t}, {}) ELSE Settle({}, HardFail(t))
      /\ UNCHANGED <<rqstate, executing, stamp, runq_buildable, runvars>>
      /\ UNCHANGED <<sqdata, abort, interrupted, unneeded, sq_deferred, outrightfail, sqdone, holdoffvars>>
  BY DEF Exit
<1>2. t \in Setscene /\ t \notin Settled
  BY DEF IInv, TypeOK, SettleInv
<1>3. PICK C \in SUBSET Setscene, N \in SUBSET Setscene :
        Settle(C, N) /\ (C \cup N) \cap sq_live \subseteq {t}
  <2>1. CASE ok
    BY <1>1, <1>2, <2>1
  <2>2. CASE ~ok
    BY <1>1, <1>2, <2>2, HardFailTypes, HardFailApart
  <2> QED
    BY <2>1, <2>2
<1>4. QueueInv' /\ SettleInv' /\ HoldInv' /\ Live' = Live
  BY <1>1, <1>3, SettleStep DEF runvars
<1>5. Throttled' /\ active' \in 0 .. NumberThreads
  BY <1>1, <1>4, ThrottleLess
<1>6. /\ scenequeue_covered' \subseteq Setscene /\ scenequeue_notcovered' \subseteq Setscene
      /\ sq_running' \subseteq Setscene /\ sq_buildable' \subseteq Setscene
      /\ tasks_scenequeue_done' \subseteq Tasks
      /\ holdoff_need_update' = TRUE
  BY <1>3, SettleTypes DEF IInv, QueueInv
<1>7. scstamp' \subseteq Setscene /\ sq_live' \subseteq Setscene
  BY <1>1, <1>2 DEF IInv, TypeOK
<1>8. TypeOK'
  BY <1>1, <1>5, <1>6, <1>7 DEF IInv, TypeOK, holdoffvars, runvars
<1> QED
  BY <1>4, <1>5, <1>8 DEF IInv

\* The exit code of the ordinary task t.
LEMMA TaskExitInv ==
  ASSUME IInv, NEW t \in Live, NEW ok \in BOOLEAN, Exit(t, ok)
  PROVE  IInv'
<1>1. t \notin sq_live /\ t \in Tasks
  BY DEF IInv, TypeOK, SettleInv, HoldInv, Live
<1>2. /\ active' = active - 1 /\ sq_live' = sq_live \ {t}
      /\ UNCHANGED <<runq_running, sqvars, holdoff_need_update>>
      /\ UNCHANGED <<sqdata, abort, interrupted, unneeded, sq_deferred, outrightfail, sqdone, holdoffvars>>
  BY <1>1 DEF Exit
<1>3. sq_live' = sq_live
  BY <1>1, <1>2
<1>4. /\ stamp' \in {stamp, [stamp EXCEPT ![t] = New]} /\ scstamp' \in {scstamp, scstamp \ {t}}
      /\ runq_buildable' \in {runq_buildable, runq_buildable \cup NewlyBuildable(t)}
      /\ rqstate' \in {rqstate, "CleanUp"} /\ executing' \in BOOLEAN \cup {executing}
      /\ \/ runq_complete' = runq_complete \cup {t} /\ failed_tids' = failed_tids
         \/ runq_complete' = runq_complete /\ failed_tids' = failed_tids \cup {t}
  <2>1. CASE ok
    BY <1>1, <2>1 DEF Exit
  <2>2. CASE ~ok
    BY <1>1, <2>2 DEF Exit, stampvars
  <2> QED
    BY <2>1, <2>2
<1>5. Live' = Live \ {t}
  BY <1>2, <1>4 DEF Live
<1>6. Settled' = Settled /\ runq_complete \subseteq runq_complete'
  BY <1>2, <1>4 DEF Settled, sqvars
<1>7. QueueInv' /\ SettleInv' /\ HoldInv'
  <2>1. QueueInv'
    BY <1>2, <1>3, <1>4, <1>6 DEF IInv, QueueInv, sqvars, Live
  <2>2. \A s \in Setscene : SqCovered({s})' = SqCovered({s}) /\ SqRevdeps(s)' = SqRevdeps(s)
    BY <1>2 DEF SqCovered, SqRevdeps
  <2>3. SettleInv'
    BY <1>2, <1>3, <1>6, <2>2 DEF IInv, TypeOK, SettleInv, sqvars
  <2>4. HoldoffNow' \subseteq HoldoffNow
    BY <1>2, <1>6 DEF HoldoffNow, SqCovered
  <2>5. HoldInv'
    BY <1>2, <1>5, <1>6, <2>2, <2>4 DEF IInv, HoldInv, holdoffvars
  <2> QED
    BY <2>1, <2>3, <2>5
<1>8. Throttled' /\ active' \in 0 .. NumberThreads
  BY <1>2, <1>3, <1>5, ThrottleLess
<1>9. TypeOK'
  <2>1. runq_buildable' \subseteq Tasks
    BY <1>4 DEF IInv, TypeOK, NewlyBuildable, revdeps, Tasks
  <2>2. /\ stamp' \in [Tasks -> None .. New] /\ scstamp' \subseteq Setscene
        /\ rqstate' \in {"Running", "CleanUp", "Complete", "Failed"} /\ executing' \in BOOLEAN
        /\ runq_complete' \subseteq Tasks /\ failed_tids' \subseteq Tasks
    BY <1>1, <1>4, StampTimes DEF IInv, TypeOK
  <2> QED
    BY <1>2, <1>3, <1>8, <2>1, <2>2 DEF IInv, TypeOK, sqvars, holdoffvars
<1> QED
  BY <1>7, <1>8, <1>9 DEF IInv

\* Nothing happens to the queues: the build is ended from outside, or a
\* stuttering step.
LEMMA QueuesUnchangedInv ==
  ASSUME IInv, Finish \/ FinishNow \/ UNCHANGED vars
  PROVE  IInv'
<1>1. /\ UNCHANGED <<executing, sqdata, abort, unneeded, stampvars, active, sqvars, sq_live,
                     sq_deferred, outrightfail, sqdone, holdoffvars, holdoff_need_update,
                     runq_buildable, runvars>>
      /\ rqstate' \in {rqstate, "CleanUp", "Complete", "Failed"}
      /\ interrupted' \in {interrupted, TRUE}
  BY DEF Finish, FinishNow, vars, Outcome
<1>2. Live' = Live /\ Settled' = Settled /\ HoldoffNow' = HoldoffNow
  BY <1>1 DEF Live, Settled, HoldoffNow, SqCovered, sqvars, runvars
<1>3. \A s \in Setscene : SqCovered({s})' = SqCovered({s}) /\ SqRevdeps(s)' = SqRevdeps(s)
  BY <1>1 DEF SqCovered, SqRevdeps
<1>4. QueueInv'
  BY <1>1, <1>2 DEF IInv, QueueInv, sqvars, runvars
<1>5. SettleInv'
  BY <1>1, <1>2, <1>3 DEF IInv, TypeOK, SettleInv, sqvars
<1>6. HoldInv'
  BY <1>1, <1>2, <1>3 DEF IInv, HoldInv, holdoffvars
<1>7. Throttled'
  BY <1>1, <1>2, ThrottleUnchanged DEF IInv
<1>8. TypeOK'
  BY <1>1 DEF IInv, TypeOK, sqvars, stampvars, runvars, holdoffvars
<1> QED
  BY <1>4, <1>5, <1>6, <1>7, <1>8 DEF IInv

LEMMA InvStep == IInv /\ [Next]_vars => IInv'
<1> SUFFICES ASSUME IInv, [Next]_vars PROVE IInv'
  OBVIOUS
<1>1. CASE Execute
  <2>1. CASE \E s \in Setscene : SkipUnneeded(s) \/ SceneUnavailable(s) \/ StartScene(s)
    BY <2>1, SceneSettledInv, StartSceneInv
  <2>2. CASE \E s \in Setscene : ForceDeferred(s)
    BY <2>2, ForceDeferredInv
  <2>3. CASE \E t \in Tasks : SkipTask(t) \/ StartTask(t)
    BY <2>3, SkipTaskInv, StartTaskInv
  <2>4. CASE WaitWorkers \/ EndBuild
    BY <2>4, NothingStartedInv
  <2> QED
    BY <1>1, <2>1, <2>2, <2>3, <2>4 DEF Execute
<1>2. CASE \E t \in Tasks, ok \in BOOLEAN : Exit(t, ok)
  <2>1. PICK t \in Tasks, ok \in BOOLEAN : Exit(t, ok)
    BY <1>2
  <2>2. t \in Live \/ t \in sq_live
    BY <2>1 DEF Exit
  <2> QED
    BY <2>1, <2>2, SceneExitInv, TaskExitInv
<1>3. CASE Finish \/ FinishNow \/ UNCHANGED vars
  BY <1>3, QueuesUnchangedInv
<1> QED
  BY <1>1, <1>2, <1>3 DEF Next

LEMMA InvHolds == Spec => []IInv
BY InvInit, InvStep, PTL DEF Spec

-----------------------------------------------------------------------------
(* The theorems                                                            *)

\* Every variable of the run queue keeps its type, whatever the build.
THEOREM TypeCorrect == Spec => []TypeOK
<1>1. IInv => TypeOK
  BY DEF IInv
<1> QED
  BY <1>1, InvHolds, PTL

\* The limits of BB_NUMBER_THREADS and number_threads are kept, no two running
\* tasks write the same stamp, and stats.active counts what runs, through
\* failures, skipped tasks and forced setscene tasks.
THEOREM ThrottledHolds == Spec => []Throttled
<1>1. IInv => Throttled
  BY DEF IInv
<1> QED
  BY <1>1, InvHolds, PTL

\* No worker runs a task while another fetches its result or that of a setscene
\* task that covers it, although the wait in execute has no effect.
THEOREM SceneApartHolds == Spec => []SceneApart
<1>1. IInv => SceneApart
  <2> SUFFICES ASSUME IInv, NEW s \in sq_live
               PROVE  (SqCovered({s}) \cup {s}) \cap Live = {}
    BY DEF SceneApart
  <2>1. s \in Setscene \ Settled
    BY DEF IInv, TypeOK, SettleInv
  <2> QED
    BY <2>1 DEF IInv, HoldInv
<1> QED
  BY <1>1, InvHolds, PTL

-----------------------------------------------------------------------------
(* The inputs of a task                                                    *)
(*                                                                         *)
(* What a task depends on is in place when it runs.  This takes a build in *)
(* which a setscene task that may be unneeded is not both named in a       *)
(* [depends] flag and waiting for one it names itself (it would be waved   *)
(* off for those alone, before its users), and in which no other task is   *)
(* deferred to it: ForceDeferred would mark it as not covered after it was *)
(* skipped.                                                                *)

UnneededApart ==
  \A u \in MayBeUnneeded :
    /\ HardDeps[u] = {} \/ \A s \in Setscene : u \notin HardDeps[s]
    /\ \A s \in Setscene : HashIndex[s] = HashIndex[u] => s <= u

\* A task is buildable when all that it depends on is complete.
ReadyInv == \A t \in runq_buildable \cup runq_running : Depends[t] \subseteq runq_complete

\* The lists of covered tasks are recomputed whenever they could change.
ListsInv ==
  ~holdoff_need_update => tasks_covered = CoveredNow /\ tasks_notcovered = NotCoveredNow

\* A setscene task is covered or not, never both: one that others are deferred
\* to is not in the cache and is not waved off, so that it cannot be covered.
DeferInv ==
  /\ scenequeue_covered \cap scenequeue_notcovered = {}
  /\ unneeded \subseteq MayBeUnneeded
  /\ sq_live \cap outrightfail = {}
  /\ scenequeue_covered \cap outrightfail \subseteq unneeded
  /\ \A s \in DOMAIN sq_deferred :
       sq_deferred[s] \in outrightfail \ (unneeded \cup DOMAIN sq_deferred)

\* s is no target and was skipped because all its users are covered.
WavedOff(s) ==
  /\ s \in unneeded \ (Unskippable \cup Targets)
  /\ SqRevdeps(s) # {} /\ SqRevdeps(s) \subseteq scenequeue_covered

\* A covered setscene task has been fetched, or is up to date with all that its
\* stamp is compared with, or was waved off.
FetchInv ==
  /\ scstamp \subseteq scenequeue_covered
  /\ \A s \in scenequeue_covered : s \in scstamp \/ StampCurrentRec(s) \/ WavedOff(s)

\* Only tasks that are not covered and not up to date run.
LiveInv == \A t \in Live : t \in NotCoveredNow /\ ~StampCurrent(t)

\* A complete task is settled for good: the setscene tasks that decide about it
\* are settled, and its result is there unless it was covered and still is.
DoneInv ==
  \A d \in runq_complete :
    /\ \A s \in Setscene : s = d \/ d \in SqCovered({s}) => s \in Settled
    /\ Present(d) \/ d \in tasks_scenequeue_done \ NotCoveredNow

InputInv == ReadyInv /\ ListsInv /\ DeferInv /\ FetchInv /\ LiveInv /\ DoneInv

-----------------------------------------------------------------------------
(* What the lists and the stamps are made of                               *)

\* A user that must run and its dependency are decided by the same setscene
\* task, or the dependency is one that this setscene task is a user of.
LEMMA SameScene ==
  ASSUME sqdata = SQData
  PROVE  /\ CantSkip \subseteq Unskippable
         /\ \A t \in Unskippable \ Setscene : Depends[t] \subseteq Unskippable
         /\ \A s \in Setscene, t \in Tasks : t = s \/ t \in SqCovered({s}) =>
              \A d \in Depends[t] : IF d \in Setscene THEN s \in SoftRevdeps(Depends, Setscene, d)
                                                      ELSE d \in SqCovered({s})
<1>1. IsGraph(Depends)
  BY BuildAssumption DEF IsGraph, Tasks
<1>2. CantSkip \subseteq Unskippable /\ \A t \in Unskippable \ Setscene : Depends[t] \subseteq Unskippable
  <2> DEFINE X == {t \in DOMAIN Depends : revdeps(Depends, t) = {}} \cup (Targets \ Setscene)
  <2>1. Unskippable = Reach(Depends, Setscene, X) /\ X \subseteq DOMAIN Depends
    BY BuildAssumption DEF Unskippable, SQData, unskippable, Tasks
  <2>2. CantSkip \subseteq X
    BY DEF CantSkip
  <2> HIDE DEF X
  <2> QED
    BY <1>1, <2>1, <2>2, ReachDomain, ReachClosed DEF Closed
<1>3. ASSUME NEW s \in Setscene, NEW t \in Tasks, t = s \/ t \in SqCovered({s}), NEW d \in Depends[t]
      PROVE  IF d \in Setscene THEN s \in SoftRevdeps(Depends, Setscene, d) ELSE d \in SqCovered({s})
  <2>1. SqCovered({s}) = Reach(Depends, Setscene, Depends[s]) \ Setscene
    BY DEF SqCovered, SQData, sq_covered_tasks
  <2>2. s \in Tasks /\ Depends[s] \subseteq DOMAIN Depends
    BY BuildAssumption DEF Tasks
  <2>3. d \in Reach(Depends, Setscene, Depends[s])
    <3>1. CASE t = s
      BY <1>3, <2>2, <3>1, ReachDomain
    <3>2. CASE t \in SqCovered({s})
      BY <1>1, <1>3, <2>1, <3>2, ReachClosed DEF Closed
    <3> QED
      BY <1>3, <3>1, <3>2
  <2> QED
    BY <2>1, <2>3 DEF SoftRevdeps
<1> QED
  BY <1>2, <1>3

\* Only the stamps of t change.
OtherStamps(t) == \A e \in Tasks \ {t} : stamp'[e] = stamp[e] /\ (e \in scstamp' <=> e \in scstamp)

\* They matter to t and to the tasks that depend on it.
LEMMA StampsApart ==
  ASSUME NEW t \in Tasks, OtherStamps(t), NEW d \in Tasks \ {t}, t \notin Depends[d]
  PROVE  StampCurrent(d)' = StampCurrent(d) /\ Present(d)' = Present(d)
<1>1. \A e \in OwnDepends(d) : e \in Tasks \ {t}
  BY BuildAssumption DEF OwnDepends
<1>2. /\ stamp'[d] = stamp[d] /\ (d \in scstamp' <=> d \in scstamp)
      /\ \A e \in OwnDepends(d) : stamp'[e] = stamp[e] /\ (e \in scstamp' <=> e \in scstamp)
  BY <1>1 DEF OtherStamps
<1>3. \A e \in OwnDepends(d) : DepOlder(d, e)' <=> DepOlder(d, e)
  BY <1>2 DEF DepOlder
<1>4. StampCurrent(d)' = StampCurrent(d)
  BY <1>2, <1>3 DEF StampCurrent
<1> QED
  BY <1>2, <1>4 DEF Present

\* A task that is up to date with all that its stamp is compared with stays so
\* when a result is fetched, or a task runs that is not up to date.
LEMMA CurrentKept ==
  ASSUME TypeOK, NEW s \in Tasks, StampCurrentRec(s),
         \/ stamp' = stamp /\ scstamp \subseteq scstamp'
         \/ \E t \in Tasks : /\ stamp' = [stamp EXCEPT ![t] = New] /\ scstamp' = scstamp
                             /\ ~StampCurrent(t)
  PROVE  StampCurrentRec(s)'
<1> DEFINE G(X) == [v \in Tasks |-> OwnDepends(v) \ X]
           R == Reach(G(scstamp), {}, {s})
<1>1. ASSUME NEW X PROVE IsGraph(G(X)) /\ DOMAIN G(X) = Tasks
  BY BuildAssumption DEF IsGraph, OwnDepends
<1>2. \A u \in R : StampCurrent(u)
  BY DEF StampCurrentRec
<1>3. R \in SUBSET Tasks /\ s \in R
  BY <1>1, ReachDomain
<1>4. \A v \in R : G(scstamp)[v] \subseteq R
  <2>1. IsGraph(G(scstamp))
    BY <1>1
  <2>2. Closed(G(scstamp), {}, Reach(G(scstamp), {}, {s}))
    <3> HIDE DEF G
    <3> QED
      BY <2>1, ReachClosed
  <2> HIDE DEF G
  <2> QED
    BY <2>2 DEF Closed
<1>5. \A v \in R : OwnDepends(v) \ scstamp \subseteq R
  BY <1>3, <1>4
<1>6. scstamp \subseteq scstamp'
  OBVIOUS
<1>7. Reach(G(scstamp'), {}, {s}) \subseteq R
  <2>1. Closed(G(scstamp'), {}, R)
    <3>1. \A v \in R : G(scstamp')[v] \subseteq R
      <4> HIDE DEF R
      <4> QED
        BY <1>3, <1>5, <1>6
    <3> QED
      BY <3>1 DEF Closed
  <2>2. DOMAIN G(scstamp') = Tasks
    OBVIOUS
  <2> HIDE DEF G, R
  <2> QED
    BY <1>3, <2>1, <2>2, ReachLeast
<1> HIDE DEF R
<1>8. ASSUME NEW u \in R PROVE StampCurrent(u)'
  <2>1. CASE stamp' = stamp /\ scstamp \subseteq scstamp'
    BY <1>2, <2>1 DEF StampCurrent, DepOlder
  <2>2. CASE \E t \in Tasks : /\ stamp' = [stamp EXCEPT ![t] = New] /\ scstamp' = scstamp
                              /\ ~StampCurrent(t)
    <3>1. PICK t \in Tasks : /\ stamp' = [stamp EXCEPT ![t] = New] /\ scstamp' = scstamp
                             /\ ~StampCurrent(t)
      BY <2>2
    <3>2. t \notin R /\ u \in Tasks \ {t}
      BY <1>2, <1>3, <3>1
    <3>3. \A e \in OwnDepends(u) : e \in Tasks /\ (e = t => e \in scstamp)
      BY <1>5, <3>2, BuildAssumption DEF OwnDepends
    <3>4. stamp'[u] = stamp[u] /\ \A e \in Tasks \ {t} : stamp'[e] = stamp[e]
      BY <3>1, <3>2 DEF TypeOK
    <3> QED
      BY <1>2, <3>1, <3>3, <3>4 DEF StampCurrent, DepOlder
  <2> QED
    BY <2>1, <2>2
<1> QED
  BY <1>7, <1>8 DEF StampCurrentRec

\* The lists that execute uses are those of the moment.
LEMMA ListsCurrent ==
  ASSUME ListsInv
  PROVE  Covered = CoveredNow /\ NotCovered = NotCoveredNow
BY DEF ListsInv, Covered, NotCovered

\* What execute takes to be buildable is.
LEMMA BuildableReady ==
  ASSUME ReadyInv
  PROVE  \A t \in Buildable : Depends[t] \subseteq runq_complete
BY DEF ReadyInv, Buildable

\* A setscene task that is to be run anyway is one that is not covered.
LEMMA SceneNotCovered ==
  ASSUME sqdata = SQData, TypeOK, DeferInv, NEW t \in NotCoveredNow
  PROVE  t \notin scenequeue_covered /\ (t \in Setscene => t \in scenequeue_notcovered)
<1>1. SqCovered(scenequeue_notcovered) \subseteq Tasks \ Setscene
  BY SqDataTypes DEF TypeOK
<1>2. t \in Setscene => t \in scenequeue_notcovered
  BY <1>1 DEF NotCoveredNow, CantSkip
<1> QED
  BY <1>2 DEF DeferInv, TypeOK

-----------------------------------------------------------------------------
(* Steps that keep the inputs in place                                     *)

\* More is known to be not covered, and for good.
LEMMA NotCoveredGrows ==
  ASSUME TypeOK, sqdata = SQData, NEW C \in SUBSET Setscene, NEW N \in SUBSET Setscene,
         Settle(C, N), sqdata' = sqdata
  PROVE  /\ tasks_scenequeue_done \subseteq tasks_scenequeue_done'
         /\ NotCoveredNow \subseteq NotCoveredNow'
         /\ \A d \in tasks_scenequeue_done : d \in NotCoveredNow' =>
              d \in NotCoveredNow \/ \E s \in N : d = s \/ d \in SqCovered({s})
<1>1. /\ scenequeue_notcovered' = scenequeue_notcovered \cup N
      /\ tasks_scenequeue_done \subseteq tasks_scenequeue_done'
  BY DEF Settle, SceneDone
<1>2. CantSkip' = CantSkip /\ Unskippable' = Unskippable
  BY DEF CantSkip, Unskippable
<1>3. SqCovered(scenequeue_notcovered)' = UNION {SqCovered({s}) : s \in scenequeue_notcovered \cup N}
  BY <1>1 DEF SqCovered
<1>4. SqCovered(scenequeue_notcovered) = UNION {SqCovered({s}) : s \in scenequeue_notcovered}
  BY DEF SqCovered
<1> QED
  BY <1>1, <1>2, <1>3, <1>4 DEF NotCoveredNow

\* Setscene tasks are settled: those in C have been fetched or waved off, those
\* in N had not been covered.
LEMMA SettleInputs ==
  ASSUME IInv, InputInv, NEW C \in SUBSET Setscene, NEW N \in SUBSET Setscene, Settle(C, N),
         UNCHANGED <<sqdata, runq_running, runq_complete, failed_tids, stamp, unneeded>>,
         C \cap scenequeue_notcovered = {}, N \cap scenequeue_covered = {}, C = {} \/ N = {},
         \/ scstamp' = scstamp
         \/ \E u \in sq_live : C = {u} /\ scstamp' = scstamp \cup {u},
         \A s \in C : s \in scstamp' \/ WavedOff(s),
         runq_buildable' \in {runq_buildable, Buildable}
  PROVE  /\ ReadyInv' /\ ListsInv' /\ FetchInv' /\ LiveInv' /\ DoneInv'
         /\ scenequeue_covered' \cap scenequeue_notcovered' = {}
<1>1. /\ scenequeue_covered' = scenequeue_covered \cup C
      /\ scenequeue_notcovered' = scenequeue_notcovered \cup N
      /\ Settled' = Settled \cup C \cup N /\ holdoff_need_update' = TRUE
  BY DEF Settle, Settled
<1>2. TypeOK /\ sqdata = SQData
  BY DEF IInv, QueueInv
<1>3. /\ tasks_scenequeue_done \subseteq tasks_scenequeue_done'
      /\ NotCoveredNow \subseteq NotCoveredNow'
      /\ \A d \in tasks_scenequeue_done : d \in NotCoveredNow' =>
           d \in NotCoveredNow \/ \E s \in N : d = s \/ d \in SqCovered({s})
  BY <1>2, NotCoveredGrows
<1>4. /\ Live' = Live /\ Unskippable' = Unskippable
      /\ \A s \in Setscene : SqRevdeps(s)' = SqRevdeps(s) /\ SqCovered({s})' = SqCovered({s})
  BY DEF Live, Unskippable, SqRevdeps, SqCovered
<1>5. ASSUME NEW d \in runq_complete \cup Live
      PROVE  StampCurrent(d)' = StampCurrent(d) /\ Present(d)' = Present(d)
  <2>1. CASE scstamp' = scstamp
    BY <2>1 DEF StampCurrent, DepOlder, Present
  <2>2. CASE \E u \in sq_live : C = {u} /\ scstamp' = scstamp \cup {u}
    <3>1. PICK u \in sq_live : scstamp' = scstamp \cup {u}
      BY <2>2
    <3>2. u \in Setscene \ Settled /\ u \in Tasks
      BY BuildAssumption DEF IInv, TypeOK, SettleInv
    <3>3. u \notin runq_complete /\ u \notin Live
      BY <3>2 DEF InputInv, DoneInv, IInv, HoldInv
    <3>4. OtherStamps(u)
      BY <3>1 DEF OtherStamps
    <3>5. d \in runq_running /\ d \in Tasks
      BY DEF Live, IInv, QueueInv, TypeOK
    <3>6. Depends[d] \subseteq runq_complete
      BY <3>5 DEF InputInv, ReadyInv
    <3> QED
      BY <3>2, <3>3, <3>4, <3>5, <3>6, StampsApart
  <2> QED
    BY <2>1, <2>2
<1>6. ReadyInv'
  BY BuildableReady DEF InputInv, ReadyInv
<1>7. ListsInv'
  BY <1>1 DEF ListsInv
<1>8. FetchInv'
  <2>1. scstamp' \subseteq scenequeue_covered'
    BY <1>1 DEF InputInv, FetchInv
  <2>2. ASSUME NEW s \in scenequeue_covered'
        PROVE  s \in scstamp' \/ StampCurrentRec(s)' \/ WavedOff(s)'
    <3>1. s \in Setscene /\ s \in Tasks
      BY <1>1, BuildAssumption DEF IInv, TypeOK
    <3>2. WavedOff(s) => WavedOff(s)'
      BY <1>1, <1>4, <3>1 DEF WavedOff
    <3>3. StampCurrentRec(s) => StampCurrentRec(s)'
      BY <1>2, <3>1, CurrentKept
    <3> QED
      BY <1>1, <3>2, <3>3 DEF InputInv, FetchInv
  <2> QED
    BY <2>1, <2>2 DEF FetchInv
<1>9. LiveInv'
  BY <1>3, <1>4, <1>5 DEF InputInv, LiveInv
<1>10. DoneInv'
  <2> SUFFICES ASSUME NEW d \in runq_complete
               PROVE  /\ \A s \in Setscene : s = d \/ d \in SqCovered({s})' => s \in Settled'
                      /\ Present(d)' \/ d \in tasks_scenequeue_done' \ NotCoveredNow'
    BY DEF DoneInv
  <2>1. /\ \A s \in Setscene : s = d \/ d \in SqCovered({s}) => s \in Settled
        /\ Present(d) \/ d \in tasks_scenequeue_done \ NotCoveredNow
    BY DEF InputInv, DoneInv
  <2>2. ASSUME d \in tasks_scenequeue_done, d \notin NotCoveredNow PROVE d \notin NotCoveredNow'
    <3> SUFFICES ASSUME NEW s \in N, d = s \/ d \in SqCovered({s}) PROVE FALSE
      BY <1>3, <2>2
    <3>1. s \in scenequeue_notcovered
      BY <2>1 DEF Settled
    <3>2. SqCovered({s}) \subseteq SqCovered(scenequeue_notcovered)
      BY <1>2, <3>1, SqDataTypes DEF TypeOK
    <3> QED
      BY <2>2, <3>1, <3>2 DEF NotCoveredNow
  <2> QED
    BY <1>1, <1>3, <1>4, <1>5, <2>1, <2>2
<1> QED
  BY <1>1, <1>6, <1>7, <1>8, <1>9, <1>10 DEF InputInv, DeferInv

\* Nothing is settled: the lists and what follows from them stay the same.
LEMMA SceneSame ==
  ASSUME UNCHANGED <<sqdata, scenequeue_covered, scenequeue_notcovered, tasks_scenequeue_done, unneeded>>
  PROVE  /\ CoveredNow' = CoveredNow /\ NotCoveredNow' = NotCoveredNow /\ Settled' = Settled
         /\ \A s : SqCovered({s})' = SqCovered({s}) /\ WavedOff(s)' = WavedOff(s)
BY DEF CoveredNow, NotCoveredNow, Settled, SqCovered, WavedOff, SqRevdeps, Unskippable, CantSkip

\* The lists are brought up to date, or left.
LEMMA ListsKept ==
  ASSUME ListsInv,
         UNCHANGED <<sqdata, scenequeue_covered, scenequeue_notcovered, tasks_scenequeue_done, unneeded>>,
         update_holdofftasks \/ UNCHANGED <<holdoffvars, holdoff_need_update>>
  PROVE  ListsInv'
BY SceneSame, ListsCurrent DEF ListsInv, update_holdofftasks, holdoffvars

\* Nothing completes and no stamp is made; t is started, or nothing.
LEMMA StartInputs ==
  ASSUME IInv, InputInv, NEW T \in SUBSET Buildable,
         UNCHANGED <<sqdata, scenequeue_covered, scenequeue_notcovered, tasks_scenequeue_done, unneeded,
                     stampvars, runq_complete, failed_tids>>,
         runq_running' = runq_running \cup T,
         \A t \in T : t \in NotCoveredNow /\ ~StampCurrent(t),
         runq_buildable' \in {runq_buildable, Buildable}
  PROVE  ReadyInv' /\ FetchInv' /\ LiveInv' /\ DoneInv'
<1>1. /\ CoveredNow' = CoveredNow /\ NotCoveredNow' = NotCoveredNow /\ Settled' = Settled
      /\ \A s : SqCovered({s})' = SqCovered({s}) /\ WavedOff(s)' = WavedOff(s)
  BY SceneSame
<1>2. \A t \in Tasks : StampCurrent(t)' = StampCurrent(t) /\ Present(t)' = Present(t)
                     /\ StampCurrentRec(t)' = StampCurrentRec(t)
  BY DEF StampCurrent, StampCurrentRec, DepOlder, Present, stampvars
<1>3. ReadyInv'
  BY BuildableReady DEF InputInv, ReadyInv
<1>4. FetchInv'
  <2>1. scenequeue_covered \subseteq Tasks
    BY BuildAssumption DEF IInv, TypeOK
  <2> QED
    BY <1>1, <1>2, <2>1 DEF InputInv, FetchInv, stampvars
<1>5. LiveInv'
  <2>1. Live' \subseteq Live \cup T /\ Live \cup T \subseteq Tasks
    BY HoldoffTypes DEF Live, IInv, TypeOK, QueueInv
  <2> QED
    BY <1>1, <1>2, <2>1 DEF InputInv, LiveInv
<1>6. DoneInv'
  <2>1. runq_complete \subseteq Tasks
    BY DEF IInv, TypeOK
  <2> QED
    BY <1>1, <1>2, <2>1 DEF InputInv, DoneInv
<1> QED
  BY <1>3, <1>4, <1>5, <1>6

\* t is complete: a worker ran it or its stamp was made, or it was skipped.
LEMMA CompleteInputs ==
  ASSUME IInv, InputInv, NEW t \in Tasks \ runq_complete, Depends[t] \subseteq runq_complete,
         UNCHANGED <<sqdata, scenequeue_covered, scenequeue_notcovered, tasks_scenequeue_done, unneeded>>,
         runq_complete' = runq_complete \cup {t}, runq_running' \in {runq_running, runq_running \cup {t}},
         failed_tids' = failed_tids,
         runq_buildable' \subseteq Buildable \cup {t} \cup NewlyBuildable(t),
         \A s \in Setscene : s = t \/ t \in SqCovered({s}) => s \in Settled,
         \/ /\ UNCHANGED stampvars
            /\ StampCurrent(t) \/ t \in tasks_scenequeue_done \ NotCoveredNow
         \/ /\ stamp' = [stamp EXCEPT ![t] = New] /\ scstamp' = scstamp \ {t}
            /\ t \notin scstamp /\ ~StampCurrent(t)
  PROVE  ReadyInv' /\ FetchInv' /\ LiveInv' /\ DoneInv'
<1>1. /\ CoveredNow' = CoveredNow /\ NotCoveredNow' = NotCoveredNow /\ Settled' = Settled
      /\ \A s : SqCovered({s})' = SqCovered({s}) /\ WavedOff(s)' = WavedOff(s)
  BY SceneSame
<1>2. OtherStamps(t) /\ scstamp' = scstamp
  <2>1. CASE UNCHANGED stampvars
    BY <2>1 DEF OtherStamps, stampvars
  <2>2. CASE stamp' = [stamp EXCEPT ![t] = New] /\ scstamp' = scstamp \ {t} /\ t \notin scstamp
    BY <2>2 DEF OtherStamps, IInv, TypeOK
  <2> QED
    BY <2>1, <2>2
<1>3. ASSUME NEW d \in runq_running, d # t
      PROVE  StampCurrent(d)' = StampCurrent(d) /\ Present(d)' = Present(d)
  <2>1. d \in Tasks \ {t} /\ t \notin Depends[d]
    BY <1>3 DEF InputInv, ReadyInv, IInv, TypeOK
  <2> QED
    BY <1>2, <2>1, StampsApart
<1>4. ReadyInv'
  BY BuildableReady DEF InputInv, ReadyInv, NewlyBuildable
<1>5. FetchInv'
  <2> SUFFICES ASSUME NEW s \in scenequeue_covered, StampCurrentRec(s) PROVE StampCurrentRec(s)'
    BY <1>1, <1>2 DEF InputInv, FetchInv
  <2>1. s \in Tasks /\ TypeOK
    BY BuildAssumption DEF IInv, TypeOK
  <2> QED
    BY <1>2, <2>1, CurrentKept DEF stampvars
<1>6. LiveInv'
  <2>1. Live' \subseteq Live \ {t} /\ Live \subseteq runq_running
    BY DEF Live
  <2> QED
    BY <1>1, <1>3, <2>1 DEF InputInv, LiveInv
<1>7. DoneInv'
  <2> SUFFICES ASSUME NEW d \in runq_complete \cup {t}
               PROVE  /\ \A s \in Setscene : s = d \/ d \in SqCovered({s}) => s \in Settled
                      /\ Present(d)' \/ d \in tasks_scenequeue_done \ NotCoveredNow
    BY <1>1 DEF DoneInv
  <2>1. CASE d = t
    <3>1. Present(t)' \/ t \in tasks_scenequeue_done \ NotCoveredNow
      <4>1. CASE UNCHANGED stampvars /\ StampCurrent(t)
        BY <4>1 DEF Present, StampCurrent, DepOlder, stampvars
      <4>2. CASE stamp' = [stamp EXCEPT ![t] = New]
        BY <4>2 DEF Present, IInv, TypeOK
      <4> QED
        BY <4>1, <4>2
    <3> QED
      BY <2>1, <3>1
  <2>2. CASE d # t
    <3>1. d \in runq_complete /\ d \in runq_running
      BY <2>2 DEF IInv, QueueInv
    <3> QED
      BY <1>3, <2>2, <3>1 DEF InputInv, DoneInv
  <2> QED
    BY <2>1, <2>2
<1> QED
  BY <1>4, <1>5, <1>6, <1>7

\* A failing setscene task takes no covered one with it.
LEMMA HardFailUncovered ==
  ASSUME NEW s \in Setscene \ scenequeue_covered
  PROVE  HardFail(s) \cap scenequeue_covered = {}
<1> DEFINE H == [u \in Setscene |-> HardDeps[u] \ Settled]
           S == Setscene \ scenequeue_covered
<1>1. S \in SUBSET DOMAIN H /\ {s} \subseteq S
  OBVIOUS
<1>2. Closed(H, {}, S)
  BY BuildAssumption DEF Closed, Settled
<1>3. HardFail(s) = Reach(H, {}, {s})
  BY DEF HardFail
<1> HIDE DEF H
<1>4. HardFail(s) \subseteq S
  BY <1>1, <1>2, <1>3, ReachLeast
<1> QED
  BY <1>4

-----------------------------------------------------------------------------
(* The actions                                                             *)

\* At the start no two tasks are deferred to each other, and none to a task
\* that may be unneeded.
LEMMA InputInit == UnneededApart /\ Init => InputInv
<1> SUFFICES ASSUME UnneededApart, Init PROVE InputInv
  OBVIOUS
<1>1. /\ runq_running = {} /\ runq_complete = {} /\ Live = {} /\ holdoff_need_update = TRUE
      /\ scenequeue_notcovered = {} /\ sq_live = {} /\ unneeded \subseteq MayBeUnneeded
      /\ scenequeue_covered = scstamp \cup {s \in Setscene : StampCurrentRec(s)}
      /\ outrightfail \subseteq Setscene \ scenequeue_covered
  BY DEF Init, Live
<1>2. ReadyInv /\ ListsInv /\ FetchInv /\ LiveInv /\ DoneInv
  BY <1>1 DEF ReadyInv, ListsInv, FetchInv, LiveInv, DoneInv, Init
<1>3. \A s \in DOMAIN sq_deferred : sq_deferred[s] \in outrightfail \ (unneeded \cup DOMAIN sq_deferred)
  <2> DEFINE Same(s) == {u \in outrightfail : HashIndex[u] = HashIndex[s]}
             First(s) == CHOOSE u \in outrightfail :
                           /\ HashIndex[u] = HashIndex[s]
                           /\ \A v \in outrightfail : HashIndex[v] = HashIndex[s] => u <= v
  <2>1. sq_deferred = [s \in {u \in outrightfail : First(u) # u} |-> First(s)]
    BY DEF Init
  <2>2. outrightfail \subseteq Setscene /\ outrightfail \subseteq Nat
    BY <1>1, BuildAssumption
  <2>3. ASSUME NEW s \in outrightfail
        PROVE  First(s) \in Same(s) /\ \A v \in Same(s) : First(s) <= v
    <3>1. Same(s) \in SUBSET Nat /\ Same(s) # {}
      BY <2>2, <2>3
    <3>2. PICK u \in Same(s) : \A v \in Same(s) : u <= v
      BY <3>1, LeastNumber
    <3> QED
      BY <3>2
  <2> HIDE DEF First
  <2>4. ASSUME NEW s \in outrightfail, First(s) # s
        PROVE  /\ First(s) \in outrightfail /\ First(First(s)) = First(s)
               /\ First(s) \notin MayBeUnneeded
    <3>1. First(s) \in outrightfail /\ First(s) \in Nat /\ s \in Nat /\ s \in Setscene
      BY <2>2, <2>3, <2>4
    <3>2. First(First(s)) \in Same(s) /\ First(First(s)) <= First(s) /\ First(First(s)) \in Nat
      BY <2>2, <2>3, <3>1
    <3>3. First(s) <= First(First(s)) /\ First(s) <= s /\ HashIndex[First(s)] = HashIndex[s]
      BY <2>3, <3>2
    <3>4. First(s) \notin MayBeUnneeded
      BY <2>4, <3>1, <3>3 DEF UnneededApart
    <3> QED
      BY <3>1, <3>2, <3>3, <3>4
  <2> QED
    BY <1>1, <2>1, <2>4
<1>4. DeferInv
  BY <1>1, <1>3 DEF DeferInv
<1> QED
  BY <1>2, <1>4 DEF InputInv

\* execute settles the setscene task s without a worker.
LEMMA SceneSettledInputs ==
  ASSUME IInv, InputInv, NEW s \in Setscene,
         SkipUnneeded(s) \/ SceneUnavailable(s) \/ (StartScene(s) /\ StampCurrentRec(s))
  PROVE  InputInv'
<1>1. /\ SceneTurn(s) /\ Undefer(s)
      /\ outrightfail' \in {outrightfail, outrightfail \ {s}}
      /\ UNCHANGED <<sqdata, unneeded, stampvars, sq_live, runq_buildable, runvars>>
  BY DEF SkipUnneeded, SceneUnavailable, StartScene
<1>2. s \notin Settled
  BY <1>1 DEF SceneTurn, SceneReady, IInv, QueueInv
<1>3. DOMAIN sq_deferred' = DOMAIN sq_deferred \ {s}
      /\ \A u \in DOMAIN sq_deferred' : sq_deferred'[u] = sq_deferred[u]
  BY <1>1 DEF Undefer
<1>4. PICK C \in SUBSET Setscene, N \in SUBSET Setscene :
        /\ Settle(C, N) /\ (C = {} \/ N = {})
        /\ C \cap Settled = {} /\ N \cap scenequeue_covered = {}
        /\ \A u \in C : u \in unneeded /\ WavedOff(u)
  <2>1. CASE SkipUnneeded(s)
    <3>1. Settle({s}, {}) /\ s \in unneeded /\ WavedOff(s)
      BY <2>1 DEF SkipUnneeded, NotNeeded, WavedOff
    <3> QED
      BY <1>2, <3>1
  <2>2. CASE SceneUnavailable(s) \/ (StartScene(s) /\ StampCurrentRec(s))
    <3>1. Settle({}, HardFail(s))
      BY <2>2 DEF SceneUnavailable, StartScene
    <3>2. HardFail(s) \in SUBSET Setscene /\ HardFail(s) \cap scenequeue_covered = {}
      BY <1>2, HardFailTypes, HardFailUncovered DEF Settled
    <3> QED
      BY <3>1, <3>2
  <2> QED
    BY <2>1, <2>2
<1>5. /\ ReadyInv' /\ ListsInv' /\ FetchInv' /\ LiveInv' /\ DoneInv'
      /\ scenequeue_covered' \cap scenequeue_notcovered' = {}
  BY <1>1, <1>4, SettleInputs DEF runvars, stampvars, Settled
<1>6. \A u \in DOMAIN sq_deferred' : sq_deferred'[u] \in outrightfail'
  <2> SUFFICES ASSUME NEW u \in DOMAIN sq_deferred, outrightfail' = outrightfail \ {s}, sq_deferred[u] = s,
                      outrightfail' # outrightfail
               PROVE  FALSE
    BY <1>1, <1>3 DEF InputInv, DeferInv
  <2>1. s \in outrightfail /\ ~Deferred(s)
    BY DEF InputInv, DeferInv, Deferred
  <2>2. StartScene(s)
    BY DEF SkipUnneeded, SceneUnavailable
  <2> QED
    BY <2>1, <2>2 DEF StartScene
<1>7. DeferInv'
  <2>1. scenequeue_covered' \cap outrightfail' \subseteq unneeded'
    BY <1>1, <1>4 DEF Settle, InputInv, DeferInv
  <2> QED
    BY <1>1, <1>3, <1>5, <1>6, <2>1 DEF InputInv, DeferInv
<1> QED
  BY <1>5, <1>7 DEF InputInv

\* The rest of DeferInv, when no setscene task is covered.
LEMMA DeferKept ==
  ASSUME DeferInv, UNCHANGED <<unneeded, sq_deferred, outrightfail>>, sq_live' \subseteq sq_live,
         UNCHANGED <<scenequeue_covered, scenequeue_notcovered>>
  PROVE  DeferInv'
BY DEF DeferInv

\* execute hands the setscene task s to a worker.
LEMMA StartSceneInputs ==
  ASSUME IInv, InputInv, NEW s \in Setscene, StartScene(s), ~StampCurrentRec(s)
  PROVE  InputInv'
<1>1. /\ Undefer(s) /\ outrightfail' = outrightfail \ {s} /\ (s \notin outrightfail \/ Deferred(s))
      /\ sq_live' = sq_live \cup {s}
      /\ UNCHANGED <<scenequeue_covered, scenequeue_notcovered, tasks_scenequeue_done,
                     sqdata, unneeded, stampvars, runvars>>
      /\ \/ UNCHANGED <<holdoffvars, holdoff_need_update, runq_buildable>>
         \/ update_holdofftasks /\ runq_buildable' = Buildable
  BY DEF StartScene
<1>2. ListsInv'
  BY <1>1, ListsKept DEF InputInv
<1>3. ReadyInv' /\ FetchInv' /\ LiveInv' /\ DoneInv'
  <2>1. runq_running' = runq_running \cup {} /\ runq_buildable' \in {runq_buildable, Buildable}
    BY <1>1 DEF runvars
  <2>2. {} \in SUBSET Buildable /\ \A t \in {} : t \in NotCoveredNow /\ ~StampCurrent(t)
    OBVIOUS
  <2>3. UNCHANGED <<runq_complete, failed_tids>>
    BY <1>1 DEF runvars
  <2> QED
    BY <1>1, <2>1, <2>2, <2>3, StartInputs
<1>4. DOMAIN sq_deferred' = DOMAIN sq_deferred \ {s}
      /\ \A u \in DOMAIN sq_deferred' : sq_deferred'[u] = sq_deferred[u]
  BY <1>1 DEF Undefer
<1>5. DeferInv'
  BY <1>1, <1>4 DEF InputInv, DeferInv, Deferred
<1> QED
  BY <1>2, <1>3, <1>5 DEF InputInv

\* The setscene task that is forced has not been covered.
LEMMA ForceDeferredInputs ==
  ASSUME IInv, InputInv, NEW s \in Setscene, ForceDeferred(s)
  PROVE  InputInv'
<1>1. /\ MainTurn /\ s \in DOMAIN sq_deferred
      /\ Settle({}, HardFail(sq_deferred[s])) /\ Undefer(s) /\ runq_buildable' = Buildable
      /\ UNCHANGED <<stampvars, runvars>>
  BY DEF ForceDeferred, Deferred
<1>2. UNCHANGED <<sqdata, unneeded, sq_live, outrightfail>>
  BY <1>1 DEF MainTurn
<1> DEFINE N == HardFail(sq_deferred[s])
<1>3. Settle({}, N) /\ N \in SUBSET Setscene /\ N \cap scenequeue_covered = {}
  <2>1. sq_deferred[s] \in Setscene /\ sq_deferred[s] \notin scenequeue_covered
    BY <1>1 DEF IInv, TypeOK, InputInv, DeferInv
  <2> QED
    BY <1>1, <2>1, HardFailTypes, HardFailUncovered
<1> HIDE DEF N
<1>4. /\ ReadyInv' /\ ListsInv' /\ FetchInv' /\ LiveInv' /\ DoneInv'
      /\ scenequeue_covered' \cap scenequeue_notcovered' = {}
  <2>1. {} \in SUBSET Setscene /\ {} \cap scenequeue_notcovered = {}
    OBVIOUS
  <2> QED
    BY <1>1, <1>2, <1>3, <2>1, SettleInputs DEF runvars, stampvars
<1>5. DOMAIN sq_deferred' = DOMAIN sq_deferred \ {s}
      /\ \A u \in DOMAIN sq_deferred' : sq_deferred'[u] = sq_deferred[u]
  BY <1>1 DEF Undefer
<1>6. scenequeue_covered' = scenequeue_covered
  BY <1>3 DEF Settle
<1>7. DeferInv'
  BY <1>2, <1>4, <1>5, <1>6 DEF InputInv, DeferInv
<1> QED
  BY <1>4, <1>7 DEF InputInv

\* A task that execute may start or skip is decided about.
LEMMA CandidateSettled ==
  ASSUME IInv, InputInv, NEW t \in Candidates
  PROVE  /\ t \in Tasks /\ t \notin runq_running /\ t \notin runq_complete
         /\ t \in Buildable /\ Depends[t] \subseteq runq_complete
         /\ t \in CoveredNow \cup NotCoveredNow
         /\ \A s \in Setscene : s = t \/ t \in SqCovered({s}) => s \in Settled
<1>1. /\ t \in Tasks /\ t \notin runq_running /\ t \notin Holdoff
      /\ t \in Buildable /\ t \in Covered \cup NotCovered
  BY HoldoffTypes DEF Candidates, IInv, QueueInv
<1>2. t \notin runq_complete /\ t \notin HoldoffNow
  BY <1>1, HoldoffSafe DEF IInv, QueueInv
<1>3. ASSUME NEW s \in Setscene \ Settled PROVE s # t /\ t \notin SqCovered({s})
  <2>1. SqCovered({s}) \subseteq SqCovered(Setscene \ Settled)
    BY SqDataTypes DEF IInv, QueueInv
  <2> QED
    BY <1>2, <2>1 DEF HoldoffNow
<1> QED
  BY <1>1, <1>2, <1>3, BuildableReady, ListsCurrent DEF InputInv

\* execute skips t: it is covered, or up to date, or its stamp is made.
LEMMA SkipTaskInputs ==
  ASSUME IInv, InputInv, NEW t \in Tasks, SkipTask(t)
  PROVE  InputInv'
<1>1. /\ MainTurn /\ t \in Candidates
      /\ runq_running' = runq_running \cup {t} /\ runq_complete' = runq_complete \cup {t}
      /\ runq_buildable' = Buildable \cup {t} \cup NewlyBuildable(t)
      /\ UNCHANGED <<sqvars, sq_deferred, failed_tids>>
  BY DEF SkipTask
<1>2. /\ update_holdofftasks
      /\ UNCHANGED <<sqdata, unneeded, sq_live, outrightfail>>
  BY <1>1 DEF MainTurn
<1>3. /\ t \in Tasks /\ t \notin runq_running /\ t \notin runq_complete
      /\ t \in Buildable /\ Depends[t] \subseteq runq_complete
      /\ t \in CoveredNow \cup NotCoveredNow
      /\ \A s \in Setscene : s = t \/ t \in SqCovered({s}) => s \in Settled
  BY <1>1, CandidateSettled
<1>4. UNCHANGED <<scenequeue_covered, scenequeue_notcovered, tasks_scenequeue_done>>
  BY <1>1 DEF sqvars
<1>5. \/ /\ UNCHANGED stampvars
         /\ StampCurrent(t) \/ t \in tasks_scenequeue_done \ NotCoveredNow
      \/ /\ stamp' = [stamp EXCEPT ![t] = New] /\ scstamp' = scstamp \ {t}
         /\ t \notin scstamp /\ ~StampCurrent(t)
  <2>1. CASE t \in Covered \/ StampCurrent(t)
    <3>1. UNCHANGED stampvars
      BY <2>1 DEF SkipTask, stampvars
    <3>2. t \in Covered => t \in tasks_scenequeue_done \ NotCoveredNow
      BY ListsCurrent DEF InputInv, CoveredNow
    <3> QED
      BY <2>1, <3>1, <3>2
  <2>2. CASE ~(t \in Covered \/ StampCurrent(t))
    <3>1. stamp' = [stamp EXCEPT ![t] = New] /\ scstamp' = scstamp \ {t}
      BY <2>2 DEF SkipTask
    <3>2. t \in NotCoveredNow
      BY <1>3, <2>2, ListsCurrent DEF InputInv
    <3>3. t \notin scstamp
      BY <3>2, SceneNotCovered DEF IInv, QueueInv, InputInv, FetchInv
    <3> QED
      BY <2>2, <3>1, <3>3
  <2> QED
    BY <2>1, <2>2
<1>6. ReadyInv' /\ FetchInv' /\ LiveInv' /\ DoneInv'
  BY <1>1, <1>2, <1>3, <1>4, <1>5, CompleteInputs
<1>7. ListsInv'
  BY <1>2, <1>4, ListsKept DEF InputInv
<1>8. DeferInv'
  BY <1>1, <1>2, <1>4, DeferKept DEF InputInv
<1> QED
  BY <1>6, <1>7, <1>8 DEF InputInv

\* execute hands t to a worker, or starts nothing.
LEMMA MainInputs ==
  ASSUME IInv, InputInv, (\E t \in Tasks : StartTask(t)) \/ WaitWorkers \/ EndBuild
  PROVE  InputInv'
<1>1. /\ MainTurn /\ runq_buildable' = Buildable
      /\ UNCHANGED <<stampvars, sqvars, sq_deferred, runq_complete, failed_tids>>
  BY DEF StartTask, WaitWorkers, EndBuild, runvars
<1>2. /\ update_holdofftasks
      /\ UNCHANGED <<sqdata, unneeded, sq_live, outrightfail>>
  BY <1>1 DEF MainTurn
<1>3. UNCHANGED <<scenequeue_covered, scenequeue_notcovered, tasks_scenequeue_done>>
  BY <1>1 DEF sqvars
<1>4. PICK T \in SUBSET Buildable : /\ runq_running' = runq_running \cup T
                                    /\ \A t \in T : t \in NotCoveredNow /\ ~StampCurrent(t)
  <2>1. CASE \E t \in Tasks : StartTask(t)
    <3>1. PICK t \in Tasks : StartTask(t)
      BY <2>1
    <3>2. /\ t \in Candidates /\ t \notin Covered /\ ~StampCurrent(t)
          /\ runq_running' = runq_running \cup {t}
      BY <3>1 DEF StartTask
    <3>3. t \in Buildable /\ t \in NotCoveredNow
      BY <3>2, CandidateSettled, ListsCurrent DEF InputInv
    <3> DEFINE S == {t}
    <3>4. /\ S \in SUBSET Buildable /\ runq_running' = runq_running \cup S
          /\ \A u \in S : u \in NotCoveredNow /\ ~StampCurrent(u)
      BY <3>2, <3>3
    <3> HIDE DEF S
    <3> QED
      BY <3>4
  <2>2. CASE WaitWorkers \/ EndBuild
    <3> DEFINE S == {}
    <3>1. /\ S \in SUBSET Buildable /\ runq_running' = runq_running \cup S
          /\ \A u \in S : u \in NotCoveredNow /\ ~StampCurrent(u)
      BY <2>2 DEF WaitWorkers, EndBuild, runvars
    <3> HIDE DEF S
    <3> QED
      BY <3>1
  <2> QED
    BY <2>1, <2>2
<1>5. ReadyInv' /\ FetchInv' /\ LiveInv' /\ DoneInv'
  BY <1>1, <1>2, <1>3, <1>4, StartInputs
<1>6. ListsInv'
  BY <1>2, <1>3, ListsKept DEF InputInv
<1>7. DeferInv'
  BY <1>1, <1>2, <1>3, DeferKept DEF InputInv
<1> QED
  BY <1>5, <1>6, <1>7 DEF InputInv

\* The exit code of the setscene task t.
LEMMA SceneExitInputs ==
  ASSUME IInv, InputInv, NEW t \in sq_live, NEW ok \in BOOLEAN, Exit(t, ok)
  PROVE  InputInv'
<1>1. /\ sq_live' = sq_live \ {t}
      /\ scstamp' = IF ok THEN scstamp \cup {t} ELSE scstamp
      /\ IF ok THEN Settle({t}, {}) ELSE Settle({}, HardFail(t))
      /\ UNCHANGED <<stamp, runq_buildable, runvars>>
      /\ UNCHANGED <<sqdata, unneeded, sq_deferred, outrightfail>>
  BY DEF Exit
<1>2. t \in Setscene /\ t \notin Settled /\ t \notin outrightfail
  BY DEF IInv, TypeOK, SettleInv, InputInv, DeferInv
<1>3. /\ ReadyInv' /\ ListsInv' /\ FetchInv' /\ LiveInv' /\ DoneInv'
      /\ scenequeue_covered' \cap scenequeue_notcovered' = {}
      /\ scenequeue_covered' \subseteq scenequeue_covered \cup {t}
  <2>1. PICK C \in SUBSET Setscene, N \in SUBSET Setscene :
          /\ Settle(C, N) /\ (C = {} \/ N = {}) /\ C \subseteq {t}
          /\ C \cap scenequeue_notcovered = {} /\ N \cap scenequeue_covered = {}
          /\ scstamp' = scstamp \/ (C = {t} /\ scstamp' = scstamp \cup {t})
          /\ \A s \in C : s \in scstamp'
    <3>1. CASE ok
      <4>1. Settle({t}, {}) /\ scstamp' = scstamp \cup {t}
        BY <1>1, <3>1
      <4> QED
        BY <1>2, <4>1 DEF Settled
    <3>2. CASE ~ok
      <4>1. Settle({}, HardFail(t)) /\ scstamp' = scstamp
        BY <1>1, <3>2
      <4>2. HardFail(t) \in SUBSET Setscene /\ HardFail(t) \cap scenequeue_covered = {}
        BY <1>2, HardFailTypes, HardFailUncovered DEF Settled
      <4> QED
        BY <4>1, <4>2
    <3> QED
      BY <3>1, <3>2
  <2>2. scenequeue_covered' \subseteq scenequeue_covered \cup {t}
    BY <2>1 DEF Settle
  <2>3. UNCHANGED <<sqdata, runq_running, runq_complete, failed_tids, stamp, unneeded>>
        /\ runq_buildable' \in {runq_buildable, Buildable}
    BY <1>1 DEF runvars
  <2>4. /\ ReadyInv' /\ ListsInv' /\ FetchInv' /\ LiveInv' /\ DoneInv'
        /\ scenequeue_covered' \cap scenequeue_notcovered' = {}
    BY <2>1, <2>3, SettleInputs
  <2> QED
    BY <2>2, <2>4
<1>4. DeferInv'
  BY <1>1, <1>2, <1>3 DEF InputInv, DeferInv
<1> QED
  BY <1>3, <1>4 DEF InputInv

\* The exit code of the ordinary task t.
LEMMA TaskExitInputs ==
  ASSUME IInv, InputInv, NEW t \in Live, NEW ok \in BOOLEAN, Exit(t, ok)
  PROVE  InputInv'
<1>1. t \notin sq_live /\ t \in Tasks /\ t \notin runq_complete /\ t \in runq_running
  BY DEF IInv, TypeOK, SettleInv, HoldInv, Live
<1>2. /\ sq_live' = sq_live \ {t}
      /\ UNCHANGED <<runq_running, sqvars, holdoff_need_update>>
      /\ UNCHANGED <<sqdata, unneeded, sq_deferred, outrightfail, holdoffvars>>
  BY <1>1 DEF Exit
<1>3. UNCHANGED <<scenequeue_covered, scenequeue_notcovered, tasks_scenequeue_done>>
  BY <1>2 DEF sqvars
<1>4. Depends[t] \subseteq runq_complete /\ t \in NotCoveredNow /\ ~StampCurrent(t)
  BY <1>1 DEF InputInv, ReadyInv, LiveInv
<1>5. t \notin scstamp
  BY <1>4, SceneNotCovered DEF IInv, QueueInv, InputInv, FetchInv
<1>6. \A s \in Setscene : s = t \/ t \in SqCovered({s}) => s \in Settled
  BY DEF IInv, HoldInv
<1>7. ReadyInv' /\ FetchInv' /\ LiveInv' /\ DoneInv'
  <2>1. CASE ok
    <3>1. /\ runq_complete' = runq_complete \cup {t} /\ failed_tids' = failed_tids
          /\ runq_buildable' = runq_buildable \cup NewlyBuildable(t)
          /\ stamp' = [stamp EXCEPT ![t] = New] /\ scstamp' = scstamp \ {t}
      BY <1>1, <2>1 DEF Exit
    <3>2. runq_buildable' \subseteq Buildable \cup {t} \cup NewlyBuildable(t)
      BY <3>1 DEF Buildable
    <3> QED
      BY <1>1, <1>2, <1>3, <1>4, <1>5, <1>6, <3>1, <3>2, CompleteInputs
  <2>2. CASE ~ok
    <3>1. /\ failed_tids' = failed_tids \cup {t}
          /\ UNCHANGED <<stampvars, runq_complete, runq_buildable>>
      BY <1>1, <2>2 DEF Exit
    <3>2. /\ CoveredNow' = CoveredNow /\ NotCoveredNow' = NotCoveredNow /\ Settled' = Settled
          /\ \A s : SqCovered({s})' = SqCovered({s}) /\ WavedOff(s)' = WavedOff(s)
      BY <1>2, <1>3, SceneSame
    <3>3. \A u \in Tasks : StampCurrent(u)' = StampCurrent(u) /\ Present(u)' = Present(u)
                         /\ StampCurrentRec(u)' = StampCurrentRec(u)
      BY <3>1 DEF StampCurrent, StampCurrentRec, DepOlder, Present, stampvars
    <3>4. Live' \subseteq Live /\ Live \cup runq_complete \cup scenequeue_covered \subseteq Tasks
      BY <1>2, <3>1, BuildAssumption DEF Live, IInv, TypeOK
    <3>5. ReadyInv' /\ LiveInv'
      BY <1>2, <3>1, <3>2, <3>3, <3>4 DEF InputInv, ReadyInv, LiveInv
    <3>6. FetchInv'
      BY <1>3, <3>1, <3>2, <3>3, <3>4 DEF InputInv, FetchInv, stampvars
    <3>7. DoneInv'
      BY <1>3, <3>1, <3>2, <3>3, <3>4 DEF InputInv, DoneInv
    <3> QED
      BY <3>5, <3>6, <3>7
  <2> QED
    BY <2>1, <2>2
<1>8. ListsInv'
  BY <1>2, <1>3, ListsKept DEF InputInv
<1>9. DeferInv'
  BY <1>2, <1>3, DeferKept DEF InputInv
<1> QED
  BY <1>7, <1>8, <1>9 DEF InputInv

\* The build is ended from outside, or a stuttering step.
LEMMA QueuesUnchangedInputs ==
  ASSUME IInv, InputInv, Finish \/ FinishNow \/ UNCHANGED vars
  PROVE  InputInv'
<1>1. UNCHANGED <<sqdata, unneeded, stampvars, sqvars, sq_live, sq_deferred, outrightfail,
                  holdoffvars, holdoff_need_update, runq_buildable, runvars>>
  BY DEF Finish, FinishNow, vars
<1>2. UNCHANGED <<scenequeue_covered, scenequeue_notcovered, tasks_scenequeue_done,
                  runq_complete, failed_tids>>
  BY <1>1 DEF sqvars, runvars
<1>3. ReadyInv' /\ FetchInv' /\ LiveInv' /\ DoneInv'
  <2>1. runq_running' = runq_running \cup {} /\ runq_buildable' \in {runq_buildable, Buildable}
    BY <1>1 DEF runvars
  <2>2. {} \in SUBSET Buildable /\ \A t \in {} : t \in NotCoveredNow /\ ~StampCurrent(t)
    OBVIOUS
  <2> QED
    BY <1>1, <1>2, <2>1, <2>2, StartInputs
<1>4. ListsInv' /\ DeferInv'
  BY <1>1, <1>2, ListsKept, DeferKept DEF InputInv
<1> QED
  BY <1>3, <1>4 DEF InputInv

LEMMA InputStep == IInv /\ InputInv /\ [Next]_vars => InputInv'
<1> SUFFICES ASSUME IInv, InputInv, [Next]_vars PROVE InputInv'
  OBVIOUS
<1>1. CASE Execute
  <2>1. CASE \E s \in Setscene : SkipUnneeded(s) \/ SceneUnavailable(s) \/ StartScene(s)
    BY <2>1, SceneSettledInputs, StartSceneInputs
  <2>2. CASE \E s \in Setscene : ForceDeferred(s)
    BY <2>2, ForceDeferredInputs
  <2>3. CASE \E t \in Tasks : SkipTask(t)
    BY <2>3, SkipTaskInputs
  <2>4. CASE (\E t \in Tasks : StartTask(t)) \/ WaitWorkers \/ EndBuild
    BY <2>4, MainInputs
  <2> QED
    BY <1>1, <2>1, <2>2, <2>3, <2>4 DEF Execute
<1>2. CASE \E t \in Tasks, ok \in BOOLEAN : Exit(t, ok)
  <2>1. PICK t \in Tasks, ok \in BOOLEAN : Exit(t, ok)
    BY <1>2
  <2>2. t \in Live \/ t \in sq_live
    BY <2>1 DEF Exit
  <2> QED
    BY <2>1, <2>2, SceneExitInputs, TaskExitInputs
<1>3. CASE Finish \/ FinishNow \/ UNCHANGED vars
  BY <1>3, QueuesUnchangedInputs
<1> QED
  BY <1>1, <1>2, <1>3 DEF Next

\* A complete dependency of a task that must run is not one that was only
\* covered or waved off.
LEMMA InputsInPlace ==
  ASSUME UnneededApart, IInv, InputInv
  PROVE  InputsPresent
<1> SUFFICES ASSUME NEW t \in Live, NEW d \in Depends[t], ~Present(d) PROVE FALSE
  BY DEF InputsPresent
<1>1. t \in Tasks /\ t \in NotCoveredNow /\ sqdata = SQData
  BY DEF InputInv, LiveInv, IInv, TypeOK, QueueInv, Live
<1>2. d \in runq_complete
  BY DEF InputInv, ReadyInv, Live
<1>3. /\ d \in tasks_scenequeue_done /\ d \notin NotCoveredNow
      /\ d \in Setscene => d \in Settled
  BY <1>2 DEF InputInv, DoneInv
<1>4. ASSUME d \in Setscene
      PROVE  /\ d \notin Unskippable
             /\ SoftRevdeps(Depends, Setscene, d) \subseteq scenequeue_covered
  <2>1. d \in scenequeue_covered
    BY <1>3, <1>4 DEF NotCoveredNow, Settled
  <2>2. ~StampCurrentRec(d) /\ d \notin scstamp
    <3>1. d \in Tasks
      BY <1>4, BuildAssumption
    <3>2. DOMAIN [v \in Tasks |-> OwnDepends(v) \ scstamp] = Tasks
      OBVIOUS
    <3>3. d \in Reach([v \in Tasks |-> OwnDepends(v) \ scstamp], {}, {d})
      BY <3>1, <3>2, ReachDomain
    <3> QED
      BY <3>3 DEF Present, StampCurrentRec
  <2>3. WavedOff(d)
    BY <2>1, <2>2 DEF InputInv, FetchInv
  <2>4. HardDeps[d] = {} \/ \A s \in Setscene : d \notin HardDeps[s]
    BY <2>3 DEF WavedOff, InputInv, DeferInv, UnneededApart
  <2>5. SqRevdeps(d) = sq_revdeps(Depends, Setscene, HardDeps, d)
    BY <1>1, <1>4 DEF SqRevdeps, SQData
  <2> QED
    BY <2>3, <2>4, <2>5, BuildAssumption DEF WavedOff, sq_revdeps
<1>5. CASE t \in Unskippable \ Setscene
  <2>1. d \in Unskippable
    BY <1>1, <1>5, SameScene
  <2> QED
    BY <1>3, <1>4, <2>1 DEF NotCoveredNow
<1>6. CASE \E s \in scenequeue_notcovered : t = s \/ t \in SqCovered({s})
  <2>1. PICK s \in scenequeue_notcovered : t = s \/ t \in SqCovered({s})
    BY <1>6
  <2>2. s \in Setscene /\ s \notin scenequeue_covered
    BY DEF IInv, TypeOK, InputInv, DeferInv
  <2>3. IF d \in Setscene THEN s \in SoftRevdeps(Depends, Setscene, d) ELSE d \in SqCovered({s})
    BY <1>1, <2>1, <2>2, SameScene
  <2>4. SqCovered({s}) \subseteq SqCovered(scenequeue_notcovered)
    BY <1>1, SqDataTypes DEF IInv, TypeOK
  <2> QED
    BY <1>3, <1>4, <2>2, <2>3, <2>4 DEF NotCoveredNow
<1>7. t \in Unskippable \ Setscene \/ \E s \in scenequeue_notcovered : t = s \/ t \in SqCovered({s})
  <2>1. CantSkip \subseteq Unskippable \ Setscene
    BY <1>1, SameScene DEF CantSkip
  <2> QED
    BY <1>1, <2>1 DEF NotCoveredNow, SqCovered
<1> QED
  BY <1>5, <1>6, <1>7

\* A task finds the results of all it depends on in place when a worker runs it,
\* for every build in which a setscene task that depvalidate may wave off is not
\* in the middle of a chain of [depends] flags and nothing is deferred to it:
\* covered tasks and unneeded setscene tasks are skipped only where nothing
\* that depends on them is run.
THEOREM InputsPresentHolds ==
  ASSUME UnneededApart
  PROVE  Spec => []InputsPresent
<1>1. Init => InputInv
  BY InputInit
<1>2. IInv /\ InputInv /\ [Next]_vars => InputInv'
  BY InputStep
<1>3. IInv /\ InputInv => InputsPresent
  BY InputsInPlace
<1> QED
  BY <1>1, <1>2, <1>3, InvHolds, PTL DEF Spec

-----------------------------------------------------------------------------
(* The outcome                                                             *)
(*                                                                         *)
(* What the build reports is true, and nothing is left undone that could   *)
(* be done, for every build without loops: prepare refuses loops between   *)
(* tasks, and NoSceneDeadlock of TaskGraph is that there are none between  *)
(* setscene tasks.                                                         *)

SceneWaits == [s \in Setscene |-> sq_revdeps(Depends, Setscene, HardDeps, s)]

LoopFree == Acyclic(Depends) /\ Acyclic(SceneWaits)

\* A setscene task that is not settled and waits for none that is not settled
\* can be started.
SceneQueueInv ==
  /\ sq_running \subseteq Settled \cup sq_live
  /\ Settled \subseteq sq_buildable
  /\ \A s \in Setscene : SqRevdeps(s) \subseteq Settled => s \in sq_buildable
  /\ sqdone => Setscene \subseteq Settled

\* No task is forgotten when the setscene tasks that decide about it are
\* settled, and none is held off longer.
DecidedInv ==
  /\ Settled \cup (Unskippable \ Setscene) \subseteq tasks_scenequeue_done
  /\ \A t \in Tasks, u \in Setscene :
       t \in SqCovered({u}) /\ (\A s \in Setscene : t \in SqCovered({s}) => s \in Settled)
         => t \in tasks_scenequeue_done
  /\ ~holdoff_need_update =>
       holdoff_tasks \subseteq (Setscene \ Settled) \cup SqCovered(Setscene \ Settled)

\* No task is forgotten when all it depends on is complete.
QueuedInv ==
  /\ runq_running \subseteq runq_buildable
  /\ \A t \in Tasks : Depends[t] # {} /\ Depends[t] \subseteq runq_complete => t \in runq_buildable
  /\ ~holdoff_need_update =>
       \A t \in CoveredNow \cup NotCoveredNow : Depends[t] = {} => t \in runq_buildable

\* The build shuts down because it was told to, or a task failed without -k.
ShutdownInv ==
  executing \/ (rqstate = "CleanUp" /\ ~interrupted) => failed_tids # {} /\ abort

WorkInv == SceneQueueInv /\ DecidedInv /\ QueuedInv /\ ShutdownInv

-----------------------------------------------------------------------------
(* Nothing is forgotten                                                    *)

LEMMA WorkInit == Init => WorkInv
<1> SUFFICES ASSUME Init PROVE WorkInv
  OBVIOUS
<1>1. /\ sqdata = SQData /\ Settled = scenequeue_covered /\ sq_running = scenequeue_covered
      /\ sqdone = (Setscene = {}) /\ holdoff_need_update = TRUE /\ executing = FALSE /\ rqstate = "Running"
      /\ runq_running = {} /\ runq_complete = {}
      /\ sq_buildable = scenequeue_covered \cup SceneBuildable(scenequeue_covered)
                        \cup {s \in Setscene : SqRevdeps(s) = {}}
      /\ tasks_scenequeue_done = SceneDone(Unskippable \ Setscene, scenequeue_covered)
  BY DEF Init, Settled
<1>2. SceneQueueInv
  BY <1>1 DEF SceneQueueInv, SceneBuildable
<1>3. DecidedInv
  <2>1. scenequeue_covered \subseteq Setscene
    BY InitTypes DEF TypeOK
  <2>2. ASSUME NEW t \in Tasks, NEW u \in Setscene, t \in SqCovered({u}),
               \A s \in Setscene : t \in SqCovered({s}) => s \in Settled
        PROVE  t \in tasks_scenequeue_done
    <3>1. t \in SqCovered(scenequeue_covered)
      BY <1>1, <2>1, <2>2, SqDataTypes
    <3> QED
      BY <1>1, <2>2, <3>1 DEF SceneDone
  <2> QED
    BY <1>1, <2>2 DEF DecidedInv, SceneDone
<1>4. QueuedInv
  BY <1>1 DEF QueuedInv
<1>5. ShutdownInv
  BY <1>1 DEF ShutdownInv
<1> QED
  BY <1>2, <1>3, <1>4, <1>5 DEF WorkInv

\* Setscene tasks are settled.
LEMMA SettleWork ==
  ASSUME IInv, WorkInv, NEW C \in SUBSET Setscene, NEW N \in SUBSET Setscene, Settle(C, N),
         UNCHANGED <<sqdata, runq_running, runq_complete>>,
         sq_live \subseteq sq_live' \cup C \cup N, runq_buildable \subseteq runq_buildable',
         sqdone' => sqdone \/ Setscene \subseteq Settled
  PROVE  SceneQueueInv' /\ DecidedInv' /\ QueuedInv'
<1>1. /\ Settled' = Settled \cup C \cup N /\ sq_running' = sq_running \cup C \cup N
      /\ sq_buildable' = sq_buildable \cup C \cup N \cup SceneBuildable(Settled \cup C \cup N)
      /\ tasks_scenequeue_done' = SceneDone(tasks_scenequeue_done, C \cup N)
      /\ holdoff_need_update' = TRUE
  BY DEF Settle, Settled
<1>2. /\ Unskippable' = Unskippable
      /\ \A s \in Setscene : SqRevdeps(s)' = SqRevdeps(s) /\ SqCovered({s})' = SqCovered({s})
  BY DEF Unskippable, SqRevdeps, SqCovered
<1>3. SceneQueueInv'
  <2>1. ASSUME NEW s \in Setscene, SqRevdeps(s) \subseteq Settled' PROVE s \in sq_buildable'
    BY <1>1, <2>1 DEF SceneBuildable, WorkInv, SceneQueueInv
  <2> QED
    BY <1>1, <1>2, <2>1 DEF WorkInv, SceneQueueInv
<1>4. DecidedInv'
  <2>1. tasks_scenequeue_done \cup C \cup N \subseteq tasks_scenequeue_done'
    BY <1>1 DEF SceneDone
  <2>2. ASSUME NEW t \in Tasks, NEW u \in Setscene, t \in SqCovered({u}),
               \A s \in Setscene : t \in SqCovered({s}) => s \in Settled'
        PROVE  t \in tasks_scenequeue_done'
    <3>1. CASE \A s \in Setscene : t \in SqCovered({s}) => s \in Settled
      BY <2>1, <2>2, <3>1 DEF WorkInv, DecidedInv
    <3>2. CASE \E s \in Setscene : t \in SqCovered({s}) /\ s \notin Settled
      <4>1. PICK s \in Setscene : t \in SqCovered({s}) /\ s \notin Settled
        BY <3>2
      <4>2. s \in C \cup N
        BY <1>1, <2>2, <4>1
      <4>3. t \in SqCovered(C \cup N)
        BY <4>1, <4>2, SqDataTypes DEF IInv, QueueInv
      <4>4. \A r \in Setscene : t \in SqCovered({r}) => r \in tasks_scenequeue_done \cup C \cup N
        BY <1>1, <2>2 DEF WorkInv, DecidedInv
      <4> QED
        BY <1>1, <4>3, <4>4 DEF SceneDone
    <3> QED
      BY <3>1, <3>2
  <2> QED
    BY <1>1, <1>2, <2>1, <2>2 DEF WorkInv, DecidedInv
<1>5. QueuedInv'
  BY <1>1 DEF WorkInv, QueuedInv
<1> QED
  BY <1>3, <1>4, <1>5

\* What update_holdofftasks and the queue of execute contain.
LEMMA UpdatedWork ==
  ASSUME IInv, WorkInv, ListsInv
  PROVE  /\ Holdoff \subseteq (Setscene \ Settled) \cup SqCovered(Setscene \ Settled)
         /\ runq_buildable \subseteq Buildable
         /\ \A t \in CoveredNow \cup NotCoveredNow : Depends[t] = {} => t \in Buildable
         /\ \A t \in Tasks : Depends[t] # {} /\ Depends[t] \subseteq runq_complete => t \in Buildable
BY DEF WorkInv, DecidedInv, QueuedInv, Holdoff, HoldoffNow, Buildable

\* Nothing is settled; the lists are brought up to date, or left.
LEMMA QuietWork ==
  ASSUME IInv, WorkInv, ListsInv,
         UNCHANGED <<sqdata, unneeded, sq_buildable, scenequeue_covered, scenequeue_notcovered,
                     tasks_scenequeue_done>>,
         sq_running' \subseteq sq_running \cup (sq_live' \ sq_live), sq_live \subseteq sq_live',
         \/ UNCHANGED <<holdoffvars, holdoff_need_update>> /\ runq_buildable \subseteq runq_buildable'
         \/ update_holdofftasks /\ Buildable \subseteq runq_buildable',
         sqdone' => sqdone \/ Setscene \subseteq Settled,
         \/ runq_complete' = runq_complete /\ runq_running' \subseteq runq_running \cup runq_buildable'
         \/ \E t \in Tasks : /\ runq_complete' = runq_complete \cup {t}
                             /\ runq_running' = runq_running \cup {t}
                             /\ {t} \cup NewlyBuildable(t) \subseteq runq_buildable'
  PROVE  SceneQueueInv' /\ DecidedInv' /\ QueuedInv'
<1>1. /\ CoveredNow' = CoveredNow /\ NotCoveredNow' = NotCoveredNow /\ Settled' = Settled
      /\ \A s : SqCovered({s})' = SqCovered({s})
  BY SceneSame
<1>2. /\ Unskippable' = Unskippable /\ \A s \in Setscene : SqRevdeps(s)' = SqRevdeps(s)
      /\ SqCovered(Setscene \ Settled)' = SqCovered(Setscene \ Settled)
  BY <1>1 DEF Unskippable, SqRevdeps, SqCovered
<1>3. SceneQueueInv'
  BY <1>1, <1>2 DEF WorkInv, SceneQueueInv
<1>4. DecidedInv'
  <2>1. ~holdoff_need_update' =>
          holdoff_tasks' \subseteq (Setscene \ Settled) \cup SqCovered(Setscene \ Settled)
    <3>1. CASE update_holdofftasks
      BY <3>1, UpdatedWork DEF update_holdofftasks
    <3>2. CASE UNCHANGED <<holdoffvars, holdoff_need_update>>
      BY <3>2 DEF WorkInv, DecidedInv, holdoffvars
    <3> QED
      BY <3>1, <3>2
  <2>2. Settled' \cup (Unskippable' \ Setscene) \subseteq tasks_scenequeue_done'
    BY <1>1, <1>2 DEF WorkInv, DecidedInv
  <2>3. \A t \in Tasks, u \in Setscene :
          /\ t \in SqCovered({u})'
          /\ \A s \in Setscene : t \in SqCovered({s})' => s \in Settled'
          => t \in tasks_scenequeue_done'
    BY <1>1 DEF WorkInv, DecidedInv
  <2>4. (Setscene \ Settled)' = Setscene \ Settled
    BY <1>1
  <2> QED
    BY <1>2, <2>1, <2>2, <2>3, <2>4 DEF DecidedInv
<1>5. runq_buildable \subseteq runq_buildable'
  BY UpdatedWork
<1>6. QueuedInv'
  <2>1. runq_running' \subseteq runq_buildable'
    BY <1>5 DEF WorkInv, QueuedInv
  <2>2. ASSUME NEW u \in Tasks, Depends[u] # {}, Depends[u] \subseteq runq_complete'
        PROVE  u \in runq_buildable'
    <3>1. CASE Depends[u] \subseteq runq_complete
      BY <1>5, <2>2, <3>1 DEF WorkInv, QueuedInv
    <3>2. CASE ~(Depends[u] \subseteq runq_complete)
      <4>1. PICK t \in Tasks : /\ runq_complete' = runq_complete \cup {t}
                               /\ {t} \cup NewlyBuildable(t) \subseteq runq_buildable'
        BY <2>2, <3>2
      <4>2. t \in Depends[u]
        BY <2>2, <3>2, <4>1
      <4>3. u \in runq_running \/ u \in NewlyBuildable(t)
        BY <2>2, <4>1, <4>2 DEF NewlyBuildable, revdeps, Tasks
      <4> QED
        BY <1>5, <4>1, <4>3 DEF WorkInv, QueuedInv
    <3> QED
      BY <3>1, <3>2
  <2>3. ~holdoff_need_update' =>
          \A t \in CoveredNow \cup NotCoveredNow : Depends[t] = {} => t \in runq_buildable'
    <3>1. CASE update_holdofftasks /\ Buildable \subseteq runq_buildable'
      BY <3>1, UpdatedWork
    <3>2. CASE UNCHANGED <<holdoffvars, holdoff_need_update>>
      BY <1>5, <3>2 DEF WorkInv, QueuedInv
    <3> QED
      BY <3>1, <3>2
  <2> QED
    BY <1>1, <2>1, <2>2, <2>3 DEF QueuedInv
<1> QED
  BY <1>3, <1>4, <1>6

\* The setscene part ends when all setscene tasks are settled.
LEMMA FinishedSettled ==
  ASSUME IInv, MainTurn
  PROVE  sqdone' => sqdone \/ Setscene \subseteq Settled
<1>1. Holdoff = {} => Setscene \subseteq Settled
  BY HoldoffSafe DEF IInv, HoldoffNow
<1> QED
  BY <1>1 DEF MainTurn, SceneFinished

LEMMA WorkStep == IInv /\ ListsInv /\ WorkInv /\ [Next]_vars => WorkInv'
<1> SUFFICES ASSUME IInv, ListsInv, WorkInv, [Next]_vars PROVE WorkInv'
  OBVIOUS
<1>1. ShutdownInv'
  <2>1. CASE Execute
    <3>1. /\ executing' = FALSE /\ UNCHANGED <<abort, interrupted, failed_tids>>
          /\ rqstate' \in {rqstate, "Complete", "Failed"}
      BY <2>1 DEF Execute, SkipUnneeded, SceneUnavailable, StartScene, ForceDeferred, SkipTask,
                  StartTask, WaitWorkers, EndBuild, SceneTurn, MainTurn, runvars
    <3> QED
      BY <3>1 DEF WorkInv, ShutdownInv
  <2>2. CASE \E t \in Tasks, ok \in BOOLEAN : Exit(t, ok)
    <3>1. /\ UNCHANGED <<abort, interrupted>> /\ failed_tids \subseteq failed_tids'
          /\ \/ UNCHANGED <<rqstate, executing>>
             \/ failed_tids' # {} /\ (abort \/ UNCHANGED <<rqstate, executing>>)
      BY <2>2 DEF Exit, runvars
    <3> QED
      BY <3>1 DEF WorkInv, ShutdownInv
  <2>3. CASE Finish
    BY <2>3 DEF Finish, Outcome, WorkInv, ShutdownInv, runvars
  <2>4. CASE FinishNow
    BY <2>4 DEF FinishNow, Outcome, WorkInv, ShutdownInv, runvars
  <2>5. CASE UNCHANGED vars
    BY <2>5 DEF vars, WorkInv, ShutdownInv, runvars
  <2> QED
    BY <2>1, <2>2, <2>3, <2>4, <2>5 DEF Next
<1>2. ASSUME NEW s \in Setscene,
             SkipUnneeded(s) \/ SceneUnavailable(s) \/ (StartScene(s) /\ StampCurrentRec(s))
      PROVE  SceneQueueInv' /\ DecidedInv' /\ QueuedInv'
  <2>1. UNCHANGED <<sqdata, sq_live, sqdone, runq_buildable, runvars>>
    BY <1>2 DEF SkipUnneeded, SceneUnavailable, StartScene
  <2>2. PICK C \in SUBSET Setscene, N \in SUBSET Setscene : Settle(C, N)
    BY <1>2, HardFailTypes DEF SkipUnneeded, SceneUnavailable, StartScene
  <2> QED
    BY <2>1, <2>2, SettleWork DEF runvars
<1>3. ASSUME NEW s \in Setscene, StartScene(s), ~StampCurrentRec(s)
      PROVE  SceneQueueInv' /\ DecidedInv' /\ QueuedInv'
  <2>1. /\ sq_running' = sq_running \cup {s} /\ sq_live' = sq_live \cup {s}
        /\ UNCHANGED <<sq_buildable, scenequeue_covered, scenequeue_notcovered, tasks_scenequeue_done,
                       sqdata, unneeded, sqdone, runvars>>
        /\ \/ UNCHANGED <<holdoffvars, holdoff_need_update, runq_buildable>>
           \/ update_holdofftasks /\ runq_buildable' = Buildable
    BY <1>3 DEF StartScene
  <2>2. s \notin sq_live
    BY <1>3 DEF StartScene, SceneTurn, SceneReady, IInv, QueueInv
  <2>3. UNCHANGED <<runq_running, runq_complete>>
    BY <2>1 DEF runvars
  <2> QED
    BY <2>1, <2>2, <2>3, QuietWork
<1>4. ASSUME NEW s \in Setscene, ForceDeferred(s)
      PROVE  SceneQueueInv' /\ DecidedInv' /\ QueuedInv'
  <2>1. /\ MainTurn /\ Settle({}, HardFail(sq_deferred[s])) /\ runq_buildable' = Buildable
        /\ s \in DOMAIN sq_deferred /\ UNCHANGED runvars
    BY <1>4 DEF ForceDeferred, Deferred
  <2>2. UNCHANGED <<sqdata, sq_live>> /\ (sqdone' => sqdone \/ Setscene \subseteq Settled)
    BY <2>1, FinishedSettled DEF MainTurn
  <2> DEFINE N == HardFail(sq_deferred[s])
  <2>3. Settle({}, N) /\ N \in SUBSET Setscene
    BY <2>1, HardFailTypes DEF IInv, TypeOK
  <2>4. {} \in SUBSET Setscene /\ sq_live \subseteq sq_live' \cup {} \cup N
    BY <2>2
  <2>5. runq_buildable \subseteq runq_buildable'
    BY <2>1 DEF Buildable
  <2> HIDE DEF N
  <2> QED
    BY <2>1, <2>2, <2>3, <2>4, <2>5, SettleWork DEF runvars
<1>5. ASSUME NEW t \in Tasks, SkipTask(t)
      PROVE  SceneQueueInv' /\ DecidedInv' /\ QueuedInv'
  <2>1. /\ MainTurn /\ runq_running' = runq_running \cup {t} /\ runq_complete' = runq_complete \cup {t}
        /\ runq_buildable' = Buildable \cup {t} \cup NewlyBuildable(t) /\ UNCHANGED sqvars
    BY <1>5 DEF SkipTask
  <2>2. /\ update_holdofftasks /\ UNCHANGED <<sqdata, unneeded, sq_live>>
        /\ (sqdone' => sqdone \/ Setscene \subseteq Settled)
    BY <2>1, FinishedSettled DEF MainTurn
  <2>3. UNCHANGED <<sq_buildable, sq_running, scenequeue_covered, scenequeue_notcovered, tasks_scenequeue_done>>
    BY <2>1 DEF sqvars
  <2> QED
    BY <2>1, <2>2, <2>3, QuietWork
<1>6. ASSUME (\E t \in Tasks : StartTask(t)) \/ WaitWorkers \/ EndBuild
      PROVE  SceneQueueInv' /\ DecidedInv' /\ QueuedInv'
  <2>1. /\ MainTurn /\ runq_buildable' = Buildable
        /\ UNCHANGED <<sqvars, runq_complete>>
    BY <1>6 DEF StartTask, WaitWorkers, EndBuild, runvars
  <2>2. /\ update_holdofftasks /\ UNCHANGED <<sqdata, unneeded, sq_live>>
        /\ (sqdone' => sqdone \/ Setscene \subseteq Settled)
    BY <2>1, FinishedSettled DEF MainTurn
  <2>3. UNCHANGED <<sq_buildable, sq_running, scenequeue_covered, scenequeue_notcovered, tasks_scenequeue_done>>
    BY <2>1 DEF sqvars
  <2>4. runq_running' \subseteq runq_running \cup Buildable
    BY <1>6 DEF StartTask, Candidates, WaitWorkers, EndBuild, runvars
  <2> QED
    BY <2>1, <2>2, <2>3, <2>4, QuietWork
<1>7. ASSUME NEW t \in sq_live, NEW ok \in BOOLEAN, Exit(t, ok)
      PROVE  SceneQueueInv' /\ DecidedInv' /\ QueuedInv'
  <2>1. /\ sq_live' = sq_live \ {t}
        /\ IF ok THEN Settle({t}, {}) ELSE Settle({}, HardFail(t))
        /\ UNCHANGED <<sqdata, sqdone, runq_buildable, runvars>>
    BY <1>7 DEF Exit
  <2>2. PICK C \in SUBSET Setscene, N \in SUBSET Setscene : Settle(C, N) /\ t \in C \cup N
    <3>1. t \in Setscene
      BY DEF IInv, TypeOK
    <3>2. CASE ok
      BY <2>1, <3>1, <3>2
    <3>3. CASE ~ok
      BY <2>1, <3>1, <3>3, HardFailTypes
    <3> QED
      BY <3>2, <3>3
  <2> QED
    BY <2>1, <2>2, SettleWork DEF runvars
<1>8. ASSUME NEW t \in Live, NEW ok \in BOOLEAN, Exit(t, ok)
      PROVE  SceneQueueInv' /\ DecidedInv' /\ QueuedInv'
  <2>1. t \notin sq_live /\ t \in Tasks /\ t \in runq_running
    BY DEF IInv, TypeOK, SettleInv, HoldInv, Live
  <2>2. /\ sq_live' = sq_live
        /\ UNCHANGED <<runq_running, sqvars, holdoff_need_update, sqdata, unneeded, sqdone, holdoffvars>>
    BY <1>8, <2>1 DEF Exit
  <2>3. UNCHANGED <<sq_buildable, sq_running, scenequeue_covered, scenequeue_notcovered, tasks_scenequeue_done>>
    BY <2>2 DEF sqvars
  <2>4. /\ runq_buildable \subseteq runq_buildable'
        /\ \/ runq_complete' = runq_complete
           \/ /\ runq_complete' = runq_complete \cup {t} /\ runq_running' = runq_running \cup {t}
              /\ {t} \cup NewlyBuildable(t) \subseteq runq_buildable'
    <3>1. CASE ok
      BY <1>8, <2>1, <2>2, <3>1 DEF Exit, WorkInv, QueuedInv
    <3>2. CASE ~ok
      BY <1>8, <2>1, <3>2 DEF Exit
    <3> QED
      BY <3>1, <3>2
  <2> QED
    BY <2>1, <2>2, <2>3, <2>4, QuietWork
<1>9. ASSUME Finish \/ FinishNow \/ UNCHANGED vars
      PROVE  SceneQueueInv' /\ DecidedInv' /\ QueuedInv'
  <2>1. UNCHANGED <<sqdata, unneeded, sqvars, sq_live, sqdone, holdoffvars, holdoff_need_update,
                    runq_buildable, runvars>>
    BY <1>9 DEF Finish, FinishNow, vars
  <2>2. UNCHANGED <<sq_buildable, sq_running, scenequeue_covered, scenequeue_notcovered,
                    tasks_scenequeue_done, runq_running, runq_complete>>
    BY <2>1 DEF sqvars, runvars
  <2> QED
    BY <2>1, <2>2, QuietWork
<1>10. SceneQueueInv' /\ DecidedInv' /\ QueuedInv'
  <2>1. CASE Execute
    BY <2>1, <1>2, <1>3, <1>4, <1>5, <1>6 DEF Execute
  <2>2. CASE \E t \in Tasks, ok \in BOOLEAN : Exit(t, ok)
    <3>1. PICK t \in Tasks, ok \in BOOLEAN : Exit(t, ok)
      BY <2>2
    <3>2. t \in Live \/ t \in sq_live
      BY <3>1 DEF Exit
    <3> QED
      BY <3>1, <3>2, <1>7, <1>8
  <2> QED
    BY <1>9, <2>1, <2>2 DEF Next
<1> QED
  BY <1>1, <1>10 DEF WorkInv

-----------------------------------------------------------------------------
(* The end of the build                                                    *)

\* Every ordinary task is covered by a setscene task or cannot be skipped:
\* going up from it ends at one or the other.
LEMMA EveryTaskHasScene ==
  ASSUME sqdata = SQData, LoopFree
  PROVE  \A t \in Tasks \ Setscene : t \in Unskippable \/ \E s \in Setscene : t \in SqCovered({s})
<1> DEFINE U == {t \in Tasks \ Setscene : t \notin Unskippable /\ \A s \in Setscene : t \notin SqCovered({s})}
<1> SUFFICES ASSUME U # {} PROVE FALSE
  OBVIOUS
<1>1. IsGraph(Depends) /\ IsFiniteSet(DOMAIN Depends) /\ Acyclic(Depends) /\ U \in SUBSET DOMAIN Depends
  BY BuildAssumption DEF IsGraph, LoopFree, Tasks
<1>2. PICK t \in U : \A u \in U : t \notin Depends[u]
  <2> HIDE DEF U
  <2> QED
    BY <1>1, SomeTaskOnTop
<1>3. revdeps(Depends, t) # {}
  <2> DEFINE X == {r \in DOMAIN Depends : revdeps(Depends, r) = {}} \cup (Targets \ Setscene)
  <2>1. Unskippable = Reach(Depends, Setscene, X) /\ X \subseteq DOMAIN Depends
    BY BuildAssumption DEF Unskippable, SQData, unskippable, Tasks
  <2>2. revdeps(Depends, t) = {} => t \in X
    BY DEF Tasks
  <2> HIDE DEF X
  <2> QED
    BY <2>1, <2>2, ReachDomain
<1>4. PICK u \in Tasks : t \in Depends[u]
  BY <1>3 DEF revdeps, Tasks
<1>5. u \notin Setscene
  <2> SUFFICES ASSUME u \in Setscene PROVE FALSE
    OBVIOUS
  <2>1. t \notin Setscene /\ t \notin SqCovered({u})
    OBVIOUS
  <2> QED
    BY <1>4, <2>1, SameScene
<1>6. u \notin Unskippable
  BY <1>4, <1>5, SameScene
<1>7. ASSUME NEW s \in Setscene, u \in SqCovered({s}) PROVE FALSE
  <2>1. t \notin Setscene /\ t \notin SqCovered({s})
    OBVIOUS
  <2> QED
    BY <1>4, <1>7, <2>1, SameScene
<1> QED
  BY <1>2, <1>4, <1>5, <1>6, <1>7

\* When all setscene tasks are settled everything is decided: no task is held
\* off, and every one whose dependencies are complete is buildable.
LEMMA AllDecided ==
  ASSUME IInv, ListsInv, WorkInv, LoopFree, Setscene \subseteq Settled
  PROVE  /\ Holdoff = {}
         /\ Tasks \subseteq (Covered \cup NotCovered) \cap tasks_scenequeue_done
         /\ \A t \in Tasks : Depends[t] \subseteq runq_complete => t \in Buildable
<1>1. Holdoff = {}
  <2>1. Setscene \ Settled = {}
    OBVIOUS
  <2>2. SqCovered({}) = {}
    BY DEF SqCovered
  <2> QED
    BY <2>1, <2>2, UpdatedWork
<1>2. ASSUME NEW t \in Tasks
      PROVE  t \in tasks_scenequeue_done /\ t \in CoveredNow \cup NotCoveredNow
  <2>1. CASE t \in Setscene
    BY <2>1 DEF WorkInv, DecidedInv, CoveredNow, NotCoveredNow, Settled
  <2>2. CASE t \notin Setscene /\ t \in Unskippable
    BY <2>2 DEF WorkInv, DecidedInv, NotCoveredNow
  <2>3. CASE \E s \in Setscene : t \in SqCovered({s})
    <3>1. PICK s \in Setscene : t \in SqCovered({s})
      BY <2>3
    <3>2. t \in tasks_scenequeue_done
      BY <3>1 DEF WorkInv, DecidedInv
    <3>3. t \in SqCovered(scenequeue_covered) \/ t \in SqCovered(scenequeue_notcovered)
      BY <3>1 DEF SqCovered, Settled
    <3> QED
      BY <3>2, <3>3 DEF CoveredNow, NotCoveredNow
  <2> QED
    BY <2>1, <2>2, <2>3, EveryTaskHasScene DEF IInv, QueueInv
<1>3. Tasks \subseteq (Covered \cup NotCovered) \cap tasks_scenequeue_done
  BY <1>2, ListsCurrent
<1>4. \A t \in Tasks : Depends[t] \subseteq runq_complete => t \in Buildable
  BY <1>2, UpdatedWork
<1> QED
  BY <1>1, <1>3, <1>4

\* Then summarise_scenequeue_errors finds nothing.
LEMMA NoSceneErrors ==
  ASSUME IInv, ListsInv, WorkInv, LoopFree, Setscene \subseteq Settled, DOMAIN sq_deferred = {}
  PROVE  ~SceneErrors
<1>1. Setscene \subseteq Settled \cap sq_buildable \cap sq_running
  BY DEF WorkInv, SceneQueueInv, IInv, QueueInv
<1>2. \A t \in Tasks : Depends[t] = {} => t \in Buildable
  BY AllDecided
<1> QED
  BY <1>1, <1>2, AllDecided DEF SceneErrors

\* Nothing runs.
LEMMA NothingRuns ==
  ASSUME IInv, active = 0
  PROVE  Live = {} /\ sq_live = {}
<1>1. Cardinality(Live) = 0 /\ Cardinality(sq_live) = 0
  BY LiveFinite DEF IInv, Throttled
<1> QED
  BY <1>1, LiveFinite, FS_EmptySet DEF IInv

\* When nothing runs, no setscene task is due and none deferred, all are settled:
\* of those that are not, one would wait for none of them.
LEMMA AllSettled ==
  ASSUME IInv, WorkInv, LoopFree, active = 0, NoSceneTask, DOMAIN sq_deferred = {}
  PROVE  Setscene \subseteq Settled
<1> SUFFICES ASSUME Setscene \ Settled # {} PROVE FALSE
  OBVIOUS
<1>1. ~sqdone /\ CanStart /\ \A s \in Setscene : ~SceneReady(s)
  <2>1. CanStart
    BY BuildAssumption DEF CanStart
  <2> QED
    BY <2>1 DEF NoSceneTask, WorkInv, SceneQueueInv
<1>2. PICK s \in Setscene \ Settled : SceneWaits[s] \cap (Setscene \ Settled) = {}
  <2>1. DOMAIN SceneWaits = Setscene /\ IsGraph(SceneWaits)
    BY BuildAssumption DEF SceneWaits, IsGraph, sq_revdeps, SoftRevdeps
  <2>2. IsFiniteSet(Setscene)
    BY BuildAssumption, FS_Subset
  <2> DEFINE U == Setscene \ Settled
  <2>3. U \in SUBSET DOMAIN SceneWaits /\ U # {}
    BY <2>1
  <2> HIDE DEF U
  <2>4. \E s \in U : SceneWaits[s] \cap U = {}
    BY <2>1, <2>2, <2>3, SomeTaskAtBottom DEF LoopFree
  <2> QED
    BY <2>4 DEF U
<1>3. SqRevdeps(s) = SceneWaits[s] /\ SqRevdeps(s) \subseteq Setscene
  BY SqDataTypes DEF IInv, QueueInv, SqRevdeps, SQData, SceneWaits
<1>4. s \in sq_buildable
  BY <1>2, <1>3 DEF WorkInv, SceneQueueInv
<1>5. s \notin sq_running /\ BuildStamps = {}
  BY NothingRuns DEF WorkInv, SceneQueueInv, BuildStamps
<1>6. SceneReady(s)
  BY <1>4, <1>5 DEF SceneReady, Deferred
<1> QED
  BY <1>1, <1>6

\* When the build ends nothing is left that could be done, and the setscene
\* part had no errors.
LEMMA NothingLeft ==
  ASSUME IInv, ListsInv, WorkInv, LoopFree, EndBuild
  PROVE  /\ ~SceneErrors
         /\ \A t \in Tasks : Depends[t] \subseteq runq_complete => t \in Buildable
         /\ \A t \in Tasks \ runq_complete :
              ({t} \cup Reach(Depends, {}, Depends[t])) \cap (failed_tids \cup NoSlotLeft) # {}
<1>1. NoSceneTask /\ (SceneFailed \/ (Candidates = {} /\ active = 0 /\ DOMAIN sq_deferred = {}))
  BY DEF EndBuild, MainTurn
<1>2. Setscene \subseteq Settled /\ DOMAIN sq_deferred = {}
  <2>1. CASE SceneFailed
    <3>1. Holdoff = {} /\ DOMAIN sq_deferred = {}
      BY <2>1 DEF SceneFailed, SceneFinished
    <3> QED
      BY <3>1, HoldoffSafe DEF IInv, HoldoffNow
  <2>2. CASE Candidates = {} /\ active = 0 /\ DOMAIN sq_deferred = {}
    BY <1>1, <2>2, AllSettled
  <2> QED
    BY <1>1, <2>1, <2>2
<1>3. ~SceneErrors
  BY <1>2, NoSceneErrors
<1>4. Candidates = {} /\ active = 0
  BY <1>1, <1>3 DEF SceneFailed
<1>5. /\ Holdoff = {} /\ Tasks \subseteq Covered \cup NotCovered
      /\ \A t \in Tasks : Depends[t] \subseteq runq_complete => t \in Buildable
  BY <1>2, AllDecided
<1>6. CanStart /\ BuildStamps = {} /\ runq_running \subseteq runq_complete \cup failed_tids
  <2>1. CanStart
    BY <1>4, BuildAssumption DEF CanStart
  <2>2. Live = {} /\ sq_live = {}
    BY <1>4, NothingRuns
  <2> QED
    BY <2>1, <2>2 DEF BuildStamps, Live
<1>7. ASSUME NEW u \in Tasks \ runq_complete, Depends[u] \subseteq runq_complete, u \notin failed_tids
      PROVE  u \in NoSlotLeft
  <2>1. u \in Buildable \ runq_running
    BY <1>5, <1>6, <1>7
  <2>2. ~SlotFree(u)
    BY <1>4, <1>5, <1>6, <2>1 DEF Candidates
  <2> DEFINE R == {r \in runq_running \ runq_complete : TaskName[r] = TaskName[u]}
             F == {f \in failed_tids : TaskName[f] = TaskName[u]}
             m == MaxThreads[TaskName[u]]
  <2>3. m # 0 /\ ~(Cardinality(R) < m)
    BY <2>2 DEF SlotFree
  <2>4. R \in SUBSET F /\ F \in SUBSET Tasks
    BY <1>6 DEF IInv, TypeOK
  <2>5. m \in Nat
    BY BuildAssumption
  <2> HIDE DEF R, F, m
  <2>6. IsFiniteSet(F) /\ IsFiniteSet(R)
    BY <2>4, BuildAssumption, FS_Subset
  <2>7. Cardinality(R) <= Cardinality(F) /\ Cardinality(R) \in Nat /\ Cardinality(F) \in Nat
    BY <2>4, <2>6, FS_Subset, FS_CardinalityType
  <2>8. m \in 1 .. Cardinality(F)
    BY <2>3, <2>5, <2>7
  <2> QED
    BY <2>8 DEF NoSlotLeft, m, F
<1>8. ASSUME NEW t \in Tasks \ runq_complete
      PROVE  ({t} \cup Reach(Depends, {}, Depends[t])) \cap (failed_tids \cup NoSlotLeft) # {}
  <2> DEFINE B == {t} \cup Reach(Depends, {}, Depends[t])
             U == B \ runq_complete
  <2>1. IsGraph(Depends) /\ IsFiniteSet(DOMAIN Depends) /\ Acyclic(Depends) /\ DOMAIN Depends = Tasks
    BY BuildAssumption DEF IsGraph, LoopFree, Tasks
  <2>2. B \subseteq Tasks /\ \A u \in B : Depends[u] \subseteq B
    <3>1. Depends[t] \subseteq Reach(Depends, {}, Depends[t])
      BY <2>1, ReachDomain DEF IsGraph
    <3>2. Closed(Depends, {}, Reach(Depends, {}, Depends[t]))
      BY <2>1, ReachClosed
    <3>3. Reach(Depends, {}, Depends[t]) \subseteq Tasks
      BY <2>1, ReachDomain
    <3> QED
      BY <3>1, <3>2, <3>3 DEF Closed
  <2>3. U \in SUBSET DOMAIN Depends /\ U # {}
    BY <2>1, <2>2
  <2> HIDE DEF B, U
  <2>4. PICK u \in U : Depends[u] \cap U = {}
    BY <2>1, <2>3, SomeTaskAtBottom
  <2>5. u \in Tasks \ runq_complete /\ u \in B /\ Depends[u] \subseteq runq_complete
    BY <2>2, <2>4 DEF U
  <2>6. u \in failed_tids \cup NoSlotLeft
    BY <1>7, <2>5
  <2> QED
    BY <2>5, <2>6 DEF B
<1> QED
  BY <1>3, <1>5, <1>8

\* A target that is complete is there.
LEMMA TargetsPresent ==
  ASSUME IInv, InputInv, NEW t \in Targets \cap runq_complete
  PROVE  Present(t)
<1> SUFFICES ASSUME ~Present(t) PROVE FALSE
  OBVIOUS
<1>1. t \in tasks_scenequeue_done \ NotCoveredNow /\ (t \in Setscene => t \in Settled)
  BY DEF InputInv, DoneInv
<1>2. t \in Setscene /\ t \in scenequeue_covered
  BY <1>1 DEF NotCoveredNow, CantSkip, Settled
<1>3. ~WavedOff(t)
  BY DEF WavedOff
<1>4. ~StampCurrentRec(t) /\ t \notin scstamp
  <2>1. DOMAIN [v \in Tasks |-> OwnDepends(v) \ scstamp] = Tasks /\ t \in Tasks
    BY BuildAssumption
  <2>2. t \in Reach([v \in Tasks |-> OwnDepends(v) \ scstamp], {}, {t})
    BY <2>1, ReachDomain
  <2> QED
    BY <2>2 DEF Present, StampCurrentRec
<1> QED
  BY <1>2, <1>3, <1>4 DEF InputInv, FetchInv

\* What execute does besides ending the build leaves the outcome alone.
LEMMA OutcomeStep ==
  ASSUME LoopFree, IInv, InputInv, WorkInv, OutcomeRight, KeepGoing, [Next]_vars
  PROVE  OutcomeRight' /\ KeepGoing'
<1>1. CASE EndBuild
  <2>1. /\ rqstate' = IF failed_tids = {} /\ ~SceneErrors
                         /\ Tasks \subseteq Buildable \cap runq_running \cap runq_complete
                      THEN "Complete" ELSE "Failed"
        /\ UNCHANGED <<stamp, scstamp, runq_complete, failed_tids>>
    BY <1>1 DEF EndBuild, stampvars, runvars
  <2>2. /\ ~SceneErrors
        /\ \A t \in Tasks : Depends[t] \subseteq runq_complete => t \in Buildable
        /\ \A t \in Tasks \ runq_complete :
             ({t} \cup Reach(Depends, {}, Depends[t])) \cap (failed_tids \cup NoSlotLeft) # {}
    BY <1>1, NothingLeft DEF InputInv
  <2>3. rqstate' = "Failed" => failed_tids' # {}
    <3> SUFFICES ASSUME failed_tids = {} PROVE rqstate' = "Complete"
      BY <2>1
    <3>1. NoSlotLeft = {}
      <4>1. ASSUME NEW t PROVE Cardinality({f \in failed_tids : TaskName[f] = TaskName[t]}) = 0
        <5>1. {f \in failed_tids : TaskName[f] = TaskName[t]} = {}
          OBVIOUS
        <5> QED
          BY <5>1, FS_EmptySet
      <4> QED
        BY <4>1 DEF NoSlotLeft
    <3>2. Tasks \subseteq runq_complete
      BY <2>2, <3>1
    <3>3. Tasks \subseteq Buildable /\ Tasks \subseteq runq_running
      BY <2>2, <3>2, BuildAssumption DEF IInv, QueueInv
    <3> QED
      BY <2>1, <2>2, <3>2, <3>3
  <2>4. rqstate' = "Complete" => runq_complete' = Tasks /\ failed_tids' = {} /\ \A t \in Targets : Present(t)'
    <3> SUFFICES ASSUME rqstate' = "Complete"
                 PROVE  runq_complete = Tasks /\ failed_tids = {} /\ \A t \in Targets : Present(t)'
      BY <2>1
    <3>1. runq_complete = Tasks /\ failed_tids = {}
      BY <2>1 DEF IInv, TypeOK
    <3>2. \A t \in Targets : Present(t)
      BY <3>1, TargetsPresent, BuildAssumption
    <3>3. \A t \in Targets : Present(t)' = Present(t)
      BY <2>1 DEF Present, StampCurrent, DepOlder
    <3> QED
      BY <3>1, <3>2, <3>3
  <2>5. NoSlotLeft' = NoSlotLeft
    BY <2>1 DEF NoSlotLeft
  <2> QED
    BY <2>1, <2>2, <2>3, <2>4, <2>5 DEF OutcomeRight, KeepGoing, LeftUndone
<1>2. CASE Execute /\ ~EndBuild
  <2>1. InExecute /\ UNCHANGED <<rqstate, abort, interrupted, failed_tids>>
    BY <1>2 DEF Execute, SkipUnneeded, SceneUnavailable, StartScene, ForceDeferred, SkipTask,
                StartTask, WaitWorkers, SceneTurn, MainTurn, runvars
  <2>2. rqstate \in {"Complete", "Failed"} => failed_tids # {} /\ abort
    BY <2>1 DEF InExecute, WorkInv, ShutdownInv
  <2> QED
    BY <2>1, <2>2 DEF OutcomeRight, KeepGoing, LeftUndone
<1>3. CASE \E t \in Tasks, ok \in BOOLEAN : Exit(t, ok)
  <2>1. rqstate' \in {"Running", "CleanUp"}
    BY <1>3 DEF Exit
  <2> QED
    BY <2>1 DEF OutcomeRight, KeepGoing, LeftUndone
<1>4. CASE Finish
  <2>1. rqstate' \in {"CleanUp", Outcome} /\ UNCHANGED <<abort, failed_tids>>
    BY <1>4 DEF Finish, runvars
  <2>2. ASSUME ~interrupted' PROVE failed_tids # {} /\ abort
    <3>1. rqstate = "CleanUp" /\ interrupted' = interrupted
      BY <1>4, <2>2 DEF Finish
    <3> QED
      BY <2>2, <3>1 DEF WorkInv, ShutdownInv
  <2> QED
    BY <2>1, <2>2 DEF Outcome, OutcomeRight, KeepGoing, LeftUndone
<1>5. CASE FinishNow
  <2>1. rqstate' = Outcome /\ interrupted' /\ UNCHANGED failed_tids
    BY <1>5 DEF FinishNow, runvars
  <2> QED
    BY <2>1 DEF Outcome, OutcomeRight, KeepGoing, LeftUndone
<1>6. CASE UNCHANGED vars
  <2>1. UNCHANGED <<rqstate, abort, interrupted, stamp, scstamp, runq_complete, failed_tids>>
    BY <1>6 DEF vars, stampvars, runvars
  <2>2. NoSlotLeft' = NoSlotLeft /\ \A t \in Targets : Present(t)' = Present(t)
    BY <2>1 DEF NoSlotLeft, Present, StampCurrent, DepOlder
  <2> QED
    BY <2>1, <2>2 DEF OutcomeRight, KeepGoing, LeftUndone
<1> QED
  BY <1>1, <1>2, <1>3, <1>4, <1>5, <1>6 DEF Next, Execute

LEMMA OutcomeHolds ==
  ASSUME UnneededApart, LoopFree
  PROVE  Spec => [](OutcomeRight /\ KeepGoing)
<1>1. Init => InputInv /\ WorkInv /\ OutcomeRight /\ KeepGoing
  <2>1. Init => rqstate = "Running"
    BY DEF Init
  <2> QED
    BY <2>1, InputInit, WorkInit DEF OutcomeRight, KeepGoing, LeftUndone
<1>2. IInv /\ InputInv /\ WorkInv /\ [Next]_vars => InputInv' /\ WorkInv'
  BY InputStep, WorkStep DEF InputInv
<1>3. IInv /\ InputInv /\ WorkInv /\ OutcomeRight /\ KeepGoing /\ [Next]_vars => OutcomeRight' /\ KeepGoing'
  BY OutcomeStep
<1> QED
  BY <1>1, <1>2, <1>3, InvHolds, PTL DEF Spec

\* What the build reports is true, for every build without loops: a build that
\* is reported complete has processed every task and has all its targets, and
\* one fails only because a task failed, never because the two queues have
\* starved each other or a sanity check of execute finds something forgotten.
THEOREM OutcomeRightHolds ==
  ASSUME UnneededApart, LoopFree
  PROVE  Spec => []OutcomeRight
BY OutcomeHolds, PTL

\* With -k as much as possible is built, for every build without loops: what is
\* left undone depends on a failed task, or on one whose name has no free slot.
THEOREM KeepGoingHolds ==
  ASSUME UnneededApart, LoopFree
  PROVE  Spec => []KeepGoing
BY OutcomeHolds, PTL
=============================================================================
