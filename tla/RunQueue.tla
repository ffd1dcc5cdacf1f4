------------------------------ MODULE RunQueue ------------------------------
(***************************************************************************)
(* The execution of a bitbake build (lib/bb/runqueue.py): one server that  *)
(* calls RunQueueExecute.execute in a loop and worker processes that run   *)
(* the tasks it hands out.  A task is run, or skipped because its stamp    *)
(* says it was run before, or skipped because a setscene task has fetched  *)
(* a result from the shared state cache that makes it unnecessary.  The    *)
(* setscene tasks are themselves run by the workers, most dependent task   *)
(* first, while ordinary tasks that cannot be affected already run.        *)
(*                                                                         *)
(* A call of execute is one step of the server: each of its return paths   *)
(* is an action.  read_workers, with which execute and finish begin, takes *)
(* exit codes one at a time from pipes that fill at any moment, so an exit *)
(* code is a step of its own (Exit).                                       *)
(***************************************************************************)
EXTENDS SceneGraph, Integers

CONSTANTS
    Depends,        \* runtaskentries: task -> the tasks it depends on
    Setscene,       \* runq_setscene_tids
    HardDeps,       \* sq_harddeps: setscene task -> those that name it in [depends]
    Targets,        \* target_tids
    Recipe,         \* task -> its file
    TaskName,       \* task -> taskname_from_tid
    StampFile,      \* task -> its stamp's name without extra information
    Noexec,         \* the tasks flagged noexec
    HashIndex,      \* setscene task -> pending_hash_index
    MaxThreads,     \* task name -> its number_threads flag, 0 if it has none
    NumberThreads,  \* BB_NUMBER_THREADS
    MayBeStamped,   \* the tasks of which an earlier build may have left a stamp
    MaxAge,         \* bound: how many times these stamps may differ in
    MayBeUnneeded   \* the setscene tasks the metadata's depvalidate may wave off

Tasks == DOMAIN Depends

\* What a build is.
ASSUME BuildAssumption ==
    /\ IsFiniteSet(Tasks)
    /\ Tasks \subseteq Nat  \* tids are strings, processed in sorted order
    /\ \A t \in Tasks : Depends[t] \subseteq Tasks
    /\ Setscene \subseteq Tasks
    /\ Targets \subseteq Tasks
    /\ HardDeps \in [Setscene -> SUBSET Setscene]
    /\ NumberThreads \in Nat \ {0}
    /\ MaxAge \in Nat
    /\ \A t \in Tasks : MaxThreads[TaskName[t]] \in Nat
    /\ MayBeUnneeded \subseteq Setscene

VARIABLES
    rqstate,                \* RunQueue.state
    executing,              \* the build failed in a call of execute that is to be finished
    sqdata,                 \* the setscene tasks' graph
    abort,                  \* the build stops at the first error (no -k)
    interrupted,            \* the user or a dead worker has ended the build
    unneeded,               \* what depvalidate will say
    stamp,                  \* the times of the stamps on disk
    scstamp,                \* the setscene stamps on disk
    active,                 \* stats.active + sq_stats.active
    sq_buildable, sq_running, sq_live,
    scenequeue_covered, scenequeue_notcovered,
    tasks_scenequeue_done,
    sq_deferred,            \* deferred setscene task -> the task it waits for
    outrightfail,
    sqdone,
    tasks_covered, tasks_notcovered, holdoff_tasks, holdoff_need_update,
    runq_buildable, runq_running, runq_complete, failed_tids

sqvars == <<sq_buildable, sq_running, scenequeue_covered, scenequeue_notcovered,
            tasks_scenequeue_done>>
holdoffvars == <<tasks_covered, tasks_notcovered, holdoff_tasks>>
runvars == <<runq_running, runq_complete, failed_tids>>
stampvars == <<stamp, scstamp>>
vars == <<rqstate, executing, sqdata, abort, interrupted, unneeded, stampvars, active, sqvars, sq_live,
          sq_deferred, outrightfail, sqdone, holdoffvars, holdoff_need_update,
          runq_buildable, runvars>>

-----------------------------------------------------------------------------
(* The graph of setscene tasks                                             *)

\* The SQData object that build_scenequeue_data fills (TaskGraph has its work
\* lists).  It does not change during the build.
SQData ==
    [ sq_covered_tasks |-> [s \in Setscene |-> sq_covered_tasks(Depends, Setscene, s)],
      sq_revdeps  |-> [s \in Setscene |-> sq_revdeps(Depends, Setscene, HardDeps, s)],
      unskippable |-> unskippable(Depends, Setscene, Targets) ]

\* The ordinary tasks that one of the setscene tasks S covers.
SqCovered(S) == UNION {sqdata.sq_covered_tasks[s] : s \in S}

\* Mutant: [depends] flags are known but not waited for.
SqRevdeps_NoHard(s) == sqdata.sq_revdeps[s] \ {d \in Setscene : s \in HardDeps[d]}

\* The setscene tasks s has to wait for.
SqRevdeps(s) == sqdata.sq_revdeps[s]

Unskippable == sqdata.unskippable
CantSkip == Targets \ Setscene

-----------------------------------------------------------------------------
(* Stamps (check_stamp_task), with the policy perfile: only dependencies   *)
(* of the same recipe are compared.                                        *)

OwnDepends(t) == {d \in Depends[t] : Recipe[d] = Recipe[t]}

\* The times of stamps: no stamp, a time of earlier builds, this build.
None == 0
OldTimes == 1 .. MaxAge
New == MaxAge + 1

\* A setscene stamp beside a stamp is always the younger of the two, because
\* making the stamp of a task removes its setscene stamp.
DepOlder(t, d) ==
    \/ d \in scstamp
    \/ stamp[d] # None /\ stamp[d] <= stamp[t]

StampCurrent(t) == stamp[t] # None /\ \A d \in OwnDepends(t) : DepOlder(t, d)

\* With recurse: the same for the dependencies, to the end of the chain.
StampCurrentRec(t) ==
    \A u \in Reach([v \in Tasks |-> OwnDepends(v) \ scstamp], {}, {t}) : StampCurrent(u)

\* The result of t is in place.
Present(t) == stamp[t] = New \/ t \in scstamp \/ StampCurrent(t)

-----------------------------------------------------------------------------
(* Settling setscene tasks                                                 *)

\* tasks_scenequeue_done after scenequeue_updatecounters for the setscene tasks
\* S: these, and below them every ordinary task all of whose users are done.
\* Going up from a task that is not unskippable, that is when all the setscene
\* tasks that cover it are done.
SceneDone(done, S) ==
    LET E == done \cup S
    IN  E \cup {t \in SqCovered(S) : \A s \in Setscene : t \in SqCovered({s}) => s \in E}

\* Mutant: only setscene tasks that succeeded let others go on.
SceneBuildable_Covered(settled) ==
    {s \in Setscene : SqRevdeps(s) # {} /\ SqRevdeps(s) \subseteq settled \cap scenequeue_covered}

\* The setscene tasks that become buildable when settled is what is settled.
SceneBuildable(settled) == {s \in Setscene : SqRevdeps(s) # {} /\ SqRevdeps(s) \subseteq settled}

Settled == scenequeue_covered \cup scenequeue_notcovered

\* A setscene task that fails takes with it those that name it in [depends],
\* unless they are settled already.
HardFail(s) == Reach([u \in Setscene |-> HardDeps[u] \ Settled], {}, {s})

\* sq_task_complete(outright), sq_task_fail(outright) and sq_task_skip: the
\* tasks C are covered, the tasks N are not.
Settle(C, N) ==
    /\ scenequeue_covered' = scenequeue_covered \cup C
    /\ scenequeue_notcovered' = scenequeue_notcovered \cup N
    /\ sq_running' = sq_running \cup C \cup N
    /\ sq_buildable' = sq_buildable \cup C \cup N \cup SceneBuildable(Settled \cup C \cup N)
    /\ tasks_scenequeue_done' = SceneDone(tasks_scenequeue_done, C \cup N)
    /\ holdoff_need_update' = TRUE

-----------------------------------------------------------------------------
(* Start of the build: RunQueueExecute.__init__, build_scenequeue_data and *)
(* update_scenequeue_data.  The cache holds any set of results.            *)

Init ==
    /\ rqstate = "Running"
    /\ executing = FALSE
    /\ sqdata = SQData
    /\ abort \in BOOLEAN
    /\ interrupted = FALSE
    /\ unneeded \in SUBSET MayBeUnneeded
    /\ stamp \in [Tasks -> {None} \cup OldTimes]
    /\ \A t \in Tasks \ MayBeStamped : stamp[t] = None
    /\ \E sc \in SUBSET (MayBeStamped \cap Setscene), valid \in SUBSET Setscene :
         /\ scstamp = sc \cup (Noexec \cap Setscene)
         /\ scenequeue_covered = scstamp \cup {s \in Setscene : StampCurrentRec(s)}
         /\ outrightfail = Setscene \ (scenequeue_covered \cup valid)
    /\ scenequeue_notcovered = {}
    /\ sq_running = scenequeue_covered
    /\ sq_buildable = scenequeue_covered \cup SceneBuildable(scenequeue_covered)
                      \cup {s \in Setscene : SqRevdeps(s) = {}}
    /\ tasks_scenequeue_done = SceneDone(Unskippable \ Setscene, scenequeue_covered)
    \* of the unavailable tasks with one hash only the first is built
    /\ LET First(s) == CHOOSE u \in outrightfail :
                         /\ HashIndex[u] = HashIndex[s]
                         /\ \A v \in outrightfail : HashIndex[v] = HashIndex[s] => u <= v
       IN  sq_deferred = [s \in {u \in outrightfail : First(u) # u} |-> First(s)]
    /\ sq_live = {}
    /\ active = 0
    \* a build without setscene tasks skips the setscene part
    /\ sqdone = (Setscene = {})
    /\ tasks_covered = {}
    /\ tasks_notcovered = IF Setscene = {} THEN Tasks ELSE {}
    /\ holdoff_tasks = {}
    /\ holdoff_need_update = TRUE
    /\ runq_buildable = {t \in Tasks : Depends[t] = {} /\ (t \in Unskippable \ Setscene \/ Setscene = {})}
    /\ runq_running = {}
    /\ runq_complete = {}
    /\ failed_tids = {}

-----------------------------------------------------------------------------
(* What execute looks at                                                   *)

\* The ordinary tasks the workers are running.
Live == runq_running \ (runq_complete \cup failed_tids)

BuildStamps == {<<"do", StampFile[t]>> : t \in Live}
               \cup {<<"setscene", StampFile[s]>> : s \in sq_live}

\* Mutant: one task too many.
CanStart_OffByOne == active <= NumberThreads

CanStart == active < NumberThreads

\* check_dependencies: all users of s are covered and none of them needs it.
NotNeeded(s) ==
    /\ s \notin Unskippable \cup Targets
    /\ SqRevdeps(s) # {}
    /\ SqRevdeps(s) \subseteq scenequeue_covered
    /\ s \in unneeded

Deferred(s) == s \in DOMAIN sq_deferred

\* The loop over sorted_setscene_tids stops at s.  (The wait for tasks that s
\* covers is a continue of the inner loop and has no effect.)
SceneReady(s) ==
    /\ s \in sq_buildable \ sq_running
    /\ <<"setscene", StampFile[s]>> \notin BuildStamps
    /\ ~NotNeeded(s) /\ Deferred(s) => sq_deferred[s] \in runq_complete

\* A task that fails while execute reads exit codes ends the build (CleanUp),
\* but that call of execute still goes on to its end.
InExecute == rqstate = "Running" \/ executing

SceneTurn(s) ==
    /\ InExecute
    /\ ~sqdone
    /\ CanStart
    /\ SceneReady(s)
    /\ executing' = FALSE

NoSceneTask == sqdone \/ ~CanStart \/ \A s \in Setscene : ~SceneReady(s)

\* Mutant: the tasks below a setscene task that failed are forgotten.
NotCoveredNow_Shallow ==
    tasks_scenequeue_done \cap (scenequeue_notcovered \cup CantSkip \cup (Unskippable \ Setscene))

\* update_holdofftasks
NotCoveredNow ==
    tasks_scenequeue_done \cap
        ( scenequeue_notcovered \cup CantSkip \cup (Unskippable \ Setscene)
          \cup SqCovered(scenequeue_notcovered) )

CoveredNow ==
    tasks_scenequeue_done \cap
        ( (scenequeue_covered \cup SqCovered(scenequeue_covered))
          \ NotCoveredNow )

HoldoffNow ==
    LET U == Setscene \ Settled
    IN  U \cup (SqCovered(U) \ runq_complete)

\* The four results, which are recomputed only when something was settled.
Covered == IF holdoff_need_update THEN CoveredNow ELSE tasks_covered
NotCovered == IF holdoff_need_update THEN NotCoveredNow ELSE tasks_notcovered
Holdoff == IF holdoff_need_update THEN HoldoffNow ELSE holdoff_tasks
Buildable ==
    runq_buildable \cup
        IF holdoff_need_update
          THEN {t \in CoveredNow \cup NotCoveredNow : Depends[t] \subseteq runq_complete}
          ELSE {}

update_holdofftasks ==
    /\ tasks_covered' = Covered
    /\ tasks_notcovered' = NotCovered
    /\ holdoff_tasks' = Holdoff

\* next_buildable_task: the scheduler takes one of these, by a priority that
\* is left out.  number_threads counts what runs and has not completed.
\* Mutant: one task of the name too many.
SlotFree_OffByOne(t) ==
    \/ MaxThreads[TaskName[t]] = 0
    \/ Cardinality({r \in runq_running \ runq_complete : TaskName[r] = TaskName[t]})
          <= MaxThreads[TaskName[t]]

SlotFree(t) ==
    \/ MaxThreads[TaskName[t]] = 0
    \/ Cardinality({r \in runq_running \ runq_complete : TaskName[r] = TaskName[t]})
          < MaxThreads[TaskName[t]]

\* Mutant: after a failure nothing is started.
Candidates_NoFailure ==
    {t \in ((Buildable \ runq_running) \ Holdoff) \cap (Covered \cup NotCovered) :
        CanStart /\ SlotFree(t) /\ failed_tids = {}}

Candidates ==
    {t \in ((Buildable \ runq_running) \ Holdoff) \cap (Covered \cup NotCovered) :
        CanStart /\ SlotFree(t) /\ <<"do", StampFile[t]>> \notin BuildStamps}

\* summarise_scenequeue_errors
SceneErrors ==
    \/ DOMAIN sq_deferred # {}
    \/ Holdoff # {}
    \/ ~(Setscene \subseteq Settled \cap sq_buildable \cap sq_running)
    \/ ~(Tasks \subseteq (Covered \cup NotCovered) \cap tasks_scenequeue_done)
    \/ \E t \in Tasks \ Buildable : Depends[t] = {}

SceneFinished == sq_live = {} /\ ~sqdone /\ DOMAIN sq_deferred = {} /\ Holdoff = {}

\* The setscene part has ended with errors: execute stops before the scheduler.
SceneFailed == SceneFinished /\ SceneErrors

-----------------------------------------------------------------------------
(* execute: a setscene task is due                                         *)

Undefer(s) == sq_deferred' = [u \in DOMAIN sq_deferred \ {s} |-> sq_deferred[u]]

\* Nobody needs s: it counts as covered although nothing was fetched.
SkipUnneeded(s) ==
    /\ SceneTurn(s)
    /\ NotNeeded(s)
    /\ Settle({s}, {})
    /\ Undefer(s)
    /\ UNCHANGED <<rqstate, sqdata, abort, interrupted, unneeded, stampvars, active, sq_live, outrightfail,
                   sqdone, holdoffvars, runq_buildable, runvars>>

\* There is nothing in the cache for s, also (when it was deferred) after the
\* task with the same hash has been built.
SceneUnavailable(s) ==
    /\ SceneTurn(s)
    /\ ~NotNeeded(s)
    /\ s \in outrightfail
    /\ Settle({}, HardFail(s))
    /\ Undefer(s)
    /\ UNCHANGED <<rqstate, sqdata, abort, interrupted, unneeded, stampvars, active, sq_live, outrightfail,
                   sqdone, holdoffvars, runq_buildable, runvars>>

\* The cache has a result for s.  If the task's own stamp is current the result
\* is not fetched; otherwise a worker is told to fetch it.  When that was the
\* last free thread, execute goes on and brings the holdoff lists up to date.
StartScene(s) ==
    /\ SceneTurn(s)
    /\ ~NotNeeded(s)
    /\ s \notin outrightfail \/ Deferred(s)
    /\ outrightfail' = outrightfail \ {s}
    /\ Undefer(s)
    /\ IF StampCurrentRec(s)
         THEN /\ Settle({}, HardFail(s))
              /\ UNCHANGED <<active, sq_live, holdoffvars, runq_buildable>>
         ELSE /\ sq_running' = sq_running \cup {s}
              /\ sq_live' = sq_live \cup {s}
              /\ active' = active + 1
              /\ IF active' < NumberThreads
                   THEN UNCHANGED <<holdoffvars, holdoff_need_update, runq_buildable>>
                   ELSE /\ update_holdofftasks
                        /\ runq_buildable' = Buildable
                        /\ holdoff_need_update' = FALSE
              /\ UNCHANGED <<sq_buildable, scenequeue_covered, scenequeue_notcovered,
                             tasks_scenequeue_done>>
    /\ UNCHANGED <<rqstate, sqdata, abort, interrupted, unneeded, stampvars, sqdone, runvars>>

-----------------------------------------------------------------------------
(* execute: no setscene task is due                                        *)

\* The middle of execute: the holdoff lists, and the end of the setscene part.
MainTurn ==
    /\ InExecute
    /\ executing' = FALSE
    /\ NoSceneTask
    /\ update_holdofftasks
    /\ sqdone' = (sqdone \/ (SceneFinished /\ ~SceneErrors))
    /\ UNCHANGED <<sqdata, abort, interrupted, unneeded, sq_live, outrightfail>>

\* task_completeoutright: users of t whose dependencies are now complete.
NewlyBuildable(t) ==
    {u \in revdeps(Depends, t) \ runq_running : Depends[u] \subseteq runq_complete \cup {t}}

\* A task that needs no worker: the setscene tasks cover it, its stamp is
\* current, or it is flagged noexec (then the stamp is made here).
SkipTask(t) ==
    /\ MainTurn
    /\ t \in Candidates /\ ~SceneFailed
    /\ t \in Covered \/ StampCurrent(t) \/ t \in Noexec
    /\ stamp' = IF t \in Covered \/ StampCurrent(t) THEN stamp ELSE [stamp EXCEPT ![t] = New]
    /\ scstamp' = IF t \in Covered \/ StampCurrent(t) THEN scstamp ELSE scstamp \ {t}
    /\ runq_running' = runq_running \cup {t}
    /\ runq_complete' = runq_complete \cup {t}
    /\ runq_buildable' = Buildable \cup {t} \cup NewlyBuildable(t)
    /\ holdoff_need_update' = FALSE
    /\ UNCHANGED <<rqstate, active, sqvars, sq_deferred, failed_tids>>

StartTask(t) ==
    /\ MainTurn
    /\ t \in Candidates /\ ~SceneFailed
    /\ t \notin Covered \cup Noexec
    /\ ~StampCurrent(t)
    /\ runq_running' = runq_running \cup {t}
    /\ active' = active + 1
    /\ runq_buildable' = Buildable
    /\ holdoff_need_update' = FALSE
    /\ UNCHANGED <<rqstate, stampvars, sqvars, sq_deferred, runq_complete, failed_tids>>

\* Nothing can be started: wait for a worker.
WaitWorkers ==
    /\ MainTurn
    /\ Candidates = {} /\ ~SceneFailed
    /\ active > 0
    /\ runq_buildable' = Buildable
    /\ holdoff_need_update' = FALSE
    /\ UNCHANGED <<rqstate, stampvars, active, sqvars, sq_deferred, runvars>>

\* Mutant: the entry is read and not taken.
ForceDeferred_Kept(s) ==
    /\ MainTurn
    /\ Candidates = {}
    /\ active = 0
    /\ Deferred(s)
    /\ Settle({}, HardFail(sq_deferred[s]))
    /\ runq_buildable' = Buildable
    /\ UNCHANGED <<rqstate, stampvars, active, runvars, sq_deferred>>

\* "Runqeueue deadlocked on deferred tasks, forcing task": one entry is taken
\* from sq_deferred, and the task it was waiting for is marked not covered.
ForceDeferred(s) ==
    /\ MainTurn
    /\ Candidates = {}
    /\ active = 0
    /\ Deferred(s)
    /\ Settle({}, HardFail(sq_deferred[s]))
    /\ Undefer(s)
    /\ runq_buildable' = Buildable
    /\ UNCHANGED <<rqstate, stampvars, active, runvars>>

\* Nothing runs and nothing can be started: the end, after the sanity checks.
\* It comes early when the setscene part has failed.
EndBuild ==
    /\ MainTurn
    /\ SceneFailed \/ (Candidates = {} /\ active = 0 /\ DOMAIN sq_deferred = {})
    /\ rqstate' = IF failed_tids = {} /\ ~SceneErrors
                       /\ Tasks \subseteq Buildable \cap runq_running \cap runq_complete
                    THEN "Complete" ELSE "Failed"
    /\ runq_buildable' = Buildable
    /\ holdoff_need_update' = FALSE
    /\ UNCHANGED <<stampvars, active, sqvars, sq_deferred, runvars>>

-----------------------------------------------------------------------------
(* The workers, the user                                                   *)

\* runqueue_process_waitpid: the exit code of t arrives.
Exit(t, ok) ==
    /\ rqstate \in {"Running", "CleanUp"}
    /\ t \in Live \cup sq_live
    /\ active' = active - 1
    /\ sq_live' = sq_live \ {t}
    /\ IF t \in sq_live
         THEN /\ IF ok THEN Settle({t}, {}) ELSE Settle({}, HardFail(t))
              /\ scstamp' = IF ok THEN scstamp \cup {t} ELSE scstamp
              /\ UNCHANGED <<rqstate, executing, stamp, runq_buildable, runvars>>
         ELSE /\ IF ok
                   THEN /\ runq_complete' = runq_complete \cup {t}
                        /\ runq_buildable' = runq_buildable \cup NewlyBuildable(t)
                        /\ stamp' = [stamp EXCEPT ![t] = New]
                        /\ scstamp' = scstamp \ {t}
                        /\ UNCHANGED <<rqstate, executing, failed_tids>>
                   ELSE /\ failed_tids' = failed_tids \cup {t}
                        /\ rqstate' = IF abort THEN "CleanUp" ELSE rqstate
                        /\ executing' \in IF abort /\ rqstate = "Running" THEN BOOLEAN
                                          ELSE {executing}
                        /\ UNCHANGED <<stampvars, runq_complete, runq_buildable>>
              /\ UNCHANGED <<runq_running, sqvars, holdoff_need_update>>
    /\ UNCHANGED <<sqdata, abort, interrupted, unneeded, sq_deferred, outrightfail, sqdone, holdoffvars>>

Outcome == IF failed_tids = {} THEN "Complete" ELSE "Failed"

\* finish, called for a shutdown and then until nothing is active.
Finish ==
    /\ \/ rqstate = "CleanUp" /\ active = 0 /\ ~executing /\ UNCHANGED interrupted
       \/ rqstate = "Running" /\ interrupted' = TRUE
    /\ rqstate' = IF active > 0 THEN "CleanUp" ELSE Outcome
    /\ UNCHANGED <<executing, sqdata, abort, unneeded, stampvars, active, sqvars, sq_live,
                   sq_deferred, outrightfail, sqdone, holdoffvars, holdoff_need_update, runq_buildable, runvars>>

\* finish_now: a forced shutdown, or a worker process that died (the rest of the
\* call of execute that notices it is left out).
FinishNow ==
    /\ rqstate \in {"Running", "CleanUp"}
    /\ interrupted' = TRUE
    /\ rqstate' = Outcome
    /\ UNCHANGED <<executing, sqdata, abort, unneeded, stampvars, active, sqvars, sq_live,
                   sq_deferred, outrightfail, sqdone, holdoffvars, holdoff_need_update, runq_buildable, runvars>>

Execute ==
    \/ \E s \in Setscene : \/ SkipUnneeded(s)
                           \/ SceneUnavailable(s)
                           \/ StartScene(s)
                           \/ ForceDeferred(s)
    \/ \E t \in Tasks : SkipTask(t) \/ StartTask(t)
    \/ WaitWorkers
    \/ EndBuild

Next ==
    \/ Execute
    \/ \E t \in Tasks, ok \in BOOLEAN : Exit(t, ok)
    \/ Finish
    \/ FinishNow

\* The server keeps calling execute (or finish), and tasks end.  Nothing is
\* assumed of the user: a shutdown may come or not.
Spec ==
    /\ Init /\ [][Next]_vars
    /\ WF_vars(Execute)
    /\ WF_vars(rqstate = "CleanUp" /\ Finish)
    /\ \A t \in Tasks : WF_vars(\E ok \in BOOLEAN : Exit(t, ok))

-----------------------------------------------------------------------------
(* Properties                                                              *)

\* Every variable keeps its type.
TypeOK ==
    /\ rqstate \in {"Running", "CleanUp", "Complete", "Failed"}
    /\ executing \in BOOLEAN /\ abort \in BOOLEAN /\ interrupted \in BOOLEAN
    /\ sqdone \in BOOLEAN /\ holdoff_need_update \in BOOLEAN
    /\ stamp \in [Tasks -> None .. New]
    /\ active \in 0 .. NumberThreads
    /\ scstamp \subseteq Setscene /\ unneeded \subseteq Setscene
    /\ sq_buildable \subseteq Setscene /\ sq_running \subseteq Setscene /\ sq_live \subseteq Setscene
    /\ scenequeue_covered \subseteq Setscene /\ scenequeue_notcovered \subseteq Setscene
    /\ outrightfail \subseteq Setscene
    /\ sq_deferred \in [DOMAIN sq_deferred -> Setscene] /\ DOMAIN sq_deferred \subseteq Setscene
    /\ tasks_scenequeue_done \subseteq Tasks
    /\ tasks_covered \subseteq Tasks /\ tasks_notcovered \subseteq Tasks /\ holdoff_tasks \subseteq Tasks
    /\ runq_buildable \subseteq Tasks /\ runq_running \subseteq Tasks
    /\ runq_complete \subseteq Tasks /\ failed_tids \subseteq Tasks

Over == rqstate \in {"Complete", "Failed"}

\* A task that a worker runs finds the results of everything it depends on in
\* place: each dependency was run, was fetched, or is up to date from an
\* earlier build.  Skipping covered tasks and unneeded setscene tasks is right
\* only because nothing that depends on them is run.
InputsPresent == \A t \in Live : \A d \in Depends[t] : Present(d)

\* While a worker fetches the result of s, none runs s or a task that s covers
\* (they write to the same places).  The wait in execute that is meant to
\* ensure it has no effect, so it rests on which tasks are done and held off.
SceneApart ==
    \A s \in sq_live : (SqCovered({s}) \cup {s}) \cap Live = {}

\* At most BB_NUMBER_THREADS tasks run, at most number_threads of one name, and
\* no two that write the same stamp; the server's count of them is right.
Throttled ==
    /\ active = Cardinality(Live) + Cardinality(sq_live)
    /\ active <= NumberThreads
    /\ \A t \in Live : MaxThreads[TaskName[t]] # 0 =>
         Cardinality({u \in Live : TaskName[u] = TaskName[t]}) <= MaxThreads[TaskName[t]]
    /\ \A t, u \in Live : StampFile[t] = StampFile[u] => t = u
    /\ \A t, u \in sq_live : StampFile[t] = StampFile[u] => t = u

\* What the build reports is true: if it was not interrupted and is reported
\* complete, every task has been processed without an error and the results of
\* all targets are there; and it fails only because a task failed, so that the
\* errors of the sanity checks ("Task %s never buildable!", "never marked as
\* covered or not covered", ...) do not occur: the queues never starve each other.
OutcomeRight ==
    /\ rqstate = "Failed" => failed_tids # {}
    /\ rqstate = "Complete" /\ ~interrupted =>
        /\ runq_complete = Tasks
        /\ failed_tids = {}
        /\ \A t \in Targets : Present(t)

\* When the build stops, what is left undone is the failed tasks or depends on
\* a failed task or one of the tasks X.
LeftUndone(X) ==
    rqstate = "Failed" /\ ~abort /\ ~interrupted =>
        \A t \in Tasks \ runq_complete :
            ({t} \cup Reach(Depends, {}, Depends[t])) \cap (failed_tids \cup X) # {}

\* Failed tasks stay in the count of their name: no slot is left for these.
NoSlotLeft ==
    {t \in Tasks : MaxThreads[TaskName[t]] \in
        1 .. Cardinality({f \in failed_tids : TaskName[f] = TaskName[t]})}

\* "as much as possible will be built before stopping" (-k): the build stops when every task has been processed that neither
\* depends on a failed task nor on one without a slot.
KeepGoing == LeftUndone(NoSlotLeft)

\* The build ends, whatever fails and whatever waits for what.
BuildEnds == <>Over

=============================================================================
