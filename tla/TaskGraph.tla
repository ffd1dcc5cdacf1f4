----------------------------- MODULE TaskGraph ------------------------------
(***************************************************************************)
(* How bitbake prepares a build (lib/bb/runqueue.py): the end of           *)
(* RunQueueData.prepare, which drops the tasks no target needs and, while  *)
(* it computes the weights (left out), refuses graphs with loops, and      *)
(* build_scenequeue_data, which collapses the graph to one of setscene     *)
(* tasks only.  Each is a work list that is processed until it is empty;   *)
(* the code iterates over dicts and sets whose order is the accident of    *)
(* task names, so any order is allowed here.                               *)
(***************************************************************************)
EXTENDS SceneGraph

CONSTANT Inputs  \* the graphs to prepare: [depends, setscene, harddeps, targets]

\* Dependencies, targets and what [depends] flags name are tasks of the graph,
\* which for the latter need be neither setscene tasks nor active.
ASSUME InputsAssumption == \A i \in Inputs :
    /\ IsFiniteSet(DOMAIN i.depends)
    /\ \A t \in DOMAIN i.depends : i.depends[t] \subseteq DOMAIN i.depends
    /\ i.targets \subseteq DOMAIN i.depends
    /\ i.harddeps \in [DOMAIN i.depends -> SUBSET i.setscene]

VARIABLES
    in,         \* the input
    G,          \* runtaskentries: the tasks that are left, with their depends
    phase,      \* weights, squash, unskippable, hard, done; after a fatal error
                \* circular, wrong or nonexistent
    points,     \* the work list: tasks whose dependencies are to be looked at
    next,       \* the work list of the next round
    deps_left,  \* of calculate_task_weights: reverse dependencies not yet seen
    revdeps_left,  \* sq_revdeps of build_scenequeue_data
    squash,        \* sq_revdeps_squash
    collated,      \* sq_collated_deps
    unskip         \* sqdata.unskippable

vars == <<in, G, phase, points, next, deps_left, revdeps_left, squash,
          collated, unskip>>

SS == in.setscene \cap DOMAIN G
Empty == [t \in DOMAIN G |-> {}]

\* Step C of prepare: what is not active is pruned.
Pruned(depends, targets) == [t \in ActiveTasks(depends, targets) |-> depends[t]]

\* Step D: the reverse dependencies give the endpoints.  A task that is its own
\* dependency's dependency is refused at once.
Init ==
    /\ in \in Inputs
    /\ G = Pruned(in.depends, in.targets)
    /\ points = {t \in DOMAIN G : revdeps(G, t) = {}}
    /\ next = {}
    /\ phase = IF \E t \in DOMAIN G : G[t] \cap revdeps(G, t) # {}
                 THEN "circular" ELSE "weights"
    /\ deps_left = [t \in DOMAIN G |-> Cardinality(revdeps(G, t))]
    /\ revdeps_left = [t \in DOMAIN G |-> revdeps(G, t)]
    /\ squash = Empty
    /\ collated = Empty
    /\ unskip = {}

-----------------------------------------------------------------------------
(* calculate_task_weights                                                  *)

\* The body of the loop over the endpoints, for one of them.
Weigh(tid) ==
    /\ phase = "weights"
    /\ tid \in points
    /\ deps_left' = [d \in DOMAIN G |-> deps_left[d] - IF d \in G[tid] THEN 1 ELSE 0]
    /\ points' = points \ {tid}
    /\ next' = next \cup {d \in G[tid] : deps_left'[d] = 0}
    /\ UNCHANGED <<in, G, phase, revdeps_left, squash, collated, unskip>>

WeighRound ==
    /\ phase = "weights"
    /\ points = {}
    /\ next # {}
    /\ points' = next
    /\ next' = {}
    /\ UNCHANGED <<in, G, phase, deps_left, revdeps_left, squash, collated, unskip>>

\* Mutant: a task with one user left passes.
Unreached_OffByOne == {t \in DOMAIN G : deps_left[t] > 1}

Unreached == {t \in DOMAIN G : deps_left[t] # 0}

\* The tasks no round reached are on a loop or below one: a fatal error.
\* Otherwise build_scenequeue_data starts: its first work list has the ends of
\* the build and, with the setscene task that is above them, the dependencies
\* of setscene tasks.  The tasks above a work item are kept in squash.
WeightsDone ==
    /\ phase = "weights"
    /\ points = {}
    /\ next = {}
    /\ IF Unreached # {}
         THEN /\ phase' = "circular"
              /\ UNCHANGED <<points, revdeps_left, squash>>
         ELSE /\ phase' = "squash"
              /\ points' = {t \in DOMAIN G \ SS : revdeps(G, t) = {}}
                           \cup UNION {G[s] : s \in SS}
              /\ revdeps_left' = [t \in DOMAIN G |-> revdeps_left[t] \ SS]
              /\ squash' = [t \in DOMAIN G |-> revdeps(G, t) \cap SS]
    /\ UNCHANGED <<in, G, next, deps_left, collated, unskip>>

-----------------------------------------------------------------------------
(* build_scenequeue_data                                                   *)

\* Mutants: what other points handed on is overwritten; the point keeps its own.
NewSquash_Overwrites(point) ==
    [d \in DOMAIN G |-> IF d = point THEN {}
                        ELSE IF d \in G[point] THEN squash[point] ELSE squash[d]]

NewSquash_NotCleared(point) ==
    [d \in DOMAIN G |-> squash[d] \cup IF d \in G[point] THEN squash[point] ELSE {}]

\* What an ordinary point has collected goes to its dependencies.
NewSquash(point) ==
    [d \in DOMAIN G |-> IF d = point THEN {}
                        ELSE squash[d] \cup IF d \in G[point] THEN squash[point] ELSE {}]

\* One point of process_endpoints.  A setscene task keeps what was collected
\* for it; an ordinary one is covered by the tasks it collected and hands
\* them to its dependencies, which are due when nothing above them is left.
\* (The code keeps with a point also what its user was reached with, and hands
\* that on once more; it has been handed on already.)
ProcessEndpoint(point) ==
    /\ phase = "squash"
    /\ point \in points
    /\ points' = points \ {point}
    /\ IF point \in SS
         THEN UNCHANGED <<next, revdeps_left, squash, collated>>
         ELSE /\ collated' = [t \in DOMAIN G |->
                    collated[t] \cup IF t \in squash[point] THEN {point} ELSE {}]
              /\ revdeps_left' = [d \in DOMAIN G |->
                    revdeps_left[d] \ IF d \in G[point] THEN {point} ELSE {}]
              /\ squash' = NewSquash(point)
              /\ next' = next \cup {d \in G[point] \ SS : revdeps_left'[d] = {}}
    /\ UNCHANGED <<in, G, phase, deps_left, unskip>>

\* The recursive call of process_endpoints.
EndpointRound ==
    /\ phase = "squash"
    /\ points = {}
    /\ next # {}
    /\ points' = next
    /\ next' = {}
    /\ UNCHANGED <<in, G, phase, deps_left, revdeps_left, squash, collated, unskip>>

\* The search for unskippable tasks starts at the ends of the build and at the
\* targets without a setscene variant (cantskip).
EndpointsDone ==
    /\ phase = "squash"
    /\ points = {}
    /\ next = {}
    /\ phase' = "unskippable"
    /\ unskip' = {t \in DOMAIN G : revdeps(G, t) = {}} \cup ((in.targets \cap DOMAIN G) \ SS)
    /\ UNCHANGED <<in, G, points, next, deps_left, revdeps_left, squash, collated>>

\* A round adds the dependencies of the ordinary ones among those known before.
\* (That ordinary ones without dependencies may start at once is in RunQueue.)
MoreUnskippable == unskip \cup UNION {G[t] : t \in unskip \ SS}

UnskippableRound ==
    /\ phase = "unskippable"
    /\ MoreUnskippable # unskip
    /\ unskip' = MoreUnskippable
    /\ UNCHANGED <<in, G, phase, points, next, deps_left, revdeps_left, squash, collated>>

\* A round that adds nothing is the last.  Then the sanity check: nothing may be
\* left on an ordinary task.
UnskippableDone ==
    /\ phase = "unskippable"
    /\ MoreUnskippable = unskip
    /\ phase' = IF \E t \in DOMAIN G \ SS : squash[t] # {} THEN "wrong" ELSE "hard"
    /\ points' = SS
    /\ UNCHANGED <<in, G, next, deps_left, revdeps_left, squash, collated, unskip>>

\* The tasks named in the [depends] flag of the setscene variant of tid.
Named(tid) == {d \in DOMAIN in.harddeps : tid \in in.harddeps[d]}

\* Mutant: no zeroing.
AddNamed_NotZeroed(tid, named) ==
    [t \in DOMAIN G |-> squash[t] \cup IF t = tid THEN named ELSE {}]

\* "Have to zero this to avoid circular dependencies"
AddNamed(tid, named) ==
    [t \in DOMAIN G |-> IF t \in named THEN {}
                        ELSE squash[t] \cup IF t = tid THEN named ELSE {}]

\* The [depends] flags of the setscene variant of one task.  The task waits
\* for what it names, and what it names waits for nobody any more.  To name a
\* task that is not active is fatal.
HardDepends(tid) ==
    /\ phase = "hard"
    /\ tid \in points
    /\ IF Named(tid) \subseteq DOMAIN G
         THEN squash' = AddNamed(tid, Named(tid)) /\ phase' = phase
         ELSE UNCHANGED squash /\ phase' = "nonexistent"
    /\ points' = points \ {tid}
    /\ UNCHANGED <<in, G, next, deps_left, revdeps_left, collated, unskip>>

\* Zeroing may have removed a dependency just added: they are all added again.
HardDependsDone ==
    /\ phase = "hard"
    /\ points = {}
    /\ phase' = "done"
    /\ squash' = [t \in DOMAIN G |-> squash[t] \cup IF t \in SS THEN Named(t) ELSE {}]
    /\ UNCHANGED <<in, G, points, next, deps_left, revdeps_left, collated, unskip>>

Next ==
    \/ \E t \in DOMAIN G : Weigh(t) \/ ProcessEndpoint(t) \/ HardDepends(t)
    \/ WeighRound \/ WeightsDone
    \/ EndpointRound \/ EndpointsDone \/ UnskippableRound \/ UnskippableDone
    \/ HardDependsDone

\* prepare and build_scenequeue_data run to their end in one call.
Spec == Init /\ [][Next]_vars /\ WF_vars(Next)

-----------------------------------------------------------------------------
(* Properties                                                              *)

\* calculate_task_weights "sanity checks the task list finding tasks that are
\* not possible to execute due to circular dependencies": a graph is refused
\* exactly when it has a loop, of whatever length.
LoopsRefused ==
    /\ phase = "circular" => ~Acyclic(G)
    /\ phase \in {"squash", "unskippable", "hard", "done"} => Acyclic(G)

\* build_scenequeue_data "aims to collapse the huge runqueue dependency tree
\* into a smaller one only containing the setscene functions": whatever the
\* order of its work lists, it computes for every setscene task the tasks it
\* covers and the tasks it waits for, and which tasks cannot be skipped.
SceneDataRight ==
    LET H == [d \in DOMAIN G |-> in.harddeps[d] \cap SS]
    IN  phase = "done" =>
            /\ \A s \in SS : /\ squash[s] = sq_revdeps(G, SS, H, s)
                             /\ collated[s] = sq_covered_tasks(G, SS, s)
            /\ unskip = unskippable(G, SS, in.targets \cap DOMAIN G)

\* "Have to zero this to avoid circular dependencies": setscene tasks never
\* wait for each other in a circle, although a [depends] flag may point against
\* the direction in which the setscene tasks wait otherwise.
NoSceneDeadlock == phase = "done" => Acyclic([s \in SS |-> squash[s] \cap SS])

\* Preparation ends, with a graph that can be built or a report of the loop or
\* of the flag that names no active task, and never in "Something went badly
\* wrong during scenequeue generation".
Prepared == <>(phase \in {"done", "circular", "nonexistent"})
=============================================================================
