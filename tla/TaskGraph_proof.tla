--------------------------- MODULE TaskGraph_proof ---------------------------
(***************************************************************************)
(* Proofs about TaskGraph: for every finite graph of tasks, every choice   *)
(* of setscene tasks, targets and [depends] flags, and every order in      *)
(* which the work lists are processed, loops are found and the graph of    *)
(* setscene tasks is the right one.                                        *)
(***************************************************************************)
EXTENDS TaskGraph, SceneGraph_proof

-----------------------------------------------------------------------------
(* The inductive invariant                                                 *)

GraphInv == /\ in \in Inputs /\ IsGraph(G) /\ IsFiniteSet(DOMAIN G)
            /\ DOMAIN G \subseteq DOMAIN in.harddeps

\* The tasks calculate_task_weights has dealt with.
Weighed == {t \in DOMAIN G : deps_left[t] = 0} \ (points \cup next)

\* A task is due when all its users are dealt with, and one that is dealt with
\* is not on a loop: its users are dealt with, what it reaches is not.
WeightsInv == phase = "weights" =>
    /\ points \cup next \subseteq {t \in DOMAIN G : deps_left[t] = 0}
    /\ points \cap next = {}
    /\ deps_left = [t \in DOMAIN G |-> Cardinality(revdeps(G, t) \ Weighed)]
    /\ \A t \in Weighed : t \notin Reach(G, {}, G[t])
    /\ revdeps_left = [t \in DOMAIN G |-> revdeps(G, t)]
    /\ collated = Empty

\* What the search from the setscene task s has reached so far: the tasks it
\* covers, and those s is handed to and that are not processed yet.
Collected(s) == collated[s] \cup {t \in DOMAIN G : s \in squash[t]}

SquashTypes == phase = "squash" =>
    /\ points \cup next \subseteq DOMAIN G
    /\ squash \in [DOMAIN G -> SUBSET SS]
    /\ collated \in [DOMAIN G -> SUBSET (DOMAIN G \ SS)]
    /\ revdeps_left \in [DOMAIN G -> SUBSET DOMAIN G]
    /\ \A t \in DOMAIN G : revdeps_left[t] \subseteq revdeps(G, t) \ SS

\* The search goes nowhere else, and forgets nothing.
SquashInv == phase = "squash" => \A s \in SS :
    /\ Collected(s) \subseteq Reach(G, SS, G[s])
    /\ G[s] \subseteq Collected(s)
    /\ \A p \in collated[s] : G[p] \subseteq Collected(s)

\* An ordinary task is due, waits for an ordinary user, or is dealt with.
PendingInv == phase = "squash" => \A t \in DOMAIN G \ SS :
    \/ t \in points \cup next
    \/ revdeps_left[t] # {}
    \/ squash[t] = {} /\ \A d \in DOMAIN G : t \notin revdeps_left[d]

Needed == unskippable(G, SS, in.targets \cap DOMAIN G)

\* The setscene graph is ready but for the flags, and the search for unskippable
\* tasks has found where it starts and goes nowhere else.
SkipInv == phase = "unskippable" =>
    /\ DOMAIN squash = DOMAIN G
    /\ \A t \in DOMAIN G \ SS : squash[t] = {}
    /\ \A s \in SS : /\ collated[s] = sq_covered_tasks(G, SS, s)
                     /\ squash[s] = SoftRevdeps(G, SS, s)
    /\ {t \in DOMAIN G : revdeps(G, t) = {}} \cup ((in.targets \cap DOMAIN G) \ SS) \subseteq unskip
    /\ unskip \subseteq Needed

\* A task that a processed one names waits for nobody but those it names.
HardInv == phase = "hard" =>
    /\ points \subseteq SS
    /\ unskip = Needed
    /\ \A s \in SS \ points : Named(s) \subseteq DOMAIN G
    /\ \A s \in SS :
         /\ collated[s] = sq_covered_tasks(G, SS, s)
         /\ squash[s] \subseteq Named(s) \cup SoftRevdeps(G, SS, s)
         /\ IF in.harddeps[s] \cap (SS \ points) # {}
              THEN squash[s] \subseteq Named(s)
              ELSE SoftRevdeps(G, SS, s) \subseteq squash[s]
    /\ DOMAIN squash = DOMAIN G

PhaseInv == phase \in {"weights", "squash", "unskippable", "hard", "done",
                       "circular", "nonexistent"}

IInv == /\ GraphInv /\ PhaseInv /\ LoopsRefused /\ WeightsInv
        /\ SquashTypes /\ SquashInv /\ PendingInv /\ SkipInv /\ HardInv /\ SceneDataRight

-----------------------------------------------------------------------------
(* The initial state                                                       *)

\* What is left after pruning is a graph.
LEMMA InitGraph == Init => GraphInv
<1> SUFFICES ASSUME Init PROVE GraphInv
  OBVIOUS
<1> DEFINE D == in.depends
           A == ActiveTasks(D, in.targets)
<1>1. in \in Inputs /\ G = [t \in A |-> D[t]]
  BY DEF Init, Pruned
<1>2. IsGraph(D) /\ IsFiniteSet(DOMAIN D)
  BY <1>1, InputsAssumption DEF IsGraph
<1>3. A \in SUBSET DOMAIN D /\ Closed(D, {}, A)
  <2> HIDE DEF D
  <2> QED
    BY <1>2, ReachDomain, ReachClosed DEF ActiveTasks
<1>4. IsGraph(G)
  <2> HIDE DEF A, D
  <2> QED
    BY <1>1, <1>3 DEF IsGraph, Closed
<1>5. IsFiniteSet(DOMAIN G)
  <2> HIDE DEF A, D
  <2> QED
    BY <1>1, <1>2, <1>3, FS_Subset
<1>6. DOMAIN G \subseteq DOMAIN in.harddeps
  <2>1. DOMAIN in.harddeps = DOMAIN D
    BY <1>1, InputsAssumption
  <2> HIDE DEF A, D
  <2> QED
    BY <1>1, <1>3, <2>1
<1> QED
  BY <1>1, <1>4, <1>5, <1>6 DEF GraphInv

\* The users of a task are finitely many.
LEMMA RevdepsFinite ==
  ASSUME GraphInv, NEW t, NEW S
  PROVE  /\ IsFiniteSet(revdeps(G, t) \ S)
         /\ Cardinality(revdeps(G, t) \ S) \in Nat
         /\ Cardinality(revdeps(G, t) \ S) = 0 <=> revdeps(G, t) \ S = {}
<1>1. revdeps(G, t) \ S \in SUBSET DOMAIN G
  BY DEF revdeps
<1>2. IsFiniteSet(revdeps(G, t) \ S)
  BY <1>1, FS_Subset DEF GraphInv
<1> QED
  BY <1>2, FS_CardinalityType, FS_EmptySet

LEMMA InvInit == Init => IInv
<1> SUFFICES ASSUME Init PROVE IInv
  OBVIOUS
<1>1. GraphInv
  BY InitGraph
<1>2. phase \in {"circular", "weights"}
  BY DEF Init
<1>3. LoopsRefused
  <2> SUFFICES ASSUME phase = "circular" PROVE ~Acyclic(G)
    BY <1>2 DEF LoopsRefused
  <2>1. PICK t \in DOMAIN G : G[t] \cap revdeps(G, t) # {}
    BY DEF Init
  <2>2. PICK u \in G[t] : u \in DOMAIN G /\ t \in G[u]
    BY <2>1 DEF revdeps
  <2>3. u \in Reach(G, {}, G[t])
    BY <1>1, ReachDomain DEF GraphInv, IsGraph
  <2>4. t \in Reach(G, {}, G[t])
    BY <1>1, <2>2, <2>3, ReachClosed DEF GraphInv, Closed
  <2> QED
    BY <2>4 DEF Acyclic
<1>4. WeightsInv
  <2>1. /\ points = {t \in DOMAIN G : revdeps(G, t) = {}} /\ next = {}
        /\ deps_left = [t \in DOMAIN G |-> Cardinality(revdeps(G, t))]
        /\ revdeps_left = [t \in DOMAIN G |-> revdeps(G, t)] /\ collated = Empty
    BY DEF Init
  <2>2. ASSUME NEW t \in DOMAIN G PROVE deps_left[t] = 0 <=> t \in points
    <3>1. revdeps(G, t) \ {} = revdeps(G, t)
      OBVIOUS
    <3> QED
      BY <1>1, <2>1, <3>1, RevdepsFinite
  <2>3. Weighed = {}
    BY <2>2 DEF Weighed
  <2>4. \A t \in DOMAIN G : revdeps(G, t) \ Weighed = revdeps(G, t)
    BY <2>3
  <2> QED
    BY <2>1, <2>2, <2>3, <2>4 DEF WeightsInv
<1> QED
  BY <1>1, <1>2, <1>3, <1>4
     DEF IInv, PhaseInv, SquashTypes, SquashInv, PendingInv, SkipInv, HardInv, SceneDataRight

-----------------------------------------------------------------------------
(* calculate_task_weights                                                  *)

\* One task is weighed.
LEMMA WeighInv ==
  ASSUME IInv, NEW tid \in DOMAIN G, Weigh(tid)
  PROVE  IInv'
<1>1. /\ phase = "weights" /\ tid \in points
      /\ deps_left' = [d \in DOMAIN G |-> deps_left[d] - IF d \in G[tid] THEN 1 ELSE 0]
      /\ points' = points \ {tid}
      /\ next' = next \cup {d \in G[tid] : deps_left'[d] = 0}
      /\ UNCHANGED <<in, G, phase, revdeps_left, squash, collated, unskip>>
  BY DEF Weigh
<1>2. /\ points \cup next \subseteq {t \in DOMAIN G : deps_left[t] = 0} /\ points \cap next = {}
      /\ \A t \in DOMAIN G : deps_left[t] = Cardinality(revdeps(G, t) \ Weighed)
      /\ \A t \in Weighed : t \notin Reach(G, {}, G[t])
  BY <1>1 DEF IInv, WeightsInv
<1>3. /\ GraphInv /\ IsGraph(G) /\ G[tid] \subseteq DOMAIN G
      /\ \A t \in DOMAIN G : deps_left[t] \in Nat
      /\ \A t \in DOMAIN G : deps_left[t] = 0 <=> revdeps(G, t) \ Weighed = {}
  <2>1. GraphInv /\ IsGraph(G) /\ G[tid] \subseteq DOMAIN G
    BY DEF IInv, GraphInv, IsGraph
  <2>2. ASSUME NEW t \in DOMAIN G
        PROVE  deps_left[t] \in Nat /\ (deps_left[t] = 0 <=> revdeps(G, t) \ Weighed = {})
    <3> DEFINE R == revdeps(G, t) \ Weighed
    <3>1. Cardinality(R) \in Nat /\ (Cardinality(R) = 0 <=> R = {})
      BY <2>1, RevdepsFinite
    <3>2. deps_left[t] = Cardinality(R)
      BY <1>2
    <3> HIDE DEF R
    <3>3. deps_left[t] \in Nat /\ (deps_left[t] = 0 <=> R = {})
      BY <3>1, <3>2
    <3> QED
      BY <3>3 DEF R
  <2> QED
    BY <2>1, <2>2
<1>4. tid \notin Weighed /\ tid \in DOMAIN G /\ deps_left[tid] = 0
  BY <1>1, <1>2 DEF Weighed
<1>5. \A d \in G[tid] : tid \in revdeps(G, d) \ Weighed /\ deps_left[d] # 0
  BY <1>3, <1>4 DEF revdeps
<1>6. Weighed' = Weighed \cup {tid}
  <2>1. \A d \in DOMAIN G : deps_left'[d] = 0 <=> deps_left[d] = 0 \/ d \in next' \ next
    BY <1>1, <1>2, <1>3, <1>5
  <2>2. tid \notin next'
    BY <1>1, <1>2, <1>4, <1>5
  <2> QED
    BY <1>1, <1>2, <1>4, <2>1, <2>2 DEF Weighed
<1>7. ASSUME NEW d \in DOMAIN G
      PROVE  deps_left'[d] = Cardinality(revdeps(G, d) \ Weighed')
  <2> DEFINE R == revdeps(G, d) \ Weighed
  <2>1. revdeps(G, d) \ Weighed' = R \ {tid} /\ (tid \in R <=> d \in G[tid])
    BY <1>4, <1>6 DEF revdeps
  <2>2. IsFiniteSet(R) /\ Cardinality(R) \in Nat /\ deps_left[d] = Cardinality(R)
    BY <1>2, <1>3, RevdepsFinite
  <2> HIDE DEF R
  <2>3. Cardinality(R \ {tid}) = IF tid \in R THEN Cardinality(R) - 1 ELSE Cardinality(R)
    BY <2>2, FS_RemoveElement
  <2>4. deps_left'[d] = Cardinality(R \ {tid})
    BY <1>1, <2>1, <2>2, <2>3
  <2> QED
    BY <2>1, <2>4
<1>8. tid \notin Reach(G, {}, G[tid])
  <2> DEFINE C == DOMAIN G \ (Weighed \cup {tid})
  <2>1. \A u \in DOMAIN G : tid \in G[u] => u \in Weighed
    BY <1>3, <1>4 DEF revdeps
  <2>2. ASSUME NEW u \in DOMAIN G, NEW t \in Weighed, t \in G[u] PROVE u \in Weighed
    <3>1. t \in DOMAIN G /\ revdeps(G, t) \ Weighed = {}
      BY <1>3 DEF Weighed
    <3> QED
      BY <2>2, <3>1 DEF revdeps
  <2>3. C \in SUBSET DOMAIN G /\ G[tid] \subseteq C
    BY <1>3, <1>4, <2>1, <2>2
  <2>4. Closed(G, {}, C)
    BY <1>3, <2>1, <2>2 DEF Closed, IsGraph
  <2>5. tid \notin C
    OBVIOUS
  <2> HIDE DEF C
  <2>6. Reach(G, {}, G[tid]) \subseteq C
    BY <2>3, <2>4, ReachLeast
  <2> QED
    BY <2>5, <2>6
<1>9. WeightsInv'
  <2>1. points' \cup next' \subseteq {t \in DOMAIN G : deps_left'[t] = 0}
    BY <1>1, <1>2, <1>3, <1>5
  <2>2. points' \cap next' = {}
    BY <1>1, <1>2, <1>5
  <2>3. deps_left' = [t \in DOMAIN G |-> Cardinality(revdeps(G, t) \ Weighed')]
    BY <1>1, <1>7
  <2>4. \A t \in Weighed' : t \notin Reach(G, {}, G[t])
    BY <1>2, <1>6, <1>8
  <2>5. /\ revdeps_left' = [t \in DOMAIN G |-> revdeps(G, t)] /\ collated' = Empty
    BY <1>1 DEF IInv, WeightsInv
  <2>6. G' = G /\ Empty' = Empty
    BY <1>1 DEF Empty
  <2> QED
    BY <2>1, <2>2, <2>3, <2>4, <2>5, <2>6 DEF WeightsInv
<1>10. GraphInv' /\ PhaseInv' /\ LoopsRefused'
  BY <1>1 DEF IInv, GraphInv, PhaseInv, LoopsRefused, IsGraph, Acyclic
<1> QED
  BY <1>1, <1>9, <1>10
     DEF IInv, SquashTypes, SquashInv, PendingInv, SkipInv, HardInv, SceneDataRight

\* The next round begins.
LEMMA WeighRoundInv == IInv /\ WeighRound => IInv'
<1> SUFFICES ASSUME IInv, WeighRound PROVE IInv'
  OBVIOUS
<1>1. /\ phase = "weights" /\ points = {} /\ points' = next /\ next' = {}
      /\ UNCHANGED <<in, G, phase, deps_left, revdeps_left, squash, collated, unskip>>
  BY DEF WeighRound
<1>2. Weighed' = Weighed /\ Empty' = Empty
  BY <1>1 DEF Weighed, Empty
<1>3. WeightsInv'
  BY <1>1, <1>2 DEF IInv, WeightsInv
<1>4. GraphInv' /\ PhaseInv' /\ LoopsRefused'
  BY <1>1 DEF IInv, GraphInv, PhaseInv, LoopsRefused, IsGraph, Acyclic
<1> QED
  BY <1>1, <1>3, <1>4
     DEF IInv, SquashTypes, SquashInv, PendingInv, SkipInv, HardInv, SceneDataRight

\* The rounds are over: the tasks not reached each have a user that was not
\* reached, and there are such tasks only in a graph with loops.
LEMMA WeightsDoneInv == IInv /\ WeightsDone => IInv'
<1> SUFFICES ASSUME IInv, WeightsDone PROVE IInv'
  OBVIOUS
<1>1. /\ phase = "weights" /\ points = {} /\ next = {}
      /\ UNCHANGED <<in, G, next, deps_left, collated, unskip>>
  BY DEF WeightsDone
<1>2. GraphInv /\ IsGraph(G) /\ IsFiniteSet(DOMAIN G) /\ GraphInv'
  BY <1>1 DEF IInv, GraphInv, IsGraph
<1>3. Weighed = DOMAIN G \ Unreached /\ Unreached \in SUBSET DOMAIN G
  BY <1>1 DEF Weighed, Unreached
<1>4. SS' = SS /\ SS \subseteq DOMAIN G
  BY <1>1 DEF SS
<1>5. CASE Unreached # {}
  <2>1. phase' = "circular"
    BY <1>5 DEF WeightsDone
  <2>2. ASSUME NEW t \in Unreached PROVE \E u \in Unreached : t \in G[u]
    <3>1. t \in DOMAIN G /\ deps_left[t] # 0 /\ deps_left[t] = Cardinality(revdeps(G, t) \ Weighed)
      BY <1>1 DEF Unreached, IInv, WeightsInv
    <3>2. revdeps(G, t) \ Weighed # {}
      <4> HIDE DEF Weighed
      <4> QED
        BY <1>2, <3>1, RevdepsFinite
    <3> QED
      BY <1>3, <3>2 DEF revdeps
  <2>3. ~Acyclic(G)
    BY <1>2, <1>3, <1>5, <2>2, SomeTaskOnTop
  <2>4. LoopsRefused'
    BY <1>1, <2>1, <2>3 DEF LoopsRefused, Acyclic
  <2> QED
    BY <1>2, <2>1, <2>4 DEF IInv, PhaseInv, WeightsInv, SquashTypes, SquashInv,
                            PendingInv, SkipInv, HardInv, SceneDataRight
<1>6. CASE Unreached = {}
  <2>1. /\ phase' = "squash"
        /\ points' = {t \in DOMAIN G \ SS : revdeps(G, t) = {}} \cup UNION {G[s] : s \in SS}
        /\ revdeps_left' = [t \in DOMAIN G |-> revdeps_left[t] \ SS]
        /\ squash' = [t \in DOMAIN G |-> revdeps(G, t) \cap SS]
        /\ next' = {} /\ collated' = [t \in DOMAIN G |-> {}] /\ G' = G /\ SS' = SS
    BY <1>1, <1>4, <1>6 DEF WeightsDone, IInv, WeightsInv, Empty
  <2>2. \A t \in DOMAIN G : revdeps_left'[t] = revdeps(G, t) \ SS
    BY <1>1, <2>1 DEF IInv, WeightsInv
  <2>3. LoopsRefused'
    <3>1. Acyclic(G)
      BY <1>1, <1>3, <1>6 DEF IInv, WeightsInv, Acyclic
    <3> QED
      BY <2>1, <3>1 DEF LoopsRefused, Acyclic
  <2>4. SquashTypes'
    <3>1. points' \cup next' \subseteq DOMAIN G
      BY <1>2, <1>4, <2>1 DEF IsGraph
    <3>2. squash' \in [DOMAIN G -> SUBSET SS] /\ collated' \in [DOMAIN G -> SUBSET (DOMAIN G \ SS)]
      BY <2>1
    <3>3. revdeps_left' \in [DOMAIN G -> SUBSET DOMAIN G]
      BY <2>1, <2>2 DEF revdeps
    <3> QED
      BY <2>1, <2>2, <3>1, <3>2, <3>3 DEF SquashTypes
  <2>5. SquashInv'
    <3> SUFFICES ASSUME NEW s \in SS
                 PROVE  /\ Collected(s)' = G[s]
                        /\ G[s] \subseteq Reach(G, SS, G[s])
                        /\ collated'[s] = {}
      BY <2>1 DEF SquashInv
    <3>1. G[s] \subseteq DOMAIN G
      BY <1>2, <1>4 DEF IsGraph
    <3>2. Collected(s)' = G[s]
      BY <1>4, <2>1, <3>1 DEF Collected, revdeps
    <3> QED
      BY <1>4, <2>1, <3>1, <3>2, ReachDomain
  <2>6. PendingInv'
    <3> SUFFICES ASSUME NEW t \in DOMAIN G \ SS, revdeps_left'[t] = {} PROVE t \in points'
      BY <2>1 DEF PendingInv
    <3>1. revdeps(G, t) \subseteq SS
      BY <2>2
    <3> QED
      BY <2>1, <3>1 DEF revdeps
  <2> QED
    BY <1>2, <2>1, <2>3, <2>4, <2>5, <2>6
       DEF IInv, PhaseInv, WeightsInv, SkipInv, HardInv, SceneDataRight
<1> QED
  BY <1>5, <1>6

-----------------------------------------------------------------------------
(* build_scenequeue_data                                                   *)

\* A point is processed.
LEMMA ProcessEndpointInv ==
  ASSUME IInv, NEW point \in DOMAIN G, ProcessEndpoint(point)
  PROVE  IInv'
<1>1. /\ phase = "squash" /\ point \in points /\ points' = points \ {point}
      /\ UNCHANGED <<in, G, phase, deps_left, unskip>>
  BY DEF ProcessEndpoint
<1>2. GraphInv' /\ PhaseInv' /\ LoopsRefused' /\ SS' = SS /\ IsGraph(G)
  BY <1>1 DEF IInv, GraphInv, PhaseInv, LoopsRefused, IsGraph, Acyclic, SS
<1>3. /\ points \cup next \subseteq DOMAIN G
      /\ squash \in [DOMAIN G -> SUBSET SS]
      /\ collated \in [DOMAIN G -> SUBSET (DOMAIN G \ SS)]
      /\ revdeps_left \in [DOMAIN G -> SUBSET DOMAIN G]
      /\ \A t \in DOMAIN G : revdeps_left[t] \subseteq revdeps(G, t) \ SS
      /\ SS \subseteq DOMAIN G /\ G[point] \subseteq DOMAIN G
  BY <1>1, <1>2 DEF IInv, SquashTypes, SS, IsGraph
<1>4. SquashTypes' /\ SquashInv' /\ PendingInv'
  <2>1. CASE point \in SS
    <3>1. UNCHANGED <<next, revdeps_left, squash, collated>>
      BY <2>1 DEF ProcessEndpoint
    <3>2. SquashTypes'
      BY <1>1, <1>2, <1>3, <3>1 DEF SquashTypes
    <3>3. SquashInv'
      BY <1>1, <1>2, <3>1 DEF IInv, SquashInv, Collected
    <3>4. PendingInv'
      BY <1>1, <1>2, <2>1, <3>1 DEF IInv, PendingInv
    <3> QED
      BY <3>2, <3>3, <3>4
  <2>2. CASE point \notin SS
    <3>1. /\ collated' = [t \in DOMAIN G |->
                collated[t] \cup IF t \in squash[point] THEN {point} ELSE {}]
          /\ revdeps_left' = [d \in DOMAIN G |->
                revdeps_left[d] \ IF d \in G[point] THEN {point} ELSE {}]
          /\ squash' = [d \in DOMAIN G |-> IF d = point THEN {}
                        ELSE squash[d] \cup IF d \in G[point] THEN squash[point] ELSE {}]
          /\ next' = next \cup {d \in G[point] \ SS : revdeps_left'[d] = {}}
      BY <2>2 DEF ProcessEndpoint, NewSquash
    <3>2. SquashTypes'
      <4>1. points' \cup next' \subseteq DOMAIN G
        BY <1>1, <1>3, <3>1
      <4>2. squash' \in [DOMAIN G -> SUBSET SS]
        BY <1>3, <3>1
      <4>3. collated' \in [DOMAIN G -> SUBSET (DOMAIN G \ SS)]
        BY <1>3, <2>2, <3>1
      <4>4. \A t \in DOMAIN G : revdeps_left'[t] \subseteq revdeps_left[t]
        BY <3>1
      <4>5. revdeps_left' \in [DOMAIN G -> SUBSET DOMAIN G]
        BY <1>3, <3>1
      <4> QED
        BY <1>1, <1>2, <1>3, <4>1, <4>2, <4>3, <4>4, <4>5 DEF SquashTypes
    <3>3. SquashInv'
      <4> SUFFICES ASSUME NEW s \in SS
                   PROVE  /\ Collected(s)' \subseteq Reach(G, SS, G[s])
                          /\ G[s] \subseteq Collected(s)'
                          /\ \A p \in collated'[s] : G[p] \subseteq Collected(s)'
        BY <1>1, <1>2 DEF SquashInv
      <4>1. /\ Collected(s) \subseteq Reach(G, SS, G[s]) /\ G[s] \subseteq Collected(s)
            /\ \A p \in collated[s] : G[p] \subseteq Collected(s)
        BY <1>1 DEF IInv, SquashInv
      <4>2. s \in DOMAIN G
        BY <1>3
      <4>3. CASE s \notin squash[point]
        <5>1. collated'[s] = collated[s] /\ Collected(s)' = Collected(s)
          BY <1>1, <1>3, <3>1, <4>2, <4>3 DEF Collected
        <5> QED
          BY <4>1, <5>1
      <4>4. CASE s \in squash[point]
        <5>1. collated'[s] = collated[s] \cup {point}
          BY <3>1, <4>2, <4>4
        <5>2. Collected(s)' = Collected(s) \cup {point} \cup G[point]
          BY <1>1, <1>3, <3>1, <4>4, <5>1 DEF Collected
        <5>3. point \in Reach(G, SS, G[s])
          BY <4>1, <4>4 DEF Collected
        <5>4. G[point] \subseteq Reach(G, SS, G[s])
          BY <1>2, <2>2, <5>3, ReachClosed DEF Closed
        <5> QED
          BY <4>1, <5>1, <5>2, <5>3, <5>4
      <4> QED
        BY <4>3, <4>4
    <3>4. PendingInv'
      <4> SUFFICES ASSUME NEW t \in DOMAIN G \ SS, t \notin points' \cup next', revdeps_left'[t] = {}
                   PROVE  squash'[t] = {} /\ \A d \in DOMAIN G : t \notin revdeps_left'[d]
        BY <1>1, <1>2 DEF PendingInv
      <4>1. t \notin G[point]
        BY <3>1
      <4>2. CASE t = point
        BY <1>3, <3>1, <4>2 DEF revdeps
      <4>3. CASE t # point
        <5>1. t \notin points \cup next /\ revdeps_left[t] = {}
          BY <1>1, <3>1, <4>1, <4>3
        <5>2. squash[t] = {} /\ \A d \in DOMAIN G : t \notin revdeps_left[d]
          BY <1>1, <5>1 DEF IInv, PendingInv
        <5> QED
          BY <3>1, <4>1, <4>3, <5>2
      <4> QED
        BY <4>2, <4>3
    <3> QED
      BY <3>2, <3>3, <3>4
  <2> QED
    BY <2>1, <2>2
<1> QED
  BY <1>1, <1>2, <1>4 DEF IInv, WeightsInv, SkipInv, HardInv, SceneDataRight

LEMMA EndpointRoundInv == IInv /\ EndpointRound => IInv'
<1> SUFFICES ASSUME IInv, EndpointRound PROVE IInv'
  OBVIOUS
<1>1. /\ phase = "squash" /\ points = {} /\ points' = next /\ next' = {}
      /\ UNCHANGED <<in, G, phase, deps_left, revdeps_left, squash, collated, unskip>>
  BY DEF EndpointRound
<1>2. GraphInv' /\ PhaseInv' /\ LoopsRefused' /\ SS' = SS
  BY <1>1 DEF IInv, GraphInv, PhaseInv, LoopsRefused, IsGraph, Acyclic, SS
<1>3. SquashTypes'
  BY <1>1, <1>2 DEF IInv, SquashTypes
<1>4. SquashInv'
  BY <1>1, <1>2 DEF IInv, SquashInv, Collected
<1>5. PendingInv'
  BY <1>1, <1>2 DEF IInv, PendingInv
<1> QED
  BY <1>1, <1>2, <1>3, <1>4, <1>5 DEF IInv, WeightsInv, SkipInv, HardInv, SceneDataRight

\* When the work lists are empty no ordinary task waits for another, so
\* that nothing is left on one, and the search from every setscene task has
\* reached all there is.
LEMMA EndpointsDoneInv == IInv /\ EndpointsDone => IInv'
<1> SUFFICES ASSUME IInv, EndpointsDone PROVE IInv'
  OBVIOUS
<1>1. /\ phase = "squash" /\ points = {} /\ next = {} /\ phase' = "unskippable"
      /\ unskip' = {t \in DOMAIN G : revdeps(G, t) = {}} \cup ((in.targets \cap DOMAIN G) \ SS)
      /\ UNCHANGED <<in, G, points, next, deps_left, revdeps_left, squash, collated>>
  BY DEF EndpointsDone
<1>2. /\ GraphInv' /\ SS' = SS /\ IsGraph(G) /\ IsFiniteSet(DOMAIN G) /\ Acyclic(G)
      /\ SS \subseteq DOMAIN G
  BY <1>1 DEF IInv, GraphInv, LoopsRefused, IsGraph, SS
<1>3. \A t \in DOMAIN G \ SS : squash[t] = {}
  <2> DEFINE B == {t \in DOMAIN G \ SS : revdeps_left[t] # {}}
  <2>1. ASSUME NEW t \in B PROVE \E u \in B : t \in G[u]
    <3>1. PICK u \in revdeps_left[t] : TRUE
      OBVIOUS
    <3>2. u \in DOMAIN G \ SS /\ t \in G[u]
      BY <1>1 DEF IInv, SquashTypes, revdeps
    <3>3. u \in B
      BY <1>1, <3>1, <3>2 DEF IInv, PendingInv
    <3> QED
      BY <3>2, <3>3
  <2>2. B \in SUBSET DOMAIN G
    OBVIOUS
  <2>3. B = {}
    <3> HIDE DEF B
    <3> QED
      BY <1>2, <2>1, <2>2, SomeTaskOnTop
  <2> QED
    BY <1>1, <2>3 DEF IInv, PendingInv
<1>4. unskip' \subseteq Needed
  <2> DEFINE X == {t \in DOMAIN G : revdeps(G, t) = {}} \cup ((in.targets \cap DOMAIN G) \ SS)
  <2>1. X \subseteq DOMAIN G /\ unskip' = X /\ Needed = Reach(G, SS, X)
    BY <1>1 DEF Needed, unskippable
  <2> HIDE DEF X
  <2> QED
    BY <2>1, ReachDomain
<1>5. ASSUME NEW s \in SS
      PROVE  Collected(s) = Reach(G, SS, G[s])
  <2>1. /\ Collected(s) \subseteq Reach(G, SS, G[s]) /\ G[s] \subseteq Collected(s)
        /\ \A p \in collated[s] : G[p] \subseteq Collected(s)
    BY <1>1 DEF IInv, SquashInv
  <2>2. Collected(s) \in SUBSET DOMAIN G
    BY <2>1, ReachDomain
  <2>3. Collected(s) \ SS \subseteq collated[s]
    BY <1>3 DEF Collected
  <2>4. Closed(G, SS, Collected(s))
    BY <2>1, <2>3 DEF Closed
  <2>5. Reach(G, SS, G[s]) \subseteq Collected(s)
    BY <2>1, <2>2, <2>4, ReachLeast
  <2> QED
    BY <2>1, <2>5
<1>6. /\ squash \in [DOMAIN G -> SUBSET SS]
      /\ collated \in [DOMAIN G -> SUBSET (DOMAIN G \ SS)]
  BY <1>1 DEF IInv, SquashTypes
<1>7. ASSUME NEW s \in SS
      PROVE  collated[s] = sq_covered_tasks(G, SS, s) /\ squash[s] = SoftRevdeps(G, SS, s)
  <2>1. collated[s] = Collected(s) \ SS
    BY <1>2, <1>3, <1>6 DEF Collected
  <2>2. collated[s] = sq_covered_tasks(G, SS, s)
    BY <1>5, <2>1 DEF sq_covered_tasks
  <2>3. ASSUME NEW u \in SS PROVE u \in squash[s] <=> s \in Reach(G, SS, G[u])
    <3>1. s \in Collected(u) <=> u \in squash[s]
      BY <1>2, <1>6 DEF Collected
    <3> QED
      BY <1>5, <3>1
  <2>4. squash[s] \subseteq SS
    BY <1>2, <1>6
  <2>5. squash[s] = SoftRevdeps(G, SS, s)
    BY <2>3, <2>4 DEF SoftRevdeps
  <2> QED
    BY <2>2, <2>5
<1>8. SkipInv'
  <2>1. Needed' = Needed /\ in' = in /\ G' = G /\ SS' = SS
    BY <1>1, <1>2 DEF Needed
  <2>2. DOMAIN squash' = DOMAIN G /\ \A t \in DOMAIN G \ SS : squash'[t] = {}
    BY <1>1, <1>3, <1>6
  <2>3. \A s \in SS : /\ collated'[s] = sq_covered_tasks(G, SS, s)
                      /\ squash'[s] = SoftRevdeps(G, SS, s)
    BY <1>1, <1>7
  <2> QED
    BY <1>1, <1>4, <2>1, <2>2, <2>3 DEF SkipInv
<1>9. PhaseInv' /\ LoopsRefused'
  BY <1>1, <1>2 DEF PhaseInv, LoopsRefused, Acyclic
<1> QED
  BY <1>1, <1>2, <1>8, <1>9
     DEF IInv, WeightsInv, SquashTypes, SquashInv, PendingInv, HardInv, SceneDataRight

\* A round stays within what is to be found.
LEMMA UnskippableRoundInv == IInv /\ UnskippableRound => IInv'
<1> SUFFICES ASSUME IInv, UnskippableRound PROVE IInv'
  OBVIOUS
<1>1. /\ phase = "unskippable" /\ unskip' = unskip \cup UNION {G[t] : t \in unskip \ SS}
      /\ UNCHANGED <<in, G, phase, points, next, deps_left, revdeps_left, squash, collated>>
  BY DEF UnskippableRound, MoreUnskippable
<1>2. /\ GraphInv' /\ PhaseInv' /\ LoopsRefused' /\ SS' = SS /\ Needed' = Needed /\ IsGraph(G)
  BY <1>1 DEF IInv, GraphInv, PhaseInv, LoopsRefused, IsGraph, Acyclic, SS, Needed
<1>3. Closed(G, SS, Needed)
  BY <1>2, ReachClosed DEF Needed, unskippable
<1>4. unskip' \subseteq Needed
  BY <1>1, <1>3 DEF IInv, SkipInv, Closed
<1>5. SkipInv'
  BY <1>1, <1>2, <1>4 DEF IInv, SkipInv
<1> QED
  BY <1>1, <1>2, <1>5
     DEF IInv, WeightsInv, SquashTypes, SquashInv, PendingInv, HardInv, SceneDataRight

\* A round that adds nothing has found a closed set, so all there is; and the
\* sanity check passes.
LEMMA UnskippableDoneInv == IInv /\ UnskippableDone => IInv'
<1> SUFFICES ASSUME IInv, UnskippableDone PROVE IInv'
  OBVIOUS
<1>1. /\ phase = "unskippable" /\ points' = SS
      /\ unskip \cup UNION {G[t] : t \in unskip \ SS} = unskip
      /\ phase' = IF \E t \in DOMAIN G \ SS : squash[t] # {} THEN "wrong" ELSE "hard"
      /\ UNCHANGED <<in, G, next, deps_left, revdeps_left, squash, collated, unskip>>
  BY DEF UnskippableDone, MoreUnskippable
<1>2. phase' = "hard"
  BY <1>1 DEF IInv, SkipInv
<1>3. /\ GraphInv' /\ PhaseInv' /\ LoopsRefused' /\ SS' = SS /\ Needed' = Needed
  BY <1>1, <1>2 DEF IInv, GraphInv, PhaseInv, LoopsRefused, IsGraph, Acyclic, SS, Needed
<1>4. unskip = Needed
  <2> DEFINE X == {t \in DOMAIN G : revdeps(G, t) = {}} \cup ((in.targets \cap DOMAIN G) \ SS)
  <2>1. X \subseteq unskip /\ unskip \subseteq Needed /\ Needed = Reach(G, SS, X)
    BY <1>1 DEF IInv, SkipInv, Needed, unskippable
  <2>2. Closed(G, SS, unskip)
    BY <1>1 DEF Closed
  <2> HIDE DEF X
  <2>3. unskip \in SUBSET DOMAIN G
    BY <2>1, ReachDomain
  <2> QED
    BY <2>1, <2>2, <2>3, ReachLeast
<1>5. HardInv'
  <2>1. in' = in /\ G' = G /\ SS' \ points' = {} /\ points' = SS'
    BY <1>1, <1>3
  <2>2. \A s \in SS : /\ collated'[s] = sq_covered_tasks(G, SS, s)
                      /\ squash'[s] = SoftRevdeps(G, SS, s)
    BY <1>1 DEF IInv, SkipInv
  <2>3. DOMAIN squash' = DOMAIN G /\ unskip' = Needed'
    BY <1>1, <1>3, <1>4 DEF IInv, SkipInv
  <2> QED
    BY <1>3, <2>1, <2>2, <2>3 DEF HardInv
<1> QED
  BY <1>2, <1>3, <1>5
     DEF IInv, WeightsInv, SquashTypes, SquashInv, PendingInv, SkipInv, SceneDataRight

\* The flags of one task.
LEMMA HardDependsInv ==
  ASSUME IInv, NEW tid \in DOMAIN G, HardDepends(tid)
  PROVE  IInv'
<1> SUFFICES ASSUME phase' # "nonexistent" PROVE IInv'
  BY DEF IInv, HardDepends, GraphInv, PhaseInv, LoopsRefused, WeightsInv, SquashTypes,
         SquashInv, PendingInv, SkipInv, HardInv, SceneDataRight
<1>1. /\ phase = "hard" /\ tid \in points /\ points' = points \ {tid}
      /\ squash' = [t \in DOMAIN G |-> IF t \in Named(tid) THEN {}
                        ELSE squash[t] \cup IF t = tid THEN Named(tid) ELSE {}]
      /\ Named(tid) \subseteq DOMAIN G
      /\ UNCHANGED <<in, G, phase, next, deps_left, revdeps_left, collated, unskip>>
  BY DEF HardDepends, AddNamed
<1>2. /\ GraphInv' /\ PhaseInv' /\ LoopsRefused' /\ SS' = SS /\ SS \subseteq DOMAIN G
      /\ Needed' = Needed /\ \A s \in SS : Named(s)' = Named(s)
  BY <1>1 DEF IInv, GraphInv, PhaseInv, LoopsRefused, IsGraph, Acyclic, SS, Named, Needed
<1>3. points \subseteq SS /\ DOMAIN squash = DOMAIN G /\ tid \in SS
  BY <1>1 DEF IInv, HardInv
<1>4. ASSUME NEW s \in SS
      PROVE  /\ squash'[s] \subseteq Named(s) \cup SoftRevdeps(G, SS, s)
             /\ IF in.harddeps[s] \cap (SS \ points') # {}
                  THEN squash'[s] \subseteq Named(s)
                  ELSE SoftRevdeps(G, SS, s) \subseteq squash'[s]
  <2>1. /\ squash[s] \subseteq Named(s) \cup SoftRevdeps(G, SS, s)
        /\ IF in.harddeps[s] \cap (SS \ points) # {}
             THEN squash[s] \subseteq Named(s)
             ELSE SoftRevdeps(G, SS, s) \subseteq squash[s]
    BY <1>1 DEF IInv, HardInv
  <2>2. SS \ points' = (SS \ points) \cup {tid}
    BY <1>1, <1>3
  <2>3. s \in Named(tid) <=> tid \in in.harddeps[s]
    BY <1>2 DEF IInv, GraphInv, Named
  <2>4. CASE s \in Named(tid)
    <3>1. squash'[s] = {} /\ in.harddeps[s] \cap (SS \ points') # {}
      BY <1>1, <1>2, <2>2, <2>3, <2>4
    <3> QED
      BY <3>1
  <2>5. CASE s \notin Named(tid)
    <3>1. squash'[s] = squash[s] \cup IF s = tid THEN Named(s) ELSE {}
      BY <1>1, <1>2, <2>5
    <3>2. in.harddeps[s] \cap (SS \ points') = in.harddeps[s] \cap (SS \ points)
      BY <2>2, <2>3, <2>5
    <3> QED
      BY <2>1, <3>1, <3>2
  <2> QED
    BY <2>4, <2>5
<1>5. HardInv'
  <2>1. points' \subseteq SS /\ DOMAIN squash' = DOMAIN G
    BY <1>1, <1>3
  <2>2. \A s \in SS : collated'[s] = sq_covered_tasks(G, SS, s)
    BY <1>1 DEF IInv, HardInv
  <2>3. in' = in /\ G' = G /\ unskip' = Needed
    BY <1>1 DEF IInv, HardInv
  <2>4. \A s \in SS \ points' : Named(s) \subseteq DOMAIN G
    BY <1>1 DEF IInv, HardInv
  <2> QED
    BY <1>2, <1>4, <2>1, <2>2, <2>3, <2>4 DEF HardInv
<1> QED
  BY <1>1, <1>2, <1>5
     DEF IInv, WeightsInv, SquashTypes, SquashInv, PendingInv, SkipInv, SceneDataRight

LEMMA HardDependsDoneInv == IInv /\ HardDependsDone => IInv'
<1> SUFFICES ASSUME IInv, HardDependsDone PROVE IInv'
  OBVIOUS
<1>1. /\ phase = "hard" /\ points = {} /\ phase' = "done"
      /\ squash' = [t \in DOMAIN G |-> squash[t] \cup IF t \in SS THEN Named(t) ELSE {}]
      /\ UNCHANGED <<in, G, points, next, deps_left, revdeps_left, collated, unskip>>
  BY DEF HardDependsDone
<1>2. /\ GraphInv' /\ PhaseInv' /\ LoopsRefused' /\ SS' = SS /\ SS \subseteq DOMAIN G
      /\ unskip' = unskippable(G, SS, in.targets \cap DOMAIN G)
  BY <1>1 DEF IInv, GraphInv, PhaseInv, LoopsRefused, IsGraph, Acyclic, SS, HardInv, Needed
<1>3. SceneDataRight'
  <2> DEFINE H == [d \in DOMAIN G |-> in.harddeps[d] \cap SS]
  <2> SUFFICES ASSUME NEW s \in SS
               PROVE  /\ squash'[s] = sq_revdeps(G, SS, H, s)
                      /\ collated[s] = sq_covered_tasks(G, SS, s)
    BY <1>1, <1>2 DEF SceneDataRight
  <2>1. /\ collated[s] = sq_covered_tasks(G, SS, s)
        /\ squash[s] \subseteq Named(s) \cup SoftRevdeps(G, SS, s)
        /\ IF in.harddeps[s] \cap SS # {}
             THEN squash[s] \subseteq Named(s)
             ELSE SoftRevdeps(G, SS, s) \subseteq squash[s]
    BY <1>1 DEF IInv, HardInv
  <2>2. /\ {d \in DOMAIN H : s \in H[d]} = Named(s)
        /\ H[s] = in.harddeps[s] \cap SS
    <3>1. Named(s) \subseteq DOMAIN G /\ s \in DOMAIN G
      BY <1>1, <1>2 DEF IInv, HardInv
    <3> QED
      BY <3>1 DEF IInv, GraphInv, Named
  <2>3. squash'[s] = squash[s] \cup Named(s)
    BY <1>1, <1>2
  <2> HIDE DEF H
  <2> QED
    BY <2>1, <2>2, <2>3 DEF sq_revdeps
<1> QED
  BY <1>1, <1>2, <1>3
     DEF IInv, WeightsInv, SquashTypes, SquashInv, PendingInv, SkipInv, HardInv

LEMMA InvStep == IInv /\ [Next]_vars => IInv'
<1> SUFFICES ASSUME IInv, [Next]_vars PROVE IInv'
  OBVIOUS
<1>1. CASE \E t \in DOMAIN G : Weigh(t) \/ ProcessEndpoint(t) \/ HardDepends(t)
  BY <1>1, WeighInv, ProcessEndpointInv, HardDependsInv
<1>2. CASE WeighRound \/ WeightsDone \/ EndpointRound \/ EndpointsDone
            \/ UnskippableRound \/ UnskippableDone \/ HardDependsDone
  BY <1>2, WeighRoundInv, WeightsDoneInv, EndpointRoundInv, EndpointsDoneInv,
     UnskippableRoundInv, UnskippableDoneInv, HardDependsDoneInv
<1>3. CASE UNCHANGED vars
  <2>1. /\ UNCHANGED <<in, G, phase, points, next, deps_left, revdeps_left, squash, collated, unskip>>
        /\ SS' = SS /\ Weighed' = Weighed /\ Empty' = Empty
    BY <1>3 DEF vars, SS, Weighed, Empty
  <2>2. GraphInv' /\ PhaseInv' /\ LoopsRefused' /\ WeightsInv'
    BY <2>1 DEF IInv, GraphInv, PhaseInv, LoopsRefused, WeightsInv, IsGraph, Acyclic
  <2>3. SquashTypes' /\ SquashInv' /\ PendingInv'
    BY <2>1 DEF IInv, SquashTypes, SquashInv, PendingInv, Collected
  <2>4. SkipInv' /\ HardInv' /\ SceneDataRight'
    BY <2>1 DEF IInv, SkipInv, HardInv, SceneDataRight, Named, Needed
  <2> QED
    BY <2>2, <2>3, <2>4 DEF IInv
<1> QED
  BY <1>1, <1>2, <1>3 DEF Next

LEMMA InvHolds == Spec => []IInv
BY InvInit, InvStep, PTL DEF Spec

-----------------------------------------------------------------------------
(* The theorems                                                            *)

\* calculate_task_weights refuses a graph exactly when it has a loop, for
\* every finite graph of tasks.
THEOREM LoopsRefusedHolds == Spec => []LoopsRefused
<1>1. IInv => LoopsRefused
  BY DEF IInv
<1> QED
  BY <1>1, InvHolds, PTL

\* build_scenequeue_data computes, whatever the order of its work lists, what
\* each setscene task covers, which tasks it waits for and which tasks cannot be
\* skipped.
THEOREM SceneDataRightHolds == Spec => []SceneDataRight
<1>1. IInv => SceneDataRight
  BY DEF IInv
<1> QED
  BY <1>1, InvHolds, PTL

\* The fatal error "Something went badly wrong during scenequeue generation"
\* does not occur: when the work lists of process_endpoints are empty nothing
\* is left on an ordinary task.
THEOREM NeverWrong == Spec => [](phase # "wrong")
<1>1. IInv => phase # "wrong"
  BY DEF IInv, PhaseInv
<1> QED
  BY <1>1, InvHolds, PTL

\* The setscene tasks of an input with the tasks their [depends] flags name.
FlagGraph(i) ==
    [t \in i.setscene |-> {d \in i.setscene \cap DOMAIN i.harddeps : t \in i.harddeps[d]}]

\* The setscene tasks among those s names.
NamedSS(s) == Named(s) \cap SS

\* A task that is named waits only for those it names itself, so that waiting
\* in a circle is along flags only or along dependencies only.
LEMMA WaitsAcyclic ==
  ASSUME IInv, phase = "done", Acyclic(FlagGraph(in))
  PROVE  Acyclic([s \in SS |-> squash[s] \cap SS])
<1> DEFINE Q == [s \in SS |-> squash[s] \cap SS]
           H == [d \in DOMAIN G |-> in.harddeps[d] \cap SS]
           Flag == {d \in SS : H[d] # {}}
<1>1. /\ IsGraph(G) /\ Acyclic(G) /\ SS \subseteq DOMAIN G /\ SS \subseteq in.setscene
      /\ DOMAIN G \subseteq DOMAIN in.harddeps
      /\ DOMAIN Q = SS
  BY DEF IInv, GraphInv, LoopsRefused, SS
<1>2. ASSUME NEW s \in SS
      PROVE  /\ Q[s] = NamedSS(s) \cup (IF H[s] # {} THEN {} ELSE SoftRevdeps(G, SS, s))
             /\ NamedSS(s) \subseteq Flag
  <2>1. Q[s] = sq_revdeps(G, SS, H, s) \cap SS
    BY DEF IInv, SceneDataRight
  <2>2. {d \in DOMAIN H : s \in H[d]} \cap SS = NamedSS(s)
    BY <1>1 DEF NamedSS, Named
  <2>3. NamedSS(s) \subseteq Flag
    BY <2>2
  <2>4. SoftRevdeps(G, SS, s) \subseteq SS
    BY DEF SoftRevdeps
  <2> HIDE DEF H, Q, Flag
  <2> QED
    BY <2>1, <2>2, <2>3, <2>4 DEF sq_revdeps
<1>3. ASSUME NEW s \in Flag, s \in Reach(Q, {}, Q[s]) PROVE FALSE
  <2> DEFINE F == FlagGraph(in)
             R == Reach(F, {}, F[s])
             S == R \cap Flag
  <2>1. \A t \in SS : NamedSS(t) \subseteq F[t] /\ t \in DOMAIN F
    BY <1>1 DEF FlagGraph, NamedSS, Named
  <2>2. IsGraph(F)
    BY DEF IsGraph, FlagGraph
  <2>3. F[s] \subseteq R /\ Closed(F, {}, R)
    <3>1. s \in DOMAIN F
      BY <2>1
    <3> HIDE DEF F
    <3> QED
      BY <2>2, <3>1, ReachDomain, ReachClosed DEF IsGraph
  <2> HIDE DEF F, R
  <2>4. S \in SUBSET DOMAIN Q /\ Q[s] \subseteq S
    <3>1. s \in SS /\ Q[s] = NamedSS(s) /\ NamedSS(s) \subseteq Flag
      BY <1>2
    <3>2. NamedSS(s) \subseteq R
      BY <2>1, <2>3, <3>1
    <3> QED
      BY <3>1, <3>2
  <2>5. Closed(Q, {}, S)
    <3> SUFFICES ASSUME NEW t \in S PROVE Q[t] \subseteq S
      BY DEF Closed
    <3>1. t \in SS /\ Q[t] \subseteq NamedSS(t) /\ NamedSS(t) \subseteq Flag /\ NamedSS(t) \subseteq F[t]
      BY <1>2, <2>1
    <3>2. F[t] \subseteq R
      BY <2>3 DEF Closed
    <3> QED
      BY <3>1, <3>2
  <2>6. s \in R
    <3> HIDE DEF S, Q
    <3>1. s \in S
      BY <1>3, <2>4, <2>5, ReachLeast
    <3> QED
      BY <3>1 DEF S
  <2> QED
    BY <2>1, <2>6 DEF Acyclic, F, R
<1>4. ASSUME NEW s \in SS \ Flag, s \in Reach(Q, {}, Q[s]) PROVE FALSE
  <2> DEFINE S == Flag \cup {u \in SS : s \in Reach(G, {}, G[u])}
  <2>1. ASSUME NEW u \in SS, NEW v \in SoftRevdeps(G, SS, u)
        PROVE  /\ v \in SS /\ u \in Reach(G, {}, G[v])
               /\ Reach(G, {}, G[u]) \subseteq Reach(G, {}, G[v])
    <3>1. v \in SS /\ u \in Reach(G, SS, G[v]) /\ G[v] \in SUBSET DOMAIN G
      BY <1>1 DEF SoftRevdeps, IsGraph
    <3>2. u \in Reach(G, {}, G[v])
      BY <1>1, <3>1, ReachStop
    <3>3. G[u] \subseteq Reach(G, {}, G[v])
      BY <1>1, <3>2, ReachClosed DEF Closed
    <3> QED
      BY <1>1, <3>1, <3>2, <3>3, ReachTransitive
  <2>2. S \in SUBSET DOMAIN Q /\ Q[s] \subseteq S
    BY <1>2, <2>1
  <2>3. Closed(Q, {}, S)
    <3> SUFFICES ASSUME NEW t \in S PROVE Q[t] \subseteq S
      BY DEF Closed
    <3>1. CASE t \in Flag
      BY <1>2, <3>1
    <3>2. CASE t \in SS \ Flag /\ s \in Reach(G, {}, G[t])
      <4>1. Q[t] \subseteq Flag \cup SoftRevdeps(G, SS, t)
        BY <1>2, <3>2
      <4>2. \A v \in SoftRevdeps(G, SS, t) : v \in SS /\ s \in Reach(G, {}, G[v])
        BY <2>1, <3>2
      <4> QED
        BY <4>1, <4>2
    <3> QED
      BY <3>1, <3>2
  <2>4. s \in S
    <3> HIDE DEF S, Q
    <3> QED
      BY <1>4, <2>2, <2>3, ReachLeast
  <2> QED
    BY <1>1, <1>4, <2>4 DEF Acyclic
<1> QED
  BY <1>1, <1>3, <1>4 DEF Acyclic

\* The setscene tasks do not wait for each other in a circle, for every input
\* whose [depends] flags do not name each other in a circle.
THEOREM NoSceneDeadlockHolds ==
  ASSUME \A i \in Inputs : Acyclic(FlagGraph(i))
  PROVE  Spec => []NoSceneDeadlock
<1>1. IInv => NoSceneDeadlock
  BY WaitsAcyclic DEF IInv, GraphInv, NoSceneDeadlock
<1> QED
  BY <1>1, InvHolds, PTL
=============================================================================
