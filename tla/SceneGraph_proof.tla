--------------------------- MODULE SceneGraph_proof ---------------------------
(***************************************************************************)
(* Facts about reachability in graphs of tasks, for the proofs about       *)
(* TaskGraph and RunQueue.  Reach is a least closed set, so that what is   *)
(* reached is shown to have a property by giving a closed set, where the   *)
(* textbook would count steps.                                             *)
(***************************************************************************)
EXTENDS SceneGraph, FiniteSetTheorems, TLAPS

\* Every task depends on tasks of the graph.
IsGraph(G) == \A t \in DOMAIN G : G[t] \subseteq DOMAIN G

\* What is reached is in the graph, and the start is reached.
LEMMA ReachDomain ==
  ASSUME NEW G, NEW Stop, NEW X
  PROVE  /\ Reach(G, Stop, X) \subseteq DOMAIN G
         /\ X \subseteq DOMAIN G => X \subseteq Reach(G, Stop, X)
BY DEF Reach

\* What is reached is in every closed set around the start.
LEMMA ReachLeast ==
  ASSUME NEW G, NEW Stop, NEW X, NEW S \in SUBSET DOMAIN G,
         X \subseteq S, Closed(G, Stop, S)
  PROVE  Reach(G, Stop, X) \subseteq S
BY DEF Reach

\* What is reached is itself closed: the dependencies of a task that is
\* reached, and where the search does not stop, are reached.
LEMMA ReachClosed ==
  ASSUME NEW G, IsGraph(G), NEW Stop, NEW X
  PROVE  Closed(G, Stop, Reach(G, Stop, X))
<1> SUFFICES ASSUME NEW t \in Reach(G, Stop, X), t \notin Stop, NEW u \in G[t]
             PROVE  u \in Reach(G, Stop, X)
  BY DEF Closed
<1>1. u \in DOMAIN G
  BY DEF Reach, IsGraph
<1>2. ASSUME NEW S \in SUBSET DOMAIN G, X \subseteq S, Closed(G, Stop, S)
      PROVE  u \in S
  <2>1. t \in S
    BY <1>2 DEF Reach
  <2> QED
    BY <1>2, <2>1 DEF Closed
<1> QED
  BY <1>1, <1>2 DEF Reach

\* Stopping on the way reaches no more.
LEMMA ReachStop ==
  ASSUME NEW G, IsGraph(G), NEW Stop, NEW X \in SUBSET DOMAIN G
  PROVE  Reach(G, Stop, X) \subseteq Reach(G, {}, X)
<1> DEFINE R == Reach(G, {}, X)
<1>1. R \in SUBSET DOMAIN G /\ X \subseteq R
  BY ReachDomain
<1>2. Closed(G, {}, R)
  BY ReachClosed
<1>3. Closed(G, Stop, R)
  BY <1>2 DEF Closed
<1> HIDE DEF R
<1> QED
  BY <1>1, <1>3, ReachLeast DEF R

\* What is reached from what is reached is reached.
LEMMA ReachTransitive ==
  ASSUME NEW G, IsGraph(G), NEW X, NEW Y \in SUBSET Reach(G, {}, X)
  PROVE  Reach(G, {}, Y) \subseteq Reach(G, {}, X)
<1> DEFINE R == Reach(G, {}, X)
<1>1. R \in SUBSET DOMAIN G /\ Y \subseteq R /\ Closed(G, {}, R)
  BY ReachDomain, ReachClosed
<1> HIDE DEF R
<1> QED
  BY <1>1, ReachLeast DEF R

\* A set of numbers has a least element.
LEMMA LeastNumber ==
  ASSUME NEW S \in SUBSET Nat, S # {}
  PROVE  \E x \in S : \A y \in S : x <= y
<1>1. PICK x \in S : \A y \in S : ~(<<y, x>> \in OpToRel(<, Nat))
  BY NatLessThanWellFounded, WFMin
<1>2. \A y \in S : <<y, x>> \in OpToRel(<, Nat) <=> y < x
  BY DEF OpToRel
<1>3. ASSUME NEW y \in S PROVE x <= y
  <2>1. x \in Nat /\ y \in Nat /\ ~(y < x)
    BY <1>1, <1>2
  <2> QED
    BY <2>1
<1> QED
  BY <1>3

\* The number of tasks reached from t's dependencies: in a finite graph without
\* loops it is smaller for a task than for its users.
Depth(G, t) == Cardinality(Reach(G, {}, G[t]))

LEMMA DepthOrders ==
  ASSUME NEW G, IsGraph(G), IsFiniteSet(DOMAIN G), Acyclic(G)
  PROVE  /\ \A t \in DOMAIN G : Depth(G, t) \in Nat /\ Depth(G, t) <= Cardinality(DOMAIN G)
         /\ \A t, u \in DOMAIN G : t \in G[u] => Depth(G, t) < Depth(G, u)
<1> DEFINE Below(t) == Reach(G, {}, G[t])
<1>1. ASSUME NEW t \in DOMAIN G
      PROVE  /\ Below(t) \in SUBSET DOMAIN G /\ IsFiniteSet(Below(t))
             /\ Depth(G, t) \in Nat /\ Depth(G, t) <= Cardinality(DOMAIN G)
  <2>1. Below(t) \in SUBSET DOMAIN G /\ Depth(G, t) = Cardinality(Below(t))
    BY ReachDomain DEF Depth
  <2> HIDE DEF Below
  <2> QED
    BY <2>1, FS_Subset, FS_CardinalityType
<1>2. ASSUME NEW t \in DOMAIN G, NEW u \in DOMAIN G, t \in G[u]
      PROVE  Depth(G, t) < Depth(G, u)
  <2>1. t \in Below(u)
    BY <1>2, ReachDomain DEF IsGraph
  <2>2. G[t] \subseteq Below(u)
    BY <2>1, ReachClosed DEF Closed
  <2>3. Below(t) \in SUBSET Below(u)
    BY <2>2, ReachTransitive
  <2>4. t \notin Below(t)
    BY DEF Acyclic
  <2>5. Depth(G, t) = Cardinality(Below(t)) /\ Depth(G, u) = Cardinality(Below(u))
    BY DEF Depth
  <2> HIDE DEF Below
  <2>6. /\ Depth(G, t) <= Depth(G, u)
        /\ Depth(G, u) = Depth(G, t) => Below(u) = Below(t)
    BY <1>1, <2>3, <2>5, FS_Subset
  <2>7. Depth(G, t) # Depth(G, u) /\ Depth(G, t) \in Nat /\ Depth(G, u) \in Nat
    BY <1>1, <2>1, <2>4, <2>6
  <2> QED
    BY <2>6, <2>7
<1> QED
  BY <1>1, <1>2

\* Some task of every set has no user in the set: the one from which most tasks
\* are reached.
LEMMA SomeTaskOnTop ==
  ASSUME NEW G, IsGraph(G), IsFiniteSet(DOMAIN G), Acyclic(G),
         NEW U \in SUBSET DOMAIN G, U # {}
  PROVE  \E t \in U : \A u \in U : t \notin G[u]
<1> DEFINE n == Cardinality(DOMAIN G)
           Rest == {n - Depth(G, t) : t \in U}
<1>1. n \in Nat
  BY FS_CardinalityType
<1> HIDE DEF n
<1>2. Rest \in SUBSET Nat /\ Rest # {}
  BY <1>1, DepthOrders DEF n
<1>3. PICK x \in Rest : \A y \in Rest : x <= y
  <2> HIDE DEF Rest
  <2> QED
    BY <1>2, LeastNumber
<1>4. PICK t \in U : x = n - Depth(G, t)
  OBVIOUS
<1>5. ASSUME NEW u \in U, t \in G[u] PROVE FALSE
  <2>1. Depth(G, t) < Depth(G, u) /\ Depth(G, t) \in Nat /\ Depth(G, u) \in Nat
    BY <1>5, DepthOrders
  <2>2. n - Depth(G, t) <= n - Depth(G, u)
    BY <1>3, <1>4
  <2> QED
    BY <1>1, <2>1, <2>2
<1> QED
  BY <1>5

\* And some task of every set depends on none of the set: the one from which
\* fewest tasks are reached.
LEMMA SomeTaskAtBottom ==
  ASSUME NEW G, IsGraph(G), IsFiniteSet(DOMAIN G), Acyclic(G),
         NEW U \in SUBSET DOMAIN G, U # {}
  PROVE  \E t \in U : G[t] \cap U = {}
<1> DEFINE Depths == {Depth(G, t) : t \in U}
<1>1. Depths \in SUBSET Nat /\ Depths # {}
  BY DepthOrders
<1>2. PICK x \in Depths : \A y \in Depths : x <= y
  <2> HIDE DEF Depths
  <2> QED
    BY <1>1, LeastNumber
<1>3. PICK t \in U : x = Depth(G, t)
  OBVIOUS
<1>4. ASSUME NEW u \in U, u \in G[t] PROVE FALSE
  <2>1. Depth(G, u) < Depth(G, t) /\ Depth(G, t) \in Nat /\ Depth(G, u) \in Nat
    BY <1>4, DepthOrders
  <2>2. Depth(G, t) <= Depth(G, u)
    BY <1>2, <1>3
  <2> QED
    BY <2>1, <2>2
<1> QED
  BY <1>4
=============================================================================
