---------------------------- MODULE MCTaskGraph -----------------------------
(* Every graph of 3 tasks, and of 4 with at most one dependency each, loops  *)
(* included; every loop-free graph of 4, with every choice of setscene       *)
(* tasks, two of targets and the [depends] flags below; every loop-free      *)
(* graph of 5 without flags.                                                 *)
EXTENDS TaskGraph

\* Task t depends on tasks with greater numbers only.
Dags(n) == {[t \in 1..n |-> {u \in (t+1)..n : <<t, u>> \in E}] :
                E \in SUBSET {e \in (1..n) \X (1..n) : e[1] < e[2]}}

\* Up to one [depends] flag of a setscene task in S, which may name any other task, or
\* a chain of two that name setscene tasks.
Flags(g, S) ==
    LET Edges == {e \in S \X S : e[1] < e[2]}
        Sets  == {{}} \cup {{e} : e \in {x \in (DOMAIN g) \X S : x[1] # x[2]}} \cup {{e, f} : e \in Edges, f \in Edges}
    IN  {[d \in DOMAIN g |-> {e[2] : e \in {x \in E : x[1] = d}}] : E \in Sets}

MCInputs ==
    {[depends |-> g, setscene |-> S, harddeps |-> [d \in 1..3 |-> {}], targets |-> {1}] :
        g \in [1..3 -> SUBSET (1..3)], S \in {{}, {2}}}
    \cup {[depends |-> g, setscene |-> {}, harddeps |-> [d \in 1..4 |-> {}], targets |-> {1}] :
            g \in [1..4 -> {D \in SUBSET (1..4) : Cardinality(D) <= 1}]}
    \cup {[depends |-> g, setscene |-> S, harddeps |-> [d \in 1..5 |-> {}], targets |-> {1}] :
            g \in Dags(5), S \in SUBSET (2..5)}
    \cup UNION {{[depends |-> g, setscene |-> S, harddeps |-> h, targets |-> T] :
        h \in Flags(g, S \cap ActiveTasks(g, T))} :
            g \in Dags(4), S \in SUBSET (1..4), T \in {{1}, {1, 2}}}
=============================================================================
