----------------------------- MODULE SceneGraph -----------------------------
(***************************************************************************)
(* What bitbake's run queue derives from the graph of tasks of a build     *)
(* (lib/bb/runqueue.py): a graph is a function G from every task to the    *)
(* tasks it depends on, and SS is the set of its tasks that have a         *)
(* setscene variant, which fetches the result of the task from the shared  *)
(* state cache instead of running it.                                      *)
(*                                                                         *)
(* These are the declarative forms.  TaskGraph has the work lists with     *)
(* which the code computes them, and its run compares the two; RunQueue    *)
(* uses them from here.                                                    *)
(***************************************************************************)
EXTENDS Naturals, FiniteSets

\* The tasks that depend on t: runtaskentries[t].revdeps.
revdeps(G, t) == {u \in DOMAIN G : t \in G[u]}

\* S holds with every task outside Stop the tasks it depends on.
Closed(G, Stop, S) == \A t \in S \ Stop : G[t] \subseteq S

\* The tasks reached from X in any number of steps, where the tasks in Stop
\* are reached but not left: what all closed sets around X have in common.
Reach(G, Stop, X) ==
    LET Around == {S \in SUBSET DOMAIN G : X \subseteq S /\ Closed(G, Stop, S)}
    IN  {t \in DOMAIN G : \A S \in Around : t \in S}

\* mark_active: the tasks that have to be considered to build the targets T.
ActiveTasks(G, T) == Reach(G, {}, T)

Acyclic(G) == \A t \in DOMAIN G : t \notin Reach(G, {}, G[t])

\* sqdata.sq_covered_tasks[s]: the ordinary tasks that need not run when the
\* result of s comes from the cache, up to the next setscene tasks.
sq_covered_tasks(G, SS, s) == Reach(G, SS, G[s]) \ SS

\* The setscene tasks whose chains of ordinary tasks end at s: s is looked
\* at after these, because it may turn out not to be needed.
SoftRevdeps(G, SS, s) == {u \in SS : s \in Reach(G, SS, G[u])}

\* sqdata.sq_revdeps[s].  H[d] is the set of setscene tasks that name d in their
\* [depends] flag (sq_harddeps): those wait for d, and d for none of its own
\* users.
sq_revdeps(G, SS, H, s) ==
    {d \in DOMAIN H : s \in H[d]} \cup (IF H[s] # {} THEN {} ELSE SoftRevdeps(G, SS, s))

\* sqdata.unskippable: what is reached from the ends of the build and from
\* targets without a setscene variant, up to the first setscene tasks.
unskippable(G, SS, T) ==
    Reach(G, SS, {t \in DOMAIN G : revdeps(G, t) = {}} \cup (T \ SS))
=============================================================================
