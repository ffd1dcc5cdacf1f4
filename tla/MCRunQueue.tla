----------------------------- MODULE MCRunQueue -----------------------------
(* A build of 7 tasks.  1 is the image (noexec).  3 and 4 have one hash and  *)
(* one stamp and share the ordinary task 5, which needs 6; 7 is another      *)
(* ordinary task of 5's name, of which one may run at a time.  2 is the      *)
(* package of 3 and names 3_setscene in its [depends] flag; both may have     *)
(* stamps of earlier builds, 2 the older one or 3.                           *)
EXTENDS RunQueue

MCDepends == <<{2, 4, 7}, {3}, {5}, {5}, {6}, {}, {}>>
MCSetscene == {2, 3, 4, 6}
MCHardDeps == [s \in MCSetscene |-> IF s = 3 THEN {2} ELSE {}]
MCTargets == {1}
MCRecipe == <<"img", "p", "p", "q", "x", "x", "k">>
MCTaskName == <<"image", "pkg", "sysroot", "sysroot", "compile", "sysroot", "compile">>
MCStampFile == <<1, 2, 3, 3, 5, 6, 7>>
MCNoexec == {1}
MCHashIndex == [s \in MCSetscene |-> IF s = 4 THEN 3 ELSE s]
MCMaxThreads == [n \in {"image", "pkg", "sysroot", "compile"} |-> IF n = "compile" THEN 1 ELSE 0]
MCMayBeStamped == {2, 3}
MCMayBeUnneeded == {6}
=============================================================================
