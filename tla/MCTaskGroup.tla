----------------------------- MODULE MCTaskGroup -----------------------------
(***************************************************************************)
(* Instances of TaskGroup for TLC: two groups, so that one may be nested   *)
(* in a task of the other, over a pool of two slots.                       *)
(***************************************************************************)
EXTENDS TaskGroup

MCPriorities == {1}      \* NYA_JOB_PRIORITY_NORMAL, the tasks' one priority

\* Bound: groups of two tasks that nobody cancels, or a job of no group and then
\* groups of one.
Modest ==
    IF \E h \in 1..nextHandle : task[h].group = NoGroup
    THEN \A g \in Groups : group[g].capacity < 2
    ELSE \A g \in Groups : /\ group[g].capacity # 1
                           /\ group[g].cancelled => group[g].firstFailed # NoFailure

MCSpec == GroupInit /\ [][Next /\ Modest']_vars /\ Fairness
=============================================================================
