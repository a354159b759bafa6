---------------------------- MODULE MCTaskQueue -----------------------------
(***************************************************************************)
(* Two workers and two tasks: one that is added again while it is in work, *)
(* one that waits behind it.                                               *)
(***************************************************************************)
EXTENDS TaskQueue

CONSTANTS w1, w2, t1, t2

MCWorkers == {w1, w2}
MCTasks   == {t1, t2}

MCBudget == [k \in BudgetKeys |-> IF k = "enqueue" THEN 3 ELSE 2]
=============================================================================
