------------------------------ MODULE MCTaskRun ------------------------------
(***************************************************************************)
(* Small instances of TaskRun for TLC: two tasks, one checkout.               *)
(***************************************************************************)
EXTENDS TaskRun, TLC

CONSTANTS t1, t2

MCSwapTasks == Permutations({t1, t2})

=============================================================================
