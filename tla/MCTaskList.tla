------------------------------ MODULE MCTaskList ------------------------------
(***************************************************************************)
(* Three tasks, so that a task has both a predecessor and a successor when *)
(* it is inserted, removed, cleaned away or re-armed while its own         *)
(* callback runs.  Two elapsed times and three delays give tasks that are  *)
(* overdue, due, equal and apart.                                          *)
(***************************************************************************)
EXTENDS TaskList

CONSTANTS t1, t2, t3

MCTasks == {t1, t2, t3}
MCDelays == 0..2
MCElapsed == 0..2
=============================================================================
