------------------------------ MODULE MCSched ------------------------------
(* task_idle, one server task, initproc and a slot or two for children,    *)
(* with priorities in the order of the code's 20 and 10.                   *)
EXTENDS Sched

MCProc  == {0, 2, 4, 5, 6}
MCTasks == {0, 2}
=============================================================================
