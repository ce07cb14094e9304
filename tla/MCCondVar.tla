------------------------------ MODULE MCCondVar ------------------------------
(* Three threads sharing one lock and one condition variable. *)
EXTENDS CondVar

CONSTANTS t1, t2, t3

MCThreads == {t1, t2, t3}
AllOps == {"wait", "signal", "broadcast"}

=============================================================================
