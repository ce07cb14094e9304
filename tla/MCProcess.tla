------------------------------ MODULE MCProcess ------------------------------
(* Three processes and three pids, one of them kproc's: the table fills up, *)
(* pids are used again, and children outlive their parents.                 *)
EXTENDS Process

CONSTANTS p1, p2, p3, ok, failed

MCProcs == {p1, p2, p3}
MCCodes == {ok, failed}

=============================================================================
