------------------------------- MODULE MCSched -------------------------------
(* Two cpus, each with its boot thread, and threads to be forked. *)
EXTENDS Sched

CONSTANTS b1, b2, n1

MCThreads == {b1, b2, n1}
MCBoot == <<b1, b2>>

\* ReadyRuns (thread.c:450-482, 582-585, 605-652) for the thread that is forked.
NewThreadRuns == ReadyRuns(n1)

=============================================================================
