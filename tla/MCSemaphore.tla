----------------------------- MODULE MCSemaphore -----------------------------
(* Three threads and an interrupt handler around one semaphore whose counter *)
(* wraps at four.                                                            *)
EXTENDS Semaphore

CONSTANTS t1, t2, t3, intr

MCThreads == {t1, t2, t3}
MCHandlers == {intr}

=============================================================================
