----------------------------- MODULE MCSleepLock -----------------------------
(* Four threads competing for one lock. *)
EXTENDS SleepLock

CONSTANTS t1, t2, t3, t4

MCThreads == {t1, t2, t3, t4}

=============================================================================
