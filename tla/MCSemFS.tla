------------------------------ MODULE MCSemFS ------------------------------
(* The semaphores of sem: one name, two objects, three threads.            *)
EXTENDS SemFS, TLC

CONSTANTS t1, t2, t3, n1, s1, s2, v1, v2

Three == {t1, t2, t3}
OneName == {n1}
MCSems == {s1, s2}
MCVnodes == {v1, v2}

Sym == Permutations(Three) \cup Permutations(MCSems) \cup Permutations(MCVnodes)
=============================================================================
