---------------------------- MODULE MCKernelHeap ----------------------------
(* Two sizes of blocks, two roots of two pagerefs.                         *)
EXTENDS KernelHeap, TLC

CONSTANTS t1, t2, t3, g1, g2, g3, g4

MCThreads == {t1, t2, t3}
MCPages == {g1, g2, g3, g4}
MCSizes == <<2, 3>>

Sym == Permutations(MCThreads) \cup Permutations(MCPages)
=============================================================================
