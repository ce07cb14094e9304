----------------------------- MODULE MCCoremap -----------------------------
(* Two threads, a few pages above a one-page kernel. *)
EXTENDS Coremap, TLC

CONSTANTS t1, t2

MCThreads == {t1, t2}
MCSymmetry == Permutations(MCThreads)

=============================================================================
