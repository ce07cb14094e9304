-------------------------------- MODULE Synch --------------------------------
(***************************************************************************)
(* What the primitives of kern/thread/synch.c share: the kernel threads    *)
(* that call them, and the value of a spinlock or of a holder that is      *)
(* nobody's.                                                               *)
(***************************************************************************)
EXTENDS Naturals, Sequences, FiniteSets

CONSTANTS
  Threads,  \* kernel threads
  NoOne     \* a free spinlock; NULL where a thread is named

=============================================================================
