-------------------------- MODULE AbstractSemaphore --------------------------
(***************************************************************************)
(* What include/synch.h (lines 56-63) promises of a Dijkstra semaphore:    *)
(* P and V are atomic.  Between its call and its return each operation     *)
(* takes effect exactly once, in one step: a P takes one unit when there   *)
(* is one, a V adds one.  A V that would wrap the counter halts the        *)
(* machine (the KASSERT in V).                                             *)
(***************************************************************************)
EXTENDS Naturals

CONSTANTS
  Threads,       \* kernel threads: may call P and V
  Handlers,      \* interrupt handlers: may call V only
  InitialCount,  \* the argument of sem_create
  CountModulus   \* the number of values of the unsigned sem_count

VARIABLES
  units,    \* the value of the semaphore
  op,       \* the operation each caller is in, and whether it took effect
  halted    \* the machine panicked

absVars == <<units, op, halted>>

Callers == Threads \cup Handlers

Init ==
  /\ units = InitialCount
  /\ op = [a \in Callers |-> "none"]
  /\ halted = FALSE

CallP(t) ==
  /\ ~halted
  /\ op[t] = "none"
  /\ op' = [op EXCEPT ![t] = "P"]
  /\ UNCHANGED <<units, halted>>

CallV(a) ==
  /\ ~halted
  /\ op[a] = "none"
  /\ op' = [op EXCEPT ![a] = "V"]
  /\ UNCHANGED <<units, halted>>

\* The one step in which a P takes effect.
Take(t) ==
  /\ ~halted
  /\ op[t] = "P"
  /\ units > 0
  /\ units' = units - 1
  /\ op' = [op EXCEPT ![t] = "done"]
  /\ UNCHANGED halted

\* The one step in which a V takes effect.
Give(a) ==
  /\ ~halted
  /\ op[a] = "V"
  /\ units + 1 < CountModulus
  /\ units' = units + 1
  /\ op' = [op EXCEPT ![a] = "done"]
  /\ UNCHANGED halted

\* A V on a full counter wraps it to zero and the assertion stops the machine.
Overflow(a) ==
  /\ ~halted
  /\ op[a] = "V"
  /\ units + 1 = CountModulus
  /\ units' = 0
  /\ halted' = TRUE
  /\ UNCHANGED op

Return(a) ==
  /\ ~halted
  /\ op[a] = "done"
  /\ op' = [op EXCEPT ![a] = "none"]
  /\ UNCHANGED <<units, halted>>

Next ==
  \/ \E t \in Threads : CallP(t) \/ Take(t)
  \/ \E a \in Callers : CallV(a) \/ Give(a) \/ Overflow(a) \/ Return(a)

\* No caller in particular is promised anything ("we don't maintain strict
\* FIFO ordering", synch.c:109), but while there are units and threads that
\* want them some thread gets one, some V that is called takes effect, and an
\* operation that took effect returns.
Progress ==
  /\ WF_absVars(\E t \in Threads : Take(t))
  /\ WF_absVars(\E a \in Callers : Give(a) \/ Overflow(a))
  /\ \A a \in Callers : WF_absVars(Return(a))

SafeSpec == Init /\ [][Next]_absVars
Spec == SafeSpec /\ Progress

=============================================================================
