------------------------------ MODULE Semaphore ------------------------------
(***************************************************************************)
(* kern/thread/synch.c, struct semaphore: P and V as they run, one step    *)
(* per piece of code between two points where another cpu, or an           *)
(* interrupt handler, can get in.                                          *)
(*                                                                         *)
(* The spinlock is held with interrupts off, so its holder stays on its    *)
(* cpu until it lets go; the holder can be named by the caller.  Sleeping  *)
(* (wchan_sleep) puts the thread on the wait channel and drops the         *)
(* spinlock; a woken thread is merely runnable and has to take the         *)
(* spinlock again like everybody else before it looks at the count.        *)
(***************************************************************************)
EXTENDS Synch

CONSTANTS
  Handlers,      \* interrupt handlers: may call V only (KASSERT in P)
  InitialCount,  \* the argument of sem_create
  CountModulus   \* the number of values of the unsigned sem_count (2^32)

Callers == Threads \cup Handlers

ASSUME SemaphoreAssumption ==
  /\ IsFiniteSet(Threads)
  /\ Threads \cap Handlers = {}
  /\ NoOne \notin Callers
  /\ CountModulus \in Nat \ {0}
  /\ InitialCount \in 0 .. (CountModulus - 1)

VARIABLES
  sem_count,   \* sem->sem_count
  sem_wchan,   \* sem->sem_wchan: the sleeping threads, longest asleep first
  sem_lock,    \* who holds sem->sem_lock, or NoOne
  sem_pc,      \* where each caller is
  sem_panicked \* a KASSERT failed and the machine stopped

semVars == <<sem_count, sem_wchan, sem_lock, sem_pc, sem_panicked>>

Labels == {"out",
           "P_enter", "P_test", "P_asleep", "P_awake", "P_leave",
           "V_enter", "V_body", "V_leave"}

SemInit ==
  /\ sem_count = InitialCount
  /\ sem_wchan = <<>>
  /\ sem_lock = NoOne
  /\ sem_pc = [a \in Callers |-> "out"]
  /\ sem_panicked = FALSE

SemGoto(a, label) == sem_pc' = [sem_pc EXCEPT ![a] = label]

-----------------------------------------------------------------------------
(* The spinlock and the wait channel.                                      *)

\* spinlock_acquire: spin until the lock word is free, then own it.
SemSpinAcquire(a, from, to) ==
  /\ ~sem_panicked
  /\ sem_pc[a] = from
  /\ sem_lock = NoOne
  /\ sem_lock' = a
  /\ SemGoto(a, to)
  /\ UNCHANGED <<sem_count, sem_wchan, sem_panicked>>

\* spinlock_release, the last thing P and V do before they return.
SemSpinRelease(a, from) ==
  /\ ~sem_panicked
  /\ sem_pc[a] = from
  /\ sem_lock = a
  /\ sem_lock' = NoOne
  /\ SemGoto(a, "out")
  /\ UNCHANGED <<sem_count, sem_wchan, sem_panicked>>

\* wchan_wakeone as part of a step that takes its caller to `to`: the thread
\* that has slept longest, if any, becomes runnable.
WakeOne(a, to) ==
  \/ /\ sem_wchan = <<>>
     /\ UNCHANGED sem_wchan
     /\ SemGoto(a, to)
  \/ /\ sem_wchan # <<>>
     /\ sem_wchan' = Tail(sem_wchan)
     /\ sem_pc' = [sem_pc EXCEPT ![a] = to, ![Head(sem_wchan)] = "P_awake"]

-----------------------------------------------------------------------------
(* P                                                                       *)

PCall(t) ==
  /\ ~sem_panicked
  /\ sem_pc[t] = "out"
  /\ SemGoto(t, "P_enter")
  /\ UNCHANGED <<sem_count, sem_wchan, sem_lock, sem_panicked>>

PEnter(t) == SemSpinAcquire(t, "P_enter", "P_test")

\* The loop test fails: wchan_sleep queues the thread and drops the spinlock
\* as one step, because thread_switch queues before it releases.
PSleep(t) ==
  /\ ~sem_panicked
  /\ sem_pc[t] = "P_test"
  /\ sem_count = 0
  /\ sem_wchan' = Append(sem_wchan, t)
  /\ sem_lock' = NoOne
  /\ SemGoto(t, "P_asleep")
  /\ UNCHANGED <<sem_count, sem_panicked>>

\* The loop test passes: take a unit.
PTake(t) ==
  /\ ~sem_panicked
  /\ sem_pc[t] = "P_test"
  /\ sem_count > 0
  /\ sem_count' = sem_count - 1
  /\ SemGoto(t, "P_leave")
  /\ UNCHANGED <<sem_wchan, sem_lock, sem_panicked>>

\* Seeded fault: an "if" where the code has a "while".
PRelock_NoRetest(t) == SemSpinAcquire(t, "P_awake", "P_leave")

\* The tail of wchan_sleep: a woken thread, once it is scheduled, takes the
\* spinlock again; P then goes round its loop and tests the count afresh.
PRelock(t) == SemSpinAcquire(t, "P_awake", "P_test")

PLeave(t) == SemSpinRelease(t, "P_leave")

-----------------------------------------------------------------------------
(* V                                                                       *)

VCall(a) ==
  /\ ~sem_panicked
  /\ sem_pc[a] = "out"
  /\ SemGoto(a, "V_enter")
  /\ UNCHANGED <<sem_count, sem_wchan, sem_lock, sem_panicked>>

VEnter(a) == SemSpinAcquire(a, "V_enter", "V_body")

\* Seeded fault: wake a sleeper only when the count was zero.
VBody_WakeOnZero(a) ==
  /\ ~sem_panicked
  /\ sem_pc[a] = "V_body"
  /\ sem_count + 1 < CountModulus
  /\ sem_count' = sem_count + 1
  /\ IF sem_count = 0
     THEN WakeOne(a, "V_leave")
     ELSE UNCHANGED sem_wchan /\ SemGoto(a, "V_leave")
  /\ UNCHANGED <<sem_lock, sem_panicked>>

\* Count a unit and, whatever the count was, wake one sleeper.
VBody(a) ==
  /\ ~sem_panicked
  /\ sem_pc[a] = "V_body"
  /\ sem_count + 1 < CountModulus
  /\ sem_count' = sem_count + 1
  /\ WakeOne(a, "V_leave")
  /\ UNCHANGED <<sem_lock, sem_panicked>>

\* The increment wraps and KASSERT(sem->sem_count > 0) stops the machine.
VOverflow(a) ==
  /\ ~sem_panicked
  /\ sem_pc[a] = "V_body"
  /\ sem_count + 1 = CountModulus
  /\ sem_count' = 0
  /\ sem_panicked' = TRUE
  /\ UNCHANGED <<sem_wchan, sem_lock, sem_pc>>

VLeave(a) == SemSpinRelease(a, "V_leave")

-----------------------------------------------------------------------------

\* What a caller does once it is inside an operation.
PStep(t) == PEnter(t) \/ PSleep(t) \/ PTake(t) \/ PRelock(t) \/ PLeave(t)
VStep(a) == VEnter(a) \/ VBody(a) \/ VOverflow(a) \/ VLeave(a)

SemNext ==
  \/ \E t \in Threads : PCall(t) \/ PStep(t)
  \/ \E a \in Callers : VCall(a) \/ VStep(a)

\* A caller inside an operation is not abandoned by the scheduler: the
\* hardclock round-robins runnable threads.  Nothing makes a thread call.
SemFairness ==
  /\ \A t \in Threads : WF_semVars(PStep(t))
  /\ \A a \in Callers : WF_semVars(VStep(a))

SemSafeSpec == SemInit /\ [][SemNext]_semVars
SemSpec == SemSafeSpec /\ SemFairness

-----------------------------------------------------------------------------
(* Properties                                                              *)

SemTypeOK ==
  /\ sem_count \in 0 .. (CountModulus - 1)
  /\ sem_wchan \in Seq(Threads)
  /\ sem_lock \in Callers \cup {NoOne}
  /\ sem_pc \in [Callers -> Labels]
  /\ sem_panicked \in BOOLEAN

\* The wait channel and the threads' own idea of where they are agree: a
\* thread that sleeps in P is on the channel, once, where a V will find it,
\* and nothing else is on it.
SemSleepersQueued ==
  /\ \A t \in Threads : sem_pc[t] = "P_asleep" <=> \E i \in 1 .. Len(sem_wchan) : sem_wchan[i] = t
  /\ \A i, j \in 1 .. Len(sem_wchan) : sem_wchan[i] = sem_wchan[j] => i = j

\* Threads that are awake and will test the count before they can sleep.
Contenders == {t \in Threads : sem_pc[t] \in {"P_awake", "P_test"}}

\* No wakeup is lost: as long as somebody sleeps in P, every unit in the count
\* has an awake thread on its way to take it.  (V wakes one thread per unit,
\* whatever the count was; a thread that barges in takes a unit away with it.)
SemNoLostWakeup ==
  sem_wchan # <<>> => sem_count <= Cardinality(Contenders)

\* P and V are atomic: the semaphore implements the abstract one, progress
\* included.
OpAt(label) ==
  CASE label \in {"P_enter", "P_test", "P_asleep", "P_awake"} -> "P"
    [] label \in {"V_enter", "V_body"} -> "V"
    [] label \in {"P_leave", "V_leave"} -> "done"
    [] OTHER -> "none"

AbstractOp == [a \in Callers |-> OpAt(sem_pc[a])]

SemAbstract == INSTANCE AbstractSemaphore WITH
  units <- sem_count,
  halted <- sem_panicked,
  op <- AbstractOp

ImplementsAtomic == SemAbstract!Spec

=============================================================================
