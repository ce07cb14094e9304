------------------------------ MODULE SleepLock ------------------------------
(***************************************************************************)
(* kern/thread/synch.c, struct lock: lock_acquire and lock_release as they *)
(* run.  The operators take the labels they move between, because cv_wait  *)
(* and cv_signal call lock_acquire and lock_release from inside themselves *)
(* (module CondVar).                                                       *)
(*                                                                         *)
(* lock_release does not look at who calls it.  The clients here are the   *)
(* well-behaved ones: a thread releases the lock it acquired, once, and    *)
(* does not acquire it again before (that would sleep on itself: the       *)
(* assertion at synch.c:197 is commented out).                             *)
(***************************************************************************)
EXTENDS Synch

ASSUME SleepLockAssumption == IsFiniteSet(Threads) /\ NoOne \notin Threads

VARIABLES
  holder,      \* lock->holder, or NoOne for NULL
  lock_wchan,  \* lock->lock_wchan, longest asleep first
  spinlock,    \* who holds lock->spinlock, or NoOne
  pc           \* where each thread is; "crit" is between the two calls

vars == <<holder, lock_wchan, spinlock, pc>>

LockLabels == {"out",
               "A_enter", "A_test", "A_asleep", "A_awake", "A_leave",
               "crit",
               "R_enter", "R_body", "R_leave"}

Init ==
  /\ holder = NoOne
  /\ lock_wchan = <<>>
  /\ spinlock = NoOne
  /\ pc = [t \in Threads |-> "out"]

Goto(t, label) == pc' = [pc EXCEPT ![t] = label]

\* spinlock_acquire when the spinlock is free.
SpinAcquire(t, from, to) ==
  /\ pc[t] = from
  /\ spinlock = NoOne
  /\ spinlock' = t
  /\ Goto(t, to)
  /\ UNCHANGED <<holder, lock_wchan>>

SpinRelease(t, from, to) ==
  /\ pc[t] = from
  /\ spinlock = t
  /\ spinlock' = NoOne
  /\ Goto(t, to)
  /\ UNCHANGED <<holder, lock_wchan>>

-----------------------------------------------------------------------------
(* lock_acquire                                                            *)

AcquireCall(t) ==
  /\ pc[t] = "out"
  /\ Goto(t, "A_enter")
  /\ UNCHANGED <<holder, lock_wchan, spinlock>>

AcquireEnter(t) == SpinAcquire(t, "A_enter", "A_test")

\* wchan_sleep: on the channel first, then the spinlock is dropped.
AcquireSleep(t) ==
  /\ pc[t] = "A_test"
  /\ holder # NoOne
  /\ lock_wchan' = Append(lock_wchan, t)
  /\ spinlock' = NoOne
  /\ Goto(t, "A_asleep")
  /\ UNCHANGED holder

AcquireTake(t) ==
  /\ pc[t] = "A_test"
  /\ holder = NoOne
  /\ holder' = t
  /\ Goto(t, "A_leave")
  /\ UNCHANGED <<lock_wchan, spinlock>>

\* Seeded fault: the woken thread takes the lock without testing it again.
AcquireRelock_NoRetest(t) ==
  /\ pc[t] = "A_awake"
  /\ spinlock = NoOne
  /\ spinlock' = t
  /\ holder' = t
  /\ Goto(t, "A_leave")
  /\ UNCHANGED lock_wchan

\* A woken thread takes the spinlock again and goes round the while loop.
AcquireRelock(t) == SpinAcquire(t, "A_awake", "A_test")

AcquireLeave(t) == SpinRelease(t, "A_leave", "crit")

-----------------------------------------------------------------------------
(* lock_release                                                            *)

ReleaseCall(t) ==
  /\ pc[t] = "crit"
  /\ Goto(t, "R_enter")
  /\ UNCHANGED <<holder, lock_wchan, spinlock>>

\* Seeded fault: the lock is freed and nobody is told.
ReleaseBody_NoWake(t, from, to) ==
  /\ pc[t] = from
  /\ holder' = NoOne
  /\ Goto(t, to)
  /\ UNCHANGED <<lock_wchan, spinlock>>

\* Inside the spinlock: free the lock, whoever holds it, and wake the thread
\* that has waited longest.
ReleaseBody(t, from, to) ==
  /\ pc[t] = from
  /\ holder' = NoOne
  /\ \/ /\ lock_wchan = <<>>
        /\ Goto(t, to)
        /\ UNCHANGED lock_wchan
     \/ /\ lock_wchan # <<>>
        /\ lock_wchan' = Tail(lock_wchan)
        /\ pc' = [pc EXCEPT ![t] = to, ![Head(lock_wchan)] = "A_awake"]
  /\ UNCHANGED spinlock

ReleaseEnter(t) == SpinAcquire(t, "R_enter", "R_body")
ReleaseFree(t) == ReleaseBody(t, "R_body", "R_leave")
ReleaseLeave(t) == SpinRelease(t, "R_leave", "out")

-----------------------------------------------------------------------------

AcquireStep(t) ==
  \/ AcquireEnter(t) \/ AcquireSleep(t) \/ AcquireTake(t)
  \/ AcquireRelock(t) \/ AcquireLeave(t)

ReleaseStep(t) == ReleaseEnter(t) \/ ReleaseFree(t) \/ ReleaseLeave(t)

Next == \E t \in Threads :
  AcquireCall(t) \/ AcquireStep(t) \/ ReleaseCall(t) \/ ReleaseStep(t)

\* A thread inside an operation is scheduled again, and a thread that holds
\* the lock lets go of it some day.
Fairness == \A t \in Threads :
  WF_vars(AcquireStep(t)) /\ WF_vars(ReleaseCall(t) \/ ReleaseStep(t))

SafeSpec == Init /\ [][Next]_vars
Spec == SafeSpec /\ Fairness

-----------------------------------------------------------------------------
(* Properties                                                              *)

TypeOK ==
  /\ holder \in Threads \cup {NoOne}
  /\ lock_wchan \in Seq(Threads)
  /\ spinlock \in Threads \cup {NoOne}
  /\ pc \in [Threads -> LockLabels]

\* The labels between the moment a thread is given the lock and the moment it
\* frees it.
Owning == {"A_leave", "crit", "R_enter", "R_body"}

\* "Only one thread can hold the lock at the same time" (synch.h:89): no two
\* threads are past lock_acquire and before the store in lock_release, and
\* lock->holder names the one that is.
MutualExclusion ==
  \A t \in Threads : pc[t] \in Owning <=> holder = t

\* A thread asleep in lock_acquire is on the wait channel, once; nobody else is.
SleepersQueued ==
  /\ \A t \in Threads : pc[t] = "A_asleep" <=> \E i \in 1 .. Len(lock_wchan) : lock_wchan[i] = t
  /\ \A i, j \in 1 .. Len(lock_wchan) : lock_wchan[i] = lock_wchan[j] => i = j

\* No wakeup is lost: when the lock is free and somebody sleeps for it, some
\* thread is awake and will test it.
NoLostWakeup ==
  lock_wchan # <<>> /\ holder = NoOne => \E t \in Threads : pc[t] \in {"A_awake", "A_test"}

\* The lock implements the abstract one: atomically, and a free lock that is
\* wanted is granted.
Wanting == {t \in Threads : pc[t] \in {"A_enter", "A_test", "A_asleep", "A_awake"}}

Abstract == INSTANCE AbstractLock WITH owner <- holder, wants <- Wanting

ImplementsLock == Abstract!Spec

=============================================================================
