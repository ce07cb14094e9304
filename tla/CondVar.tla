------------------------------- MODULE CondVar -------------------------------
(***************************************************************************)
(* kern/thread/synch.c, struct cv: cv_wait, cv_signal and cv_broadcast on  *)
(* one condition variable used with one lock.  The cv has no spinlock of   *)
(* its own: its channel is protected by the spinlock inside the lock, and  *)
(* the three operations call lock_acquire and lock_release on that lock.   *)
(*                                                                         *)
(* Two things the code does are easy to miss.  cv_signal lets go of the    *)
(* lock before it returns; the clients here know, SemFS has one that does  *)
(* not.  And lock_acquire, called after wchan_sleep has taken the spinlock *)
(* back, spins on a spinlock its own cpu holds, which spinlock_acquire     *)
(* answers with a panic.                                                   *)
(***************************************************************************)
EXTENDS SleepLock

CONSTANTS
  Ops           \* the cv operations the clients use

ASSUME CondVarAssumption == Ops \subseteq {"wait", "signal", "broadcast"}

VARIABLES
  cv_wchan,  \* cv->cv_wc, longest asleep first
  panicked   \* "no", or which call stopped the machine

cvVars == <<holder, lock_wchan, spinlock, pc, cv_wchan, panicked>>

CvLabels == LockLabels \cup
  {"W_rel_enter", "W_rel_body", "W_rel_leave", "W_enter", "W_sleep", "W_asleep", "W_awake", "W_relock",
   "S_enter", "S_body", "S_leave", "S_check", "S_rel_enter", "S_rel_body", "S_rel_leave",
   "B_enter", "B_body", "B_release"}

CvInit == Init /\ cv_wchan = <<>> /\ panicked = "no"

\* A step of the lock alone.
LockOnly(A) == A /\ UNCHANGED <<cv_wchan, panicked>>

\* A move that reads no shared state and writes none.
Move(t, from, to) ==
  /\ pc[t] = from
  /\ Goto(t, to)
  /\ UNCHANGED <<holder, lock_wchan, spinlock, cv_wchan, panicked>>

\* The machine stops in the middle of thread t's call.
Panic(t, from, why) ==
  /\ pc[t] = from
  /\ panicked' = why
  /\ UNCHANGED <<holder, lock_wchan, spinlock, pc, cv_wchan>>

\* spinlock_acquire by the cpu that already holds the spinlock.
SpinOnOwn(t, from, why) == spinlock = t /\ Panic(t, from, why)

-----------------------------------------------------------------------------
(* cv_wait                                                                 *)

\* Seeded fault: the waiter goes to sleep with the lock.
WaitCall_KeepLock(t) ==
  /\ "wait" \in Ops
  /\ \/ holder = t /\ Move(t, "crit", "W_enter")
     \/ holder # t /\ Move(t, "crit", "A_enter")

\* Only a caller that holds the lock releases it and sleeps; any other merely
\* acquires the lock (the read of the holder takes no spinlock).
WaitCall(t) ==
  /\ "wait" \in Ops
  /\ \/ holder = t /\ Move(t, "crit", "W_rel_enter")
     \/ holder # t /\ Move(t, "crit", "A_enter")

WaitRelease(t) ==
  \/ LockOnly(SpinAcquire(t, "W_rel_enter", "W_rel_body"))
  \/ LockOnly(ReleaseBody(t, "W_rel_body", "W_rel_leave"))
  \/ LockOnly(SpinRelease(t, "W_rel_leave", "W_enter"))

\* The spinlock is taken a second time only here, after lock_release gave up
\* both the lock and the spinlock.
WaitEnter(t) == LockOnly(SpinAcquire(t, "W_enter", "W_sleep"))

WaitSleep(t) ==
  /\ pc[t] = "W_sleep"
  /\ cv_wchan' = Append(cv_wchan, t)
  /\ spinlock' = NoOne
  /\ Goto(t, "W_asleep")
  /\ UNCHANGED <<holder, lock_wchan, panicked>>

\* The tail of wchan_sleep takes the spinlock back for a woken waiter...
WaitRelock(t) == LockOnly(SpinAcquire(t, "W_awake", "W_relock"))

\* ... and lock_acquire starts by taking it again.
WaitReacquire(t) == SpinOnOwn(t, "W_relock", "wait")

-----------------------------------------------------------------------------
(* cv_signal                                                               *)

SignalCall(t) ==
  /\ "signal" \in Ops
  /\ \/ holder = t /\ Move(t, "crit", "S_enter")
     \/ holder # t /\ Panic(t, "crit", "assertion")

\* Seeded fault: the woken waiter is left on the channel.
SignalWake_KeepListed(t) ==
  /\ pc[t] = "S_body"
  /\ pc' = [u \in Threads |->
              IF u = t THEN "S_leave"
              ELSE IF cv_wchan # <<>> /\ u = Head(cv_wchan) THEN "W_awake" ELSE pc[u]]
  /\ UNCHANGED <<holder, lock_wchan, spinlock, cv_wchan, panicked>>

SignalWake(t) ==
  /\ pc[t] = "S_body"
  /\ \/ /\ cv_wchan = <<>>
        /\ Goto(t, "S_leave")
        /\ UNCHANGED cv_wchan
     \/ /\ cv_wchan # <<>>
        /\ cv_wchan' = Tail(cv_wchan)
        /\ pc' = [pc EXCEPT ![t] = "S_leave", ![Head(cv_wchan)] = "W_awake"]
  /\ UNCHANGED <<holder, lock_wchan, spinlock, panicked>>

\* Seeded fault: cv_signal frees the lock without waking who waits for it.
SignalRelease_NoWake(t) ==
  \/ holder = t /\ Move(t, "S_check", "S_rel_enter")
  \/ holder # t /\ Move(t, "S_check", "out")
  \/ LockOnly(SpinAcquire(t, "S_rel_enter", "S_rel_body"))
  \/ LockOnly(ReleaseBody_NoWake(t, "S_rel_body", "S_rel_leave"))
  \/ LockOnly(SpinRelease(t, "S_rel_leave", "out"))

\* The lock is released if it is still held (a misbehaving client may have
\* freed it meanwhile).
SignalRelease(t) ==
  \/ holder = t /\ Move(t, "S_check", "S_rel_enter")
  \/ holder # t /\ Move(t, "S_check", "out")
  \/ LockOnly(SpinAcquire(t, "S_rel_enter", "S_rel_body"))
  \/ LockOnly(ReleaseBody(t, "S_rel_body", "S_rel_leave"))
  \/ LockOnly(SpinRelease(t, "S_rel_leave", "out"))

SignalStep(t) ==
  \/ LockOnly(SpinAcquire(t, "S_enter", "S_body"))
  \/ SignalWake(t)
  \/ LockOnly(SpinRelease(t, "S_leave", "S_check"))
  \/ SignalRelease(t)

-----------------------------------------------------------------------------
(* cv_broadcast                                                            *)

BroadcastCall(t) ==
  /\ "broadcast" \in Ops
  /\ \/ holder = t /\ Move(t, "crit", "B_enter")
     \/ holder # t /\ Panic(t, "crit", "assertion")

BroadcastEnter(t) == LockOnly(SpinAcquire(t, "B_enter", "B_body"))

\* wchan_wakeall
BroadcastWake(t) ==
  /\ pc[t] = "B_body"
  /\ cv_wchan' = <<>>
  /\ pc' = [u \in Threads |->
              IF u = t THEN "B_release"
              ELSE IF \E i \in DOMAIN cv_wchan : cv_wchan[i] = u THEN "W_awake"
              ELSE pc[u]]
  /\ UNCHANGED <<holder, lock_wchan, spinlock, panicked>>

\* lock_release takes the spinlock that cv_broadcast still holds.
BroadcastRelease(t) == SpinOnOwn(t, "B_release", "broadcast")

-----------------------------------------------------------------------------

LockStep(t) == LockOnly(AcquireCall(t) \/ AcquireStep(t) \/ ReleaseCall(t) \/ ReleaseStep(t))

WaitStep(t) == WaitRelease(t) \/ WaitEnter(t) \/ WaitSleep(t) \/ WaitRelock(t) \/ WaitReacquire(t)
BroadcastStep(t) == BroadcastEnter(t) \/ BroadcastWake(t) \/ BroadcastRelease(t)

CvNext ==
  /\ panicked = "no"
  /\ \E t \in Threads :
       \/ LockStep(t)
       \/ WaitCall(t) \/ WaitStep(t)
       \/ SignalCall(t) \/ SignalStep(t)
       \/ BroadcastCall(t) \/ BroadcastStep(t)

CvSpec == CvInit /\ [][CvNext]_cvVars

-----------------------------------------------------------------------------
(* Properties                                                              *)

CvTypeOK ==
  /\ holder \in Threads \cup {NoOne}
  /\ lock_wchan \in Seq(Threads)
  /\ cv_wchan \in Seq(Threads)
  /\ spinlock \in Threads \cup {NoOne}
  /\ pc \in [Threads -> CvLabels]
  /\ panicked \in {"no", "wait", "broadcast", "assertion"}

CvOwning == Owning \cup
  {"W_rel_enter", "W_rel_body",
   "S_enter", "S_body", "S_leave", "S_check", "S_rel_enter", "S_rel_body",
   "B_enter", "B_body", "B_release"}

\* Clients that know that cv_signal gives the lock away keep mutual exclusion
\* through waits, signals and broadcasts: whoever is between the moment it is
\* given the lock and the moment it frees it is the holder.
CvMutualExclusion ==
  \A t \in Threads : pc[t] \in CvOwning <=> holder = t

\* Both, which is what a run checks.
CvOneHolder == CvTypeOK /\ CvMutualExclusion

Once(q, t) == Cardinality({i \in DOMAIN q : q[i] = t}) = 1
Absent(q, t) == \A i \in DOMAIN q : q[i] # t

\* The two channels under the one spinlock are never confused: a thread asleep
\* in lock_acquire is on the lock's channel only, one asleep in cv_wait on the
\* cv's channel only, and a thread that is awake is on neither.
ChannelsAgree ==
  \A t \in Threads :
    CASE pc[t] = "A_asleep" -> Once(lock_wchan, t) /\ Absent(cv_wchan, t)
      [] pc[t] = "W_asleep" -> Once(cv_wchan, t) /\ Absent(lock_wchan, t)
      [] OTHER              -> Absent(lock_wchan, t) /\ Absent(cv_wchan, t)

\* NoLostWakeup of SleepLock is checked here too: whatever frees the lock
\* (lock_release, cv_wait or cv_signal).

=============================================================================
