----------------------------- MODULE SynchProofs -----------------------------
(***************************************************************************)
(* Proofs about synch.c: the lock (SleepLock) and the condition variable   *)
(* on top of it (CondVar), for any finite set of threads that release only *)
(* what they acquired; the semaphore (Semaphore), for any finite set of    *)
(* threads, any handlers, any initial count and any width of the counter.  *)
(***************************************************************************)
EXTENDS CondVar, Semaphore, FiniteSetTheorems, TLAPS

\* The labels at which a thread holds lock->spinlock.
Holding == {"A_test", "A_leave", "R_body", "R_leave"}

SpinMatchesPC == \A t \in Threads : pc[t] \in Holding <=> spinlock = t

IInv == TypeOK /\ SpinMatchesPC /\ MutualExclusion /\ SleepersQueued /\ NoLostWakeup

-----------------------------------------------------------------------------
(* A wait channel's thread list: a queue without repetitions.               *)

\* What is left of a queue without repetitions after its head is removed.
LEMMA QueueTail ==
  ASSUME NEW S, NEW q \in Seq(S), q # <<>>,
         \A i, j \in 1 .. Len(q) : q[i] = q[j] => i = j
  PROVE  /\ Head(q) \in S
         /\ Tail(q) \in Seq(S)
         /\ Len(Tail(q)) = Len(q) - 1
         /\ Head(q) = q[1]
         /\ \A x : (\E i \in 1 .. Len(Tail(q)) : Tail(q)[i] = x)
                     <=> (x # Head(q) /\ \E i \in 1 .. Len(q) : q[i] = x)
         /\ \A i, j \in 1 .. Len(Tail(q)) : Tail(q)[i] = Tail(q)[j] => i = j
<1> DEFINE r == Tail(q)
           n == Len(q) - 1
<1>1. /\ r \in Seq(S) /\ n \in Nat /\ Len(r) = n /\ Len(q) = n + 1 /\ Head(q) = q[1] /\ q[1] \in S
      /\ \A i \in 1 .. n : r[i] = q[i + 1]
  OBVIOUS
<1> HIDE DEF r, n
<1>2. \A i \in 1 .. n : i + 1 \in 1 .. n + 1 /\ i + 1 # 1
  BY <1>1
<1>3. \A k \in 1 .. n + 1 : k # 1 => k - 1 \in 1 .. n /\ (k - 1) + 1 = k
  BY <1>1
<1>4. 1 \in 1 .. n + 1 /\ \A i, j \in 1 .. n : i + 1 = j + 1 => i = j
  BY <1>1
<1>5. \A x : (\E i \in 1 .. n : r[i] = x) <=> (x # Head(q) /\ \E i \in 1 .. Len(q) : q[i] = x)
  <2>1. ASSUME NEW i \in 1 .. n
        PROVE  i + 1 \in 1 .. Len(q) /\ q[i + 1] = r[i] /\ q[i + 1] # Head(q)
    BY <1>1, <1>2
  <2>2. ASSUME NEW k \in 1 .. Len(q), q[k] # Head(q)
        PROVE  k - 1 \in 1 .. n /\ r[k - 1] = q[k]
    BY <1>1, <1>3, <2>2
  <2>3. QED
    BY <2>1, <2>2
<1>6. \A i, j \in 1 .. n : r[i] = r[j] => i = j
  BY <1>1, <1>2, <1>4
<1>7. QED
  BY <1>1, <1>5, <1>6 DEF r, n

\* A thread that was not on a queue without repetitions can join it.
LEMMA QueueAppend ==
  ASSUME NEW S, NEW q \in Seq(S), NEW t \in S,
         ~ \E i \in 1 .. Len(q) : q[i] = t,
         \A i, j \in 1 .. Len(q) : q[i] = q[j] => i = j
  PROVE  /\ Append(q, t) \in Seq(S)
         /\ Append(q, t) # <<>>
         /\ \A x : (\E i \in 1 .. Len(Append(q, t)) : Append(q, t)[i] = x)
                     <=> (x = t \/ \E i \in 1 .. Len(q) : q[i] = x)
         /\ \A i, j \in 1 .. Len(Append(q, t)) :
              Append(q, t)[i] = Append(q, t)[j] => i = j
<1> DEFINE r == Append(q, t)
           n == Len(q)
<1>1. /\ r \in Seq(S) /\ n \in Nat /\ Len(r) = n + 1 /\ r[n + 1] = t
      /\ \A i \in 1 .. n : r[i] = q[i]
  OBVIOUS
<1> HIDE DEF r, n
<1>2. n + 1 \in 1 .. n + 1 /\ \A i \in 1 .. n + 1 : i = n + 1 \/ i \in 1 .. n
  BY <1>1
<1>3. \A i \in 1 .. n : i \in 1 .. n + 1
  BY <1>1
<1>4. \A x : (\E i \in 1 .. n + 1 : r[i] = x) <=> (x = t \/ \E i \in 1 .. Len(q) : q[i] = x)
  BY <1>1, <1>2, <1>3 DEF n
<1>5. \A i, j \in 1 .. n + 1 : r[i] = r[j] => i = j
  BY <1>1, <1>2 DEF n
<1>6. r # <<>>
  BY <1>1
<1>7. QED
  BY <1>1, <1>4, <1>5, <1>6 DEF r, n


LEMMA InitInv == Init => IInv
<1> SUFFICES ASSUME Init PROVE IInv
  OBVIOUS
<1>1. TypeOK
  <2>1. lock_wchan \in Seq(Threads)
    BY DEF Init
  <2>2. QED
    BY <2>1 DEF Init, TypeOK, LockLabels
<1>2. SpinMatchesPC /\ MutualExclusion
  BY SleepLockAssumption DEF Init, SpinMatchesPC, Holding, MutualExclusion, Owning
<1>3. SleepersQueued /\ NoLostWakeup
  BY DEF Init, SleepersQueued, NoLostWakeup
<1>4. QED
  BY <1>1, <1>2, <1>3 DEF IInv

-----------------------------------------------------------------------------
(* Steps that leave the wait channel and the holder alone: the two calls,  *)
(* taking the spinlock and letting it go.                                  *)

LEMMA QuietMoveInv ==
  ASSUME IInv, NEW t \in Threads, NEW l \in LockLabels, Goto(t, l),
         UNCHANGED <<holder, lock_wchan>>,
         spinlock' \in Threads \cup {NoOne}, SpinMatchesPC',
         pc[t] # "A_asleep", l # "A_asleep",
         pc[t] \in Owning <=> l \in Owning,
         pc[t] \in {"A_awake", "A_test"} => l \in {"A_awake", "A_test"}
  PROVE  IInv'
<1> USE DEF IInv
<1>1. TypeOK'
  BY DEF TypeOK, Goto
<1>2. MutualExclusion'
  BY DEF TypeOK, MutualExclusion, Goto
<1>3. SleepersQueued'
  BY DEF TypeOK, SleepersQueued, Goto
<1>4. NoLostWakeup'
  BY DEF TypeOK, NoLostWakeup, Goto
<1>5. QED
  BY <1>1, <1>2, <1>3, <1>4

LEMMA CallInv ==
  ASSUME IInv, NEW t \in Threads, AcquireCall(t) \/ ReleaseCall(t)
  PROVE  IInv'
<1>1. PICK from \in {"out", "crit"}, l \in {"A_enter", "R_enter"} :
        /\ pc[t] = from /\ Goto(t, l) /\ UNCHANGED <<holder, lock_wchan, spinlock>>
        /\ from = "crit" <=> l = "R_enter"
  BY DEF AcquireCall, ReleaseCall
<1>2. SpinMatchesPC'
  BY <1>1 DEF IInv, TypeOK, SpinMatchesPC, Goto, Holding
<1>3. QED
  BY <1>1, <1>2, QuietMoveInv DEF IInv, TypeOK, LockLabels, Owning

LEMMA SpinAcquireInv ==
  ASSUME IInv, NEW t \in Threads, AcquireEnter(t) \/ AcquireRelock(t) \/ ReleaseEnter(t)
  PROVE  IInv'
<1>1. PICK from \in {"A_enter", "A_awake", "R_enter"}, to \in {"A_test", "R_body"} :
        SpinAcquire(t, from, to) /\ (from = "R_enter" <=> to = "R_body")
  BY DEF AcquireEnter, AcquireRelock, ReleaseEnter
<1>2. SpinMatchesPC'
  BY <1>1, SleepLockAssumption DEF IInv, TypeOK, SpinMatchesPC, SpinAcquire, Goto, Holding
<1>3. QED
  BY <1>1, <1>2, QuietMoveInv DEF SpinAcquire, LockLabels, Owning

LEMMA SpinReleaseInv ==
  ASSUME IInv, NEW t \in Threads, AcquireLeave(t) \/ ReleaseLeave(t)
  PROVE  IInv'
<1>1. PICK from \in {"A_leave", "R_leave"}, to \in {"crit", "out"} :
        SpinRelease(t, from, to) /\ (from = "A_leave" <=> to = "crit")
  BY DEF AcquireLeave, ReleaseLeave
<1>2. SpinMatchesPC'
  BY <1>1, SleepLockAssumption DEF IInv, TypeOK, SpinMatchesPC, SpinRelease, Goto, Holding
<1>3. QED
  BY <1>1, <1>2, QuietMoveInv DEF SpinRelease, LockLabels, Owning

-----------------------------------------------------------------------------
(* Steps that change the holder or the wait channel.                       *)

LEMMA AcquireSleepInv ==
  ASSUME IInv, NEW t \in Threads, AcquireSleep(t)
  PROVE  IInv'
<1> USE DEF IInv
<1>1. ~ \E i \in 1 .. Len(lock_wchan) : lock_wchan[i] = t
  BY DEF AcquireSleep, SleepersQueued
<1>2. /\ lock_wchan' \in Seq(Threads)
      /\ \A x : (\E i \in 1 .. Len(lock_wchan') : lock_wchan'[i] = x)
                  <=> (x = t \/ \E i \in 1 .. Len(lock_wchan) : lock_wchan[i] = x)
      /\ \A i, j \in 1 .. Len(lock_wchan') : lock_wchan'[i] = lock_wchan'[j] => i = j
  BY <1>1, QueueAppend DEF AcquireSleep, TypeOK, SleepersQueued
<1>3. TypeOK'
  BY <1>2 DEF TypeOK, AcquireSleep, Goto, LockLabels
<1>4. SpinMatchesPC'
  BY SleepLockAssumption DEF TypeOK, SpinMatchesPC, AcquireSleep, Goto, Holding
<1>5. MutualExclusion'
  BY DEF TypeOK, MutualExclusion, AcquireSleep, Goto, Owning
<1>6. SleepersQueued'
  <2>1. \A u \in Threads : pc'[u] = "A_asleep" <=> (u = t \/ pc[u] = "A_asleep")
    BY DEF AcquireSleep, Goto, TypeOK
  <2>2. QED
    BY <1>2, <2>1 DEF SleepersQueued
<1>7. NoLostWakeup'
  BY DEF NoLostWakeup, AcquireSleep
<1>8. QED
  BY <1>3, <1>4, <1>5, <1>6, <1>7

LEMMA AcquireTakeInv ==
  ASSUME IInv, NEW t \in Threads, AcquireTake(t)
  PROVE  IInv'
<1> USE DEF IInv
<1>1. TypeOK'
  BY DEF TypeOK, AcquireTake, Goto, LockLabels
<1>2. SpinMatchesPC'
  BY DEF TypeOK, SpinMatchesPC, AcquireTake, Goto, Holding
<1>3. MutualExclusion'
  BY SleepLockAssumption DEF TypeOK, MutualExclusion, AcquireTake, Goto, Owning
<1>4. SleepersQueued'
  BY DEF TypeOK, SleepersQueued, AcquireTake, Goto
<1>5. NoLostWakeup'
  BY SleepLockAssumption DEF NoLostWakeup, AcquireTake
<1>6. QED
  BY <1>1, <1>2, <1>3, <1>4, <1>5

LEMMA ReleaseFreeInv ==
  ASSUME IInv, NEW t \in Threads, ReleaseFree(t)
  PROVE  IInv'
<1> USE DEF IInv
<1>1. /\ pc[t] = "R_body" /\ holder = t
      /\ holder' = NoOne /\ spinlock' = spinlock
  BY DEF ReleaseFree, ReleaseBody, MutualExclusion, Owning
<1>2. CASE lock_wchan = <<>>
  <2>1. Goto(t, "R_leave") /\ UNCHANGED lock_wchan
    BY <1>2 DEF ReleaseFree, ReleaseBody
  <2>2. TypeOK'
    BY <1>1, <2>1 DEF TypeOK, Goto, LockLabels
  <2>3. SpinMatchesPC'
    BY <1>1, <2>1 DEF TypeOK, SpinMatchesPC, Goto, Holding
  <2>4. MutualExclusion'
    BY <1>1, <2>1, SleepLockAssumption DEF TypeOK, MutualExclusion, Goto, Owning
  <2>5. SleepersQueued'
    BY <1>1, <2>1 DEF TypeOK, SleepersQueued, Goto
  <2>6. NoLostWakeup'
    BY <1>2, <2>1 DEF NoLostWakeup
  <2>7. QED
    BY <2>2, <2>3, <2>4, <2>5, <2>6
<1>3. CASE lock_wchan # <<>>
  <2>1. PICK h : h = Head(lock_wchan)
    OBVIOUS
  <2>2. /\ lock_wchan' = Tail(lock_wchan)
        /\ pc' = [pc EXCEPT ![t] = "R_leave", ![h] = "A_awake"]
    BY <1>3, <2>1 DEF ReleaseFree, ReleaseBody
  <2>3. /\ h \in Threads
        /\ h = lock_wchan[1] /\ 1 \in 1 .. Len(lock_wchan)
        /\ lock_wchan' \in Seq(Threads)
        /\ \A x : (\E i \in 1 .. Len(lock_wchan') : lock_wchan'[i] = x)
                    <=> (x # h /\ \E i \in 1 .. Len(lock_wchan) : lock_wchan[i] = x)
        /\ \A i, j \in 1 .. Len(lock_wchan') : lock_wchan'[i] = lock_wchan'[j] => i = j
    <3>1. /\ lock_wchan \in Seq(Threads)
          /\ \A i, j \in 1 .. Len(lock_wchan) : lock_wchan[i] = lock_wchan[j] => i = j
      BY DEF TypeOK, SleepersQueued
    <3>2. h \in Threads /\ h = lock_wchan[1] /\ 1 \in 1 .. Len(lock_wchan)
      BY <1>3, <2>1, <3>1
    <3>3. /\ Tail(lock_wchan) \in Seq(Threads)
          /\ \A x : (\E i \in 1 .. Len(Tail(lock_wchan)) : Tail(lock_wchan)[i] = x)
                      <=> (x # Head(lock_wchan) /\ \E i \in 1 .. Len(lock_wchan) : lock_wchan[i] = x)
          /\ \A i, j \in 1 .. Len(Tail(lock_wchan)) :
               Tail(lock_wchan)[i] = Tail(lock_wchan)[j] => i = j
      BY <1>3, <3>1, QueueTail
    <3>4. QED
      BY <2>1, <2>2, <3>2, <3>3
  <2>4. pc[h] = "A_asleep" /\ h # t
    BY <1>1, <2>3 DEF SleepersQueued
  <2>5. \A u \in Threads :
          pc'[u] = IF u = t THEN "R_leave" ELSE IF u = h THEN "A_awake" ELSE pc[u]
    BY <2>2, <2>3, <2>4 DEF TypeOK
  <2>6. TypeOK'
    BY <1>1, <2>2, <2>3 DEF TypeOK, LockLabels
  <2>7. SpinMatchesPC'
    <3>1. \A u \in Threads : pc'[u] \in Holding <=> pc[u] \in Holding
      BY <1>1, <2>4, <2>5 DEF Holding
    <3>2. QED
      BY <1>1, <3>1 DEF SpinMatchesPC
  <2>8. MutualExclusion'
    <3>1. \A u \in Threads : pc'[u] \in Owning <=> (pc[u] \in Owning /\ u # t)
      BY <1>1, <2>4, <2>5 DEF Owning
    <3>2. QED
      BY <1>1, <3>1, SleepLockAssumption DEF MutualExclusion
  <2>9. SleepersQueued'
    <3>1. \A u \in Threads : pc'[u] = "A_asleep" <=> (u # h /\ pc[u] = "A_asleep")
      BY <1>1, <2>4, <2>5
    <3>2. QED
      BY <2>3, <3>1 DEF SleepersQueued
  <2>10. NoLostWakeup'
    BY <2>3, <2>4, <2>5 DEF NoLostWakeup
  <2>11. QED
    BY <2>6, <2>7, <2>8, <2>9, <2>10
<1>4. QED
  BY <1>2, <1>3

LEMMA NextInv == IInv /\ [Next]_vars => IInv'
<1> SUFFICES ASSUME IInv, [Next]_vars PROVE IInv'
  OBVIOUS
<1>1. ASSUME NEW t \in Threads,
             AcquireCall(t) \/ AcquireStep(t) \/ ReleaseCall(t) \/ ReleaseStep(t)
      PROVE  IInv'
  BY <1>1, CallInv, SpinAcquireInv, SpinReleaseInv, AcquireSleepInv, AcquireTakeInv,
     ReleaseFreeInv DEF AcquireStep, ReleaseStep
<1>2. CASE UNCHANGED vars
  BY <1>2 DEF IInv, vars, TypeOK, SpinMatchesPC, MutualExclusion, SleepersQueued, NoLostWakeup
<1>3. QED
  BY <1>1, <1>2 DEF Next

-----------------------------------------------------------------------------
(* Theorems.                                                               *)

\* Every reachable state satisfies the inductive invariant.
THEOREM Invariance == SafeSpec => []IInv
BY InitInv, NextInv, PTL DEF SafeSpec

\* The lock's fields keep their types.
THEOREM TypeCorrect == SafeSpec => []TypeOK
<1>1. IInv => TypeOK
  BY DEF IInv
<1>2. QED
  BY <1>1, Invariance, PTL

\* Only one thread holds the lock at a time (synch.h:89), whatever the number
\* of threads: lock_release need not check its caller as long as every caller
\* releases only what it acquired.
THEOREM OneHolder == SafeSpec => []MutualExclusion
<1>1. IInv => MutualExclusion
  BY DEF IInv
<1>2. QED
  BY <1>1, Invariance, PTL

\* A thread asleep in lock_acquire is on the lock's wait channel, once, so that
\* lock_release can find it (synch.c:200-203 and 223).
THEOREM SleepersStayQueued == SafeSpec => []SleepersQueued
<1>1. IInv => SleepersQueued
  BY DEF IInv
<1>2. QED
  BY <1>1, Invariance, PTL

\* A free lock is never left with sleepers and nobody awake to take it
\* (synch.c:200-203 and 222-223).
THEOREM NoWakeupIsLost == SafeSpec => []NoLostWakeup
<1>1. IInv => NoLostWakeup
  BY DEF IInv
<1>2. QED
  BY <1>1, Invariance, PTL

-----------------------------------------------------------------------------
(* The lock implements the abstract one.                                   *)

LEMMA InitRefines == Init => Abstract!Init
BY DEF Init, Abstract!Init, Wanting

LEMMA StepRefines == IInv /\ [Next]_vars => [Abstract!Next]_Abstract!absVars
<1> SUFFICES ASSUME IInv, [Next]_vars PROVE [Abstract!Next]_Abstract!absVars
  OBVIOUS
<1> USE DEF IInv
<1>1. ASSUME NEW t \in Threads,
             AcquireCall(t) \/ AcquireStep(t) \/ ReleaseCall(t) \/ ReleaseStep(t)
      PROVE  [Abstract!Next]_Abstract!absVars
  <2>1. CASE AcquireCall(t)
    <3>1. t \notin Wanting /\ Wanting' = Wanting \cup {t} /\ t # holder
      BY <2>1 DEF AcquireCall, Goto, Wanting, TypeOK, MutualExclusion, Owning
    <3>2. Abstract!Ask(t)
      BY <2>1, <3>1 DEF AcquireCall, Abstract!Ask
    <3>3. QED
      BY <3>2 DEF Abstract!Next
  <2>2. CASE AcquireTake(t)
    <3>1. t \in Wanting /\ Wanting' = Wanting \ {t}
      BY <2>2 DEF AcquireTake, Goto, Wanting, TypeOK
    <3>2. Abstract!Grant(t)
      BY <2>2, <3>1 DEF AcquireTake, Abstract!Grant
    <3>3. QED
      BY <3>2 DEF Abstract!Next
  <2>3. CASE ReleaseFree(t)
    <3>1. pc[t] = "R_body" /\ holder = t /\ holder' = NoOne
      BY <2>3 DEF ReleaseFree, ReleaseBody, MutualExclusion, Owning
    <3>2. Wanting' = Wanting
      <4>1. CASE lock_wchan = <<>>
        BY <2>3, <3>1, <4>1 DEF ReleaseFree, ReleaseBody, Goto, Wanting, TypeOK
      <4>2. CASE lock_wchan # <<>>
        <5>1. PICK h : h = Head(lock_wchan)
          OBVIOUS
        <5>2. h \in Threads /\ h = lock_wchan[1] /\ 1 \in 1 .. Len(lock_wchan)
          BY <4>2, <5>1 DEF TypeOK
        <5>3. pc[h] = "A_asleep"
          BY <5>2 DEF SleepersQueued
        <5>4. pc' = [pc EXCEPT ![t] = "R_leave", ![h] = "A_awake"]
          BY <2>3, <4>2, <5>1 DEF ReleaseFree, ReleaseBody
        <5>5. QED
          BY <3>1, <5>2, <5>3, <5>4 DEF Wanting, TypeOK
      <4>3. QED
        BY <4>1, <4>2
    <3>3. Abstract!LetGo(t)
      BY <3>1, <3>2 DEF Abstract!LetGo
    <3>4. QED
      BY <3>3 DEF Abstract!Next
  <2>4. CASE \/ AcquireEnter(t) \/ AcquireSleep(t) \/ AcquireRelock(t) \/ AcquireLeave(t)
             \/ ReleaseCall(t) \/ ReleaseEnter(t) \/ ReleaseLeave(t)
    <3>1. holder' = holder
      BY <2>4 DEF AcquireEnter, AcquireSleep, AcquireRelock, AcquireLeave, ReleaseCall,
                  ReleaseEnter, ReleaseLeave, SpinAcquire, SpinRelease
    <3>2. Wanting' = Wanting
      BY <2>4 DEF AcquireEnter, AcquireSleep, AcquireRelock, AcquireLeave, ReleaseCall,
                  ReleaseEnter, ReleaseLeave, SpinAcquire, SpinRelease, Goto, Wanting, TypeOK
    <3>3. QED
      BY <3>1, <3>2 DEF Abstract!absVars
  <2>5. QED
    BY <1>1, <2>1, <2>2, <2>3, <2>4 DEF AcquireStep, ReleaseStep
<1>2. CASE UNCHANGED vars
  BY <1>2 DEF vars, Abstract!absVars, Wanting
<1>3. QED
  BY <1>1, <1>2 DEF Next

\* lock_acquire and lock_release are atomic (synch.h:96), for any number of
\* threads.
THEOREM Atomic == SafeSpec => Abstract!SafeSpec
BY InitRefines, StepRefines, Invariance, PTL DEF SafeSpec, Abstract!SafeSpec

-----------------------------------------------------------------------------
(* The condition variable.  cv_wait, cv_signal and cv_broadcast run the    *)
(* lock's own steps between labels of theirs, so the invariant is the      *)
(* lock's over more labels, with the second channel added.                 *)

\* The labels at which a thread holds lock->spinlock.
CvHolding == Holding \cup
  {"W_rel_body", "W_rel_leave", "W_sleep", "W_relock",
   "S_body", "S_leave", "S_rel_body", "S_rel_leave", "B_body", "B_release"}

CvSpinMatchesPC == \A t \in Threads : pc[t] \in CvHolding <=> spinlock = t

WaitersQueued ==
  /\ \A t \in Threads : pc[t] = "W_asleep" <=> \E i \in 1 .. Len(cv_wchan) : cv_wchan[i] = t
  /\ \A i, j \in 1 .. Len(cv_wchan) : cv_wchan[i] = cv_wchan[j] => i = j

CvIInv ==
  /\ CvTypeOK /\ CvSpinMatchesPC /\ CvMutualExclusion
  /\ SleepersQueued /\ WaitersQueued /\ NoLostWakeup

\* A move between labels that neither sleeps nor wakes, and keeps the lock if
\* the thread has it.
Asleep == {"A_asleep", "W_asleep"}
Awake == {"A_awake", "A_test"}

Quiet(from, to) ==
  /\ to \in CvLabels
  /\ from \notin Asleep /\ to \notin Asleep
  /\ from \in CvOwning <=> to \in CvOwning
  /\ from \in Awake => to \in Awake

LEMMA CvInitInv == CvInit => CvIInv
<1> SUFFICES ASSUME CvInit PROVE CvIInv
  OBVIOUS
<1>1. CvTypeOK
  <2>1. lock_wchan \in Seq(Threads) /\ cv_wchan \in Seq(Threads)
    BY DEF CvInit, Init
  <2>2. QED
    BY <2>1 DEF CvInit, Init, CvTypeOK, CvLabels, LockLabels
<1>2. CvSpinMatchesPC /\ CvMutualExclusion
  BY SleepLockAssumption
     DEF CvInit, Init, CvSpinMatchesPC, CvHolding, Holding, CvMutualExclusion, CvOwning, Owning
<1>3. SleepersQueued /\ WaitersQueued /\ NoLostWakeup
  BY DEF CvInit, Init, SleepersQueued, WaitersQueued, NoLostWakeup
<1>4. QED
  BY <1>1, <1>2, <1>3 DEF CvIInv

LEMMA CvQuietInv ==
  ASSUME CvIInv, NEW t \in Threads, NEW to, Goto(t, to), Quiet(pc[t], to),
         UNCHANGED <<holder, lock_wchan, cv_wchan, panicked>>,
         spinlock' \in Threads \cup {NoOne}, CvSpinMatchesPC'
  PROVE  CvIInv'
<1> USE DEF CvIInv
<1>1. CvTypeOK'
  BY DEF CvTypeOK, Goto, Quiet
<1>2. CvMutualExclusion'
  BY DEF CvTypeOK, CvMutualExclusion, Goto, Quiet
<1>3. SleepersQueued'
  BY DEF CvTypeOK, SleepersQueued, Goto, Quiet, Asleep
<1>4. WaitersQueued'
  BY DEF CvTypeOK, WaitersQueued, Goto, Quiet, Asleep
<1>5. NoLostWakeup'
  BY DEF CvTypeOK, NoLostWakeup, Goto, Quiet, Awake
<1>6. QED
  BY <1>1, <1>2, <1>3, <1>4, <1>5

LEMMA CvMoveInv ==
  ASSUME CvIInv, NEW t \in Threads, NEW from, NEW to, Quiet(from, to),
         from \notin CvHolding, to \notin CvHolding,
         pc[t] = from, Goto(t, to),
         UNCHANGED <<holder, lock_wchan, spinlock, cv_wchan, panicked>>
  PROVE  CvIInv'
<1>1. CvSpinMatchesPC'
  BY DEF CvIInv, CvTypeOK, CvSpinMatchesPC, Goto
<1>2. QED
  BY <1>1, CvQuietInv DEF CvIInv, CvTypeOK

LEMMA CvSpinAcquireInv ==
  ASSUME CvIInv, NEW t \in Threads, NEW from, NEW to, Quiet(from, to),
         to \in CvHolding, LockOnly(SpinAcquire(t, from, to))
  PROVE  CvIInv'
<1> USE DEF LockOnly, SpinAcquire
<1>1. CvSpinMatchesPC'
  BY SleepLockAssumption DEF CvIInv, CvTypeOK, CvSpinMatchesPC, Goto
<1>2. QED
  BY <1>1, CvQuietInv

LEMMA CvSpinReleaseInv ==
  ASSUME CvIInv, NEW t \in Threads, NEW from, NEW to, Quiet(from, to),
         to \notin CvHolding, LockOnly(SpinRelease(t, from, to))
  PROVE  CvIInv'
<1> USE DEF LockOnly, SpinRelease
<1>1. CvSpinMatchesPC'
  BY SleepLockAssumption DEF CvIInv, CvTypeOK, CvSpinMatchesPC, Goto
<1>2. QED
  BY <1>1, CvQuietInv

LEMMA CvPanicInv ==
  ASSUME CvIInv, NEW t \in Threads, NEW from,
         NEW why \in {"wait", "broadcast", "assertion"}, Panic(t, from, why)
  PROVE  CvIInv'
BY DEF CvIInv, Panic, CvTypeOK, CvSpinMatchesPC, CvMutualExclusion,
       SleepersQueued, WaitersQueued, NoLostWakeup

\* lock_release from any of its three callers: the holder frees the lock and
\* wakes the thread that has slept longest for it.
LEMMA CvReleaseInv ==
  ASSUME CvIInv, NEW t \in Threads, NEW from, NEW to, to \in CvLabels,
         from \in CvOwning \cap CvHolding, to \in CvHolding \ CvOwning, to \notin Asleep,
         LockOnly(ReleaseBody(t, from, to))
  PROVE  CvIInv'
<1> USE DEF CvIInv, LockOnly
<1>1. /\ pc[t] = from /\ pc[t] \notin Asleep /\ holder = t
      /\ holder' = NoOne /\ spinlock' = spinlock
      /\ UNCHANGED <<cv_wchan, panicked>>
  BY DEF ReleaseBody, CvMutualExclusion, CvOwning, Owning, Asleep
<1>2. CASE lock_wchan = <<>>
  <2>1. Goto(t, to) /\ UNCHANGED lock_wchan
    BY <1>2 DEF ReleaseBody
  <2>2. CvTypeOK'
    BY <1>1, <2>1 DEF CvTypeOK, Goto
  <2>3. CvSpinMatchesPC'
    BY <1>1, <2>1 DEF CvTypeOK, CvSpinMatchesPC, Goto
  <2>4. CvMutualExclusion'
    BY <1>1, <2>1, SleepLockAssumption DEF CvTypeOK, CvMutualExclusion, Goto
  <2>5. SleepersQueued' /\ WaitersQueued'
    BY <1>1, <2>1 DEF CvTypeOK, SleepersQueued, WaitersQueued, Goto, Asleep
  <2>6. NoLostWakeup'
    BY <1>2, <2>1 DEF NoLostWakeup
  <2>7. QED
    BY <2>2, <2>3, <2>4, <2>5, <2>6
<1>3. CASE lock_wchan # <<>>
  <2>1. PICK h : h = Head(lock_wchan)
    OBVIOUS
  <2>2. /\ lock_wchan' = Tail(lock_wchan)
        /\ pc' = [pc EXCEPT ![t] = to, ![h] = "A_awake"]
    BY <1>3, <2>1 DEF ReleaseBody
  <2>3. /\ h \in Threads
        /\ h = lock_wchan[1] /\ 1 \in 1 .. Len(lock_wchan)
        /\ lock_wchan' \in Seq(Threads)
        /\ \A x : (\E i \in 1 .. Len(lock_wchan') : lock_wchan'[i] = x)
                    <=> (x # h /\ \E i \in 1 .. Len(lock_wchan) : lock_wchan[i] = x)
        /\ \A i, j \in 1 .. Len(lock_wchan') : lock_wchan'[i] = lock_wchan'[j] => i = j
    <3>1. /\ lock_wchan \in Seq(Threads)
          /\ \A i, j \in 1 .. Len(lock_wchan) : lock_wchan[i] = lock_wchan[j] => i = j
      BY DEF CvTypeOK, SleepersQueued
    <3>2. h \in Threads /\ h = lock_wchan[1] /\ 1 \in 1 .. Len(lock_wchan)
      BY <1>3, <2>1, <3>1
    <3>3. QED
      BY <1>3, <2>1, <2>2, <3>1, <3>2, QueueTail
  <2>4. pc[h] = "A_asleep" /\ h # t
    BY <1>1, <2>3 DEF SleepersQueued, Asleep
  <2>5. \A u \in Threads :
          pc'[u] = IF u = t THEN to ELSE IF u = h THEN "A_awake" ELSE pc[u]
    BY <2>2, <2>3, <2>4 DEF CvTypeOK
  <2>6. CvTypeOK'
    BY <1>1, <2>2, <2>3 DEF CvTypeOK, CvLabels, LockLabels
  <2>7. CvSpinMatchesPC'
    <3>1. \A u \in Threads : pc'[u] \in CvHolding <=> pc[u] \in CvHolding
      BY <1>1, <2>4, <2>5 DEF CvHolding, Holding
    <3>2. QED
      BY <1>1, <3>1 DEF CvSpinMatchesPC
  <2>8. CvMutualExclusion'
    <3>1. \A u \in Threads : pc'[u] \in CvOwning <=> (pc[u] \in CvOwning /\ u # t)
      BY <1>1, <2>4, <2>5 DEF CvOwning, Owning
    <3>2. QED
      BY <1>1, <3>1, SleepLockAssumption DEF CvMutualExclusion
  <2>9. SleepersQueued'
    <3>1. \A u \in Threads : pc'[u] = "A_asleep" <=> (u # h /\ pc[u] = "A_asleep")
      BY <1>1, <2>4, <2>5 DEF Asleep
    <3>2. QED
      BY <2>3, <3>1 DEF SleepersQueued
  <2>10. WaitersQueued'
    <3>1. \A u \in Threads : pc'[u] = "W_asleep" <=> pc[u] = "W_asleep"
      BY <1>1, <2>4, <2>5 DEF Asleep
    <3>2. QED
      BY <1>1, <3>1 DEF WaitersQueued
  <2>11. NoLostWakeup'
    BY <2>3, <2>4, <2>5 DEF NoLostWakeup
  <2>12. QED
    BY <2>6, <2>7, <2>8, <2>9, <2>10, <2>11
<1>4. QED
  BY <1>2, <1>3

-----------------------------------------------------------------------------
(* The steps of the lock, and the calls and returns of the cv operations.  *)

LEMMA CvLockStepInv ==
  ASSUME CvIInv, NEW t \in Threads, LockStep(t)
  PROVE  CvIInv'
<1> USE DEF CvIInv
<1>1. CASE LockOnly(AcquireCall(t) \/ ReleaseCall(t))
  <2>1. PICK from \in {"out", "crit"}, to \in {"A_enter", "R_enter"} :
          /\ pc[t] = from /\ Goto(t, to)
          /\ UNCHANGED <<holder, lock_wchan, spinlock, cv_wchan, panicked>>
          /\ from = "crit" <=> to = "R_enter"
    BY <1>1 DEF LockOnly, AcquireCall, ReleaseCall
  <2>2. Quiet(from, to) /\ from \notin CvHolding /\ to \notin CvHolding
    BY <2>1 DEF Quiet, CvLabels, LockLabels, Asleep, Awake, CvOwning, Owning, CvHolding, Holding
  <2>3. QED
    BY <2>1, <2>2, CvMoveInv
<1>2. CASE LockOnly(AcquireEnter(t) \/ AcquireRelock(t) \/ ReleaseEnter(t))
  <2>1. PICK from \in {"A_enter", "A_awake", "R_enter"}, to \in {"A_test", "R_body"} :
          LockOnly(SpinAcquire(t, from, to)) /\ (from = "R_enter" <=> to = "R_body")
    BY <1>2 DEF LockOnly, AcquireEnter, AcquireRelock, ReleaseEnter
  <2>2. Quiet(from, to) /\ to \in CvHolding
    BY <2>1 DEF Quiet, CvLabels, LockLabels, Asleep, Awake, CvOwning, Owning, CvHolding, Holding
  <2>3. QED
    BY <2>1, <2>2, CvSpinAcquireInv
<1>3. CASE LockOnly(AcquireLeave(t) \/ ReleaseLeave(t))
  <2>1. PICK from \in {"A_leave", "R_leave"}, to \in {"crit", "out"} :
          LockOnly(SpinRelease(t, from, to)) /\ (from = "A_leave" <=> to = "crit")
    BY <1>3 DEF LockOnly, AcquireLeave, ReleaseLeave
  <2>2. Quiet(from, to) /\ to \notin CvHolding
    BY <2>1 DEF Quiet, CvLabels, LockLabels, Asleep, Awake, CvOwning, Owning, CvHolding, Holding
  <2>3. QED
    BY <2>1, <2>2, CvSpinReleaseInv
<1>4. CASE LockOnly(AcquireSleep(t))
  <2>1. /\ pc[t] = "A_test" /\ Goto(t, "A_asleep") /\ holder # NoOne
        /\ lock_wchan' = Append(lock_wchan, t) /\ spinlock = t /\ spinlock' = NoOne
        /\ UNCHANGED <<holder, cv_wchan, panicked>>
    BY <1>4 DEF LockOnly, AcquireSleep, CvSpinMatchesPC, CvHolding, Holding
  <2>2. \A u \in Threads : pc'[u] = IF u = t THEN "A_asleep" ELSE pc[u]
    BY <2>1 DEF Goto, CvTypeOK
  <2>3. /\ lock_wchan' \in Seq(Threads)
        /\ \A x : (\E i \in 1 .. Len(lock_wchan') : lock_wchan'[i] = x)
                    <=> (x = t \/ \E i \in 1 .. Len(lock_wchan) : lock_wchan[i] = x)
        /\ \A i, j \in 1 .. Len(lock_wchan') : lock_wchan'[i] = lock_wchan'[j] => i = j
    <3>1. /\ lock_wchan \in Seq(Threads)
          /\ ~ \E i \in 1 .. Len(lock_wchan) : lock_wchan[i] = t
          /\ \A i, j \in 1 .. Len(lock_wchan) : lock_wchan[i] = lock_wchan[j] => i = j
      BY <2>1 DEF CvTypeOK, SleepersQueued
    <3>2. QED
      BY <2>1, <3>1, QueueAppend
  <2>4. CvTypeOK'
    BY <2>1, <2>3 DEF CvTypeOK, Goto, CvLabels, LockLabels
  <2>5. CvSpinMatchesPC'
    BY <2>1, <2>2, SleepLockAssumption DEF CvSpinMatchesPC, CvHolding, Holding
  <2>6. CvMutualExclusion'
    BY <2>1, <2>2 DEF CvMutualExclusion, CvOwning, Owning
  <2>7. SleepersQueued'
    <3>1. \A u \in Threads : pc'[u] = "A_asleep" <=> (u = t \/ pc[u] = "A_asleep")
      BY <2>2
    <3>2. QED
      BY <2>3, <3>1 DEF SleepersQueued
  <2>8. WaitersQueued'
    <3>1. \A u \in Threads : pc'[u] = "W_asleep" <=> pc[u] = "W_asleep"
      BY <2>1, <2>2
    <3>2. QED
      BY <2>1, <3>1 DEF WaitersQueued
  <2>9. NoLostWakeup'
    BY <2>1 DEF NoLostWakeup
  <2>10. QED
    BY <2>4, <2>5, <2>6, <2>7, <2>8, <2>9
<1>5. CASE LockOnly(AcquireTake(t))
  <2>1. /\ pc[t] = "A_test" /\ Goto(t, "A_leave") /\ holder = NoOne /\ holder' = t
        /\ UNCHANGED <<lock_wchan, spinlock, cv_wchan, panicked>>
    BY <1>5 DEF LockOnly, AcquireTake
  <2>2. \A u \in Threads : pc'[u] = IF u = t THEN "A_leave" ELSE pc[u]
    BY <2>1 DEF Goto, CvTypeOK
  <2>3. CvTypeOK'
    BY <2>1 DEF CvTypeOK, Goto, CvLabels, LockLabels
  <2>4. CvSpinMatchesPC'
    BY <2>1, <2>2 DEF CvSpinMatchesPC, CvHolding, Holding
  <2>5. CvMutualExclusion'
    BY <2>1, <2>2, SleepLockAssumption DEF CvMutualExclusion, CvOwning, Owning
  <2>6. SleepersQueued' /\ WaitersQueued'
    BY <2>1, <2>2 DEF SleepersQueued, WaitersQueued
  <2>7. NoLostWakeup'
    BY <2>1, SleepLockAssumption DEF NoLostWakeup
  <2>8. QED
    BY <2>3, <2>4, <2>5, <2>6, <2>7
<1>6. CASE LockOnly(ReleaseFree(t))
  BY <1>6, CvReleaseInv
     DEF ReleaseFree, CvLabels, LockLabels, CvOwning, Owning, CvHolding, Holding, Asleep
<1>7. QED
  BY <1>1, <1>2, <1>3, <1>4, <1>5, <1>6 DEF LockStep, LockOnly, AcquireStep, ReleaseStep

LEMMA CvCallInv ==
  ASSUME CvIInv, NEW t \in Threads, WaitCall(t) \/ SignalCall(t) \/ BroadcastCall(t)
  PROVE  CvIInv'
<1>1. ASSUME NEW to \in {"W_rel_enter", "S_enter", "B_enter"}, Move(t, "crit", to)
      PROVE  CvIInv'
  <2>1. Quiet("crit", to) /\ "crit" \notin CvHolding /\ to \notin CvHolding
    BY <1>1 DEF Quiet, CvLabels, LockLabels, Asleep, Awake, CvOwning, Owning, CvHolding, Holding
  <2>2. QED
    BY <1>1, <2>1, CvMoveInv DEF Move
<1>2. pc[t] = "crit" => holder = t
  BY DEF CvIInv, CvMutualExclusion, CvOwning, Owning
<1>3. QED
  BY <1>1, <1>2 DEF WaitCall, SignalCall, BroadcastCall, Move, Panic

-----------------------------------------------------------------------------
(* Sleeping on the cv's channel and waking from it.                        *)

LEMMA WaitSleepInv ==
  ASSUME CvIInv, NEW t \in Threads, WaitSleep(t)
  PROVE  CvIInv'
<1> USE DEF CvIInv
<1>1. /\ pc[t] = "W_sleep" /\ Goto(t, "W_asleep")
      /\ cv_wchan' = Append(cv_wchan, t) /\ spinlock = t /\ spinlock' = NoOne
      /\ UNCHANGED <<holder, lock_wchan, panicked>>
  BY DEF WaitSleep, CvSpinMatchesPC, CvHolding
<1>2. \A u \in Threads : pc'[u] = IF u = t THEN "W_asleep" ELSE pc[u]
  BY <1>1 DEF Goto, CvTypeOK
<1>3. /\ cv_wchan' \in Seq(Threads)
      /\ \A x : (\E i \in 1 .. Len(cv_wchan') : cv_wchan'[i] = x)
                  <=> (x = t \/ \E i \in 1 .. Len(cv_wchan) : cv_wchan[i] = x)
      /\ \A i, j \in 1 .. Len(cv_wchan') : cv_wchan'[i] = cv_wchan'[j] => i = j
  <2>1. /\ cv_wchan \in Seq(Threads)
        /\ ~ \E i \in 1 .. Len(cv_wchan) : cv_wchan[i] = t
        /\ \A i, j \in 1 .. Len(cv_wchan) : cv_wchan[i] = cv_wchan[j] => i = j
    BY <1>1 DEF CvTypeOK, WaitersQueued
  <2>2. PICK q : q = Append(cv_wchan, t)
    OBVIOUS
  <2>3. /\ q \in Seq(Threads)
        /\ \A x : (\E i \in 1 .. Len(q) : q[i] = x)
                    <=> (x = t \/ \E i \in 1 .. Len(cv_wchan) : cv_wchan[i] = x)
        /\ \A i, j \in 1 .. Len(q) : q[i] = q[j] => i = j
    BY <2>1, <2>2, QueueAppend
  <2>4. cv_wchan' = q
    BY <1>1, <2>2
  <2>5. QED
    BY <2>3, <2>4, Zenon
<1>4. CvTypeOK'
  BY <1>1, <1>3 DEF CvTypeOK, Goto, CvLabels
<1>5. CvSpinMatchesPC'
  BY <1>1, <1>2, SleepLockAssumption DEF CvSpinMatchesPC, CvHolding, Holding
<1>6. CvMutualExclusion'
  BY <1>1, <1>2 DEF CvMutualExclusion, CvOwning, Owning
<1>7. SleepersQueued'
  <2>1. \A u \in Threads : pc'[u] = "A_asleep" <=> pc[u] = "A_asleep"
    BY <1>1, <1>2
  <2>2. QED
    BY <1>1, <2>1 DEF SleepersQueued
<1>8. WaitersQueued'
  <2>1. \A u \in Threads : pc'[u] = "W_asleep" <=> (u = t \/ pc[u] = "W_asleep")
    BY <1>2
  <2>2. QED
    BY <1>3, <2>1 DEF WaitersQueued
<1>9. NoLostWakeup'
  BY <1>1, <1>2 DEF NoLostWakeup
<1>10. QED
  BY <1>4, <1>5, <1>6, <1>7, <1>8, <1>9

\* Waking threads from the cv's channel: those in Woken leave it, everybody
\* else stays where he was except the caller, who moves on.
Wakes(t, to, Woken) ==
  /\ Quiet(pc[t], to) /\ pc[t] \in CvHolding /\ to \in CvHolding
  /\ \A u \in Woken : u \in Threads /\ pc[u] = "W_asleep"
  /\ pc' \in [Threads -> CvLabels]
  /\ \A u \in Threads :
       pc'[u] = IF u = t THEN to ELSE IF u \in Woken THEN "W_awake" ELSE pc[u]
  /\ cv_wchan' \in Seq(Threads)
  /\ \A x : (\E i \in 1 .. Len(cv_wchan') : cv_wchan'[i] = x)
              <=> (x \notin Woken /\ \E i \in 1 .. Len(cv_wchan) : cv_wchan[i] = x)
  /\ \A i, j \in 1 .. Len(cv_wchan') : cv_wchan'[i] = cv_wchan'[j] => i = j
  /\ UNCHANGED <<holder, lock_wchan, spinlock, panicked>>

LEMMA CvWakeInv ==
  ASSUME CvIInv, NEW t \in Threads, NEW to, NEW Woken, Wakes(t, to, Woken)
  PROVE  CvIInv'
<1> USE DEF CvIInv, Wakes
<1>1. t \notin Woken
  BY DEF Quiet, Asleep
<1>2. CvTypeOK'
  BY DEF CvTypeOK
<1>3. CvSpinMatchesPC'
  BY DEF CvSpinMatchesPC, CvHolding, Holding
<1>4. CvMutualExclusion'
  BY DEF CvMutualExclusion, CvOwning, Owning, Quiet
<1>5. SleepersQueued'
  <2>1. \A u \in Threads : pc'[u] = "A_asleep" <=> pc[u] = "A_asleep"
    BY DEF Quiet, Asleep
  <2>2. QED
    BY <2>1 DEF SleepersQueued
<1>6. WaitersQueued'
  <2>1. \A u \in Threads : pc'[u] = "W_asleep" <=> (u \notin Woken /\ pc[u] = "W_asleep")
    BY <1>1 DEF Quiet, Asleep
  <2>2. QED
    BY <2>1 DEF WaitersQueued
<1>7. NoLostWakeup'
  BY DEF NoLostWakeup, Quiet, Awake
<1>8. QED
  BY <1>2, <1>3, <1>4, <1>5, <1>6, <1>7

LEMMA SignalWakeInv ==
  ASSUME CvIInv, NEW t \in Threads, SignalWake(t)
  PROVE  CvIInv'
<1> USE DEF CvIInv
<1>1. /\ pc[t] = "S_body" /\ Quiet(pc[t], "S_leave") /\ "S_leave" \in CvLabels
      /\ pc[t] \in CvHolding /\ "S_leave" \in CvHolding
      /\ UNCHANGED <<holder, lock_wchan, spinlock, panicked>>
  BY DEF SignalWake, Quiet, CvLabels, Asleep, Awake, CvOwning, Owning, CvHolding, Holding
<1>2. CASE cv_wchan = <<>>
  <2>1. Goto(t, "S_leave") /\ UNCHANGED cv_wchan
    BY <1>2 DEF SignalWake
  <2>2. CvSpinMatchesPC'
    BY <1>1, <2>1 DEF CvTypeOK, CvSpinMatchesPC, Goto
  <2>3. QED
    BY <1>1, <2>1, <2>2, CvQuietInv DEF CvTypeOK
<1>3. CASE cv_wchan # <<>>
  <2>1. PICK h : h = Head(cv_wchan)
    OBVIOUS
  <2>2. /\ cv_wchan' = Tail(cv_wchan)
        /\ pc' = [pc EXCEPT ![t] = "S_leave", ![h] = "W_awake"]
    BY <1>3, <2>1 DEF SignalWake
  <2>3. /\ cv_wchan \in Seq(Threads)
        /\ \A i, j \in 1 .. Len(cv_wchan) : cv_wchan[i] = cv_wchan[j] => i = j
    BY DEF CvTypeOK, WaitersQueued
  <2>4. h \in Threads /\ h = cv_wchan[1] /\ 1 \in 1 .. Len(cv_wchan)
    BY <1>3, <2>1, <2>3
  <2>5. pc[h] = "W_asleep" /\ h # t
    BY <1>1, <2>4 DEF WaitersQueued
  <2>6. /\ cv_wchan' \in Seq(Threads)
        /\ \A x : (\E i \in 1 .. Len(cv_wchan') : cv_wchan'[i] = x)
                    <=> (x # h /\ \E i \in 1 .. Len(cv_wchan) : cv_wchan[i] = x)
        /\ \A i, j \in 1 .. Len(cv_wchan') : cv_wchan'[i] = cv_wchan'[j] => i = j
    <3>1. /\ Tail(cv_wchan) \in Seq(Threads)
          /\ \A x : (\E i \in 1 .. Len(Tail(cv_wchan)) : Tail(cv_wchan)[i] = x)
                      <=> (x # Head(cv_wchan) /\ \E i \in 1 .. Len(cv_wchan) : cv_wchan[i] = x)
          /\ \A i, j \in 1 .. Len(Tail(cv_wchan)) : Tail(cv_wchan)[i] = Tail(cv_wchan)[j] => i = j
      BY <1>3, <2>3, QueueTail
    <3>2. QED
      BY <2>1, <2>2, <3>1
  <2>7. PICK Woken : Woken = {h}
    OBVIOUS
  <2>8. /\ pc' \in [Threads -> CvLabels]
        /\ \A u \in Threads :
             pc'[u] = IF u = t THEN "S_leave" ELSE IF u \in Woken THEN "W_awake" ELSE pc[u]
    BY <2>2, <2>4, <2>5, <2>7 DEF CvTypeOK, CvLabels
  <2>9. \A u \in Woken : u \in Threads /\ pc[u] = "W_asleep"
    BY <2>4, <2>5, <2>7
  <2>10. \A x : (\E i \in 1 .. Len(cv_wchan') : cv_wchan'[i] = x)
                  <=> (x \notin Woken /\ \E i \in 1 .. Len(cv_wchan) : cv_wchan[i] = x)
    BY <2>6, <2>7
  <2>11. Wakes(t, "S_leave", Woken)
    BY <1>1, <2>6, <2>8, <2>9, <2>10 DEF Wakes
  <2>12. QED
    BY <2>11, CvWakeInv
<1>4. QED
  BY <1>2, <1>3

LEMMA BroadcastWakeInv ==
  ASSUME CvIInv, NEW t \in Threads, BroadcastWake(t)
  PROVE  CvIInv'
<1> USE DEF CvIInv
<1> DEFINE Woken == {u \in Threads : \E i \in 1 .. Len(cv_wchan) : cv_wchan[i] = u}
<1>1. /\ pc[t] = "B_body" /\ Quiet(pc[t], "B_release") /\ "B_release" \in CvLabels
      /\ pc[t] \in CvHolding /\ "B_release" \in CvHolding
      /\ cv_wchan' = <<>>
      /\ UNCHANGED <<holder, lock_wchan, spinlock, panicked>>
  BY DEF BroadcastWake, Quiet, CvLabels, Asleep, Awake, CvOwning, Owning, CvHolding, Holding
<1>2. cv_wchan \in Seq(Threads) /\ DOMAIN cv_wchan = 1 .. Len(cv_wchan)
  BY DEF CvTypeOK
<1>3. \A u \in Woken : u \in Threads /\ pc[u] = "W_asleep"
  BY DEF WaitersQueued
<1>4. pc' = [u \in Threads |->
               IF u = t THEN "B_release" ELSE IF u \in Woken THEN "W_awake" ELSE pc[u]]
  BY <1>2 DEF BroadcastWake
<1>5. /\ pc' \in [Threads -> CvLabels]
      /\ \A u \in Threads :
           pc'[u] = IF u = t THEN "B_release" ELSE IF u \in Woken THEN "W_awake" ELSE pc[u]
  <2> HIDE DEF Woken
  <2>1. "W_awake" \in CvLabels
    BY DEF CvLabels
  <2>2. QED
    BY <1>1, <1>4, <2>1 DEF CvTypeOK
<1>6. \A x : (\E i \in 1 .. Len(cv_wchan) : cv_wchan[i] = x) => x \in Woken
  BY <1>2
<1>7. /\ cv_wchan' \in Seq(Threads)
      /\ \A x : (\E i \in 1 .. Len(cv_wchan') : cv_wchan'[i] = x)
                  <=> (x \notin Woken /\ \E i \in 1 .. Len(cv_wchan) : cv_wchan[i] = x)
      /\ \A i, j \in 1 .. Len(cv_wchan') : cv_wchan'[i] = cv_wchan'[j] => i = j
  <2> HIDE DEF Woken
  <2>1. cv_wchan' \in Seq(Threads) /\ Len(cv_wchan') = 0
    BY <1>1
  <2>2. QED
    BY <1>6, <2>1
<1>8. QED
  <2> HIDE DEF Woken
  <2>1. Wakes(t, "B_release", Woken)
    BY <1>1, <1>3, <1>5, <1>7 DEF Wakes
  <2>2. QED
    BY <2>1, CvWakeInv

LEMMA CvStepInv ==
  ASSUME CvIInv, NEW t \in Threads, WaitStep(t) \/ SignalStep(t) \/ BroadcastStep(t)
  PROVE  CvIInv'
<1> DEFINE Enters == {<<"W_rel_enter", "W_rel_body">>, <<"W_enter", "W_sleep">>,
                      <<"W_awake", "W_relock">>, <<"S_enter", "S_body">>,
                      <<"S_rel_enter", "S_rel_body">>, <<"B_enter", "B_body">>}
           Leaves == {<<"W_rel_leave", "W_enter">>, <<"S_leave", "S_check">>,
                      <<"S_rel_leave", "out">>}
           Frees  == {<<"W_rel_body", "W_rel_leave">>, <<"S_rel_body", "S_rel_leave">>}
<1>1. ASSUME NEW m \in Enters, LockOnly(SpinAcquire(t, m[1], m[2]))
      PROVE  CvIInv'
  <2>1. Quiet(m[1], m[2]) /\ m[2] \in CvHolding
    BY DEF Quiet, CvLabels, LockLabels, Asleep, Awake, CvOwning, Owning, CvHolding, Holding
  <2>2. QED
    BY <1>1, <2>1, CvSpinAcquireInv
<1>2. ASSUME NEW m \in Leaves, LockOnly(SpinRelease(t, m[1], m[2]))
      PROVE  CvIInv'
  <2>1. Quiet(m[1], m[2]) /\ m[2] \notin CvHolding
    BY DEF Quiet, CvLabels, LockLabels, Asleep, Awake, CvOwning, Owning, CvHolding, Holding
  <2>2. QED
    BY <1>2, <2>1, CvSpinReleaseInv
<1>3. ASSUME NEW m \in Frees, LockOnly(ReleaseBody(t, m[1], m[2]))
      PROVE  CvIInv'
  <2>1. /\ m[2] \in CvLabels /\ m[1] \in CvOwning \cap CvHolding
        /\ m[2] \in CvHolding \ CvOwning /\ m[2] \notin Asleep
    BY DEF CvLabels, LockLabels, CvOwning, Owning, CvHolding, Holding, Asleep
  <2>2. QED
    BY <1>3, <2>1, CvReleaseInv
<1>4. CASE WaitStep(t)
  BY <1>1, <1>2, <1>3, <1>4, WaitSleepInv, CvPanicInv
     DEF WaitStep, WaitRelease, WaitEnter, WaitRelock, WaitReacquire, SpinOnOwn
<1>5. ASSUME Move(t, "S_check", "S_rel_enter") \/ (holder # t /\ Move(t, "S_check", "out"))
      PROVE  CvIInv'
  <2>1. pc[t] = "S_check" /\ holder = t
    BY <1>5 DEF Move, CvIInv, CvMutualExclusion, CvOwning
  <2>2. /\ Quiet("S_check", "S_rel_enter")
        /\ "S_check" \notin CvHolding /\ "S_rel_enter" \notin CvHolding
    BY DEF Quiet, CvLabels, Asleep, Awake, CvOwning, Owning, CvHolding, Holding
  <2>3. QED
    BY <1>5, <2>1, <2>2, CvMoveInv DEF Move
<1>6. CASE SignalStep(t)
  BY <1>1, <1>2, <1>3, <1>5, <1>6, SignalWakeInv DEF SignalStep, SignalRelease
<1>7. CASE BroadcastStep(t)
  BY <1>1, <1>7, BroadcastWakeInv, CvPanicInv
     DEF BroadcastStep, BroadcastEnter, BroadcastRelease, SpinOnOwn
<1>8. QED
  BY <1>4, <1>6, <1>7

LEMMA CvNextInv == CvIInv /\ [CvNext]_cvVars => CvIInv'
<1> SUFFICES ASSUME CvIInv, [CvNext]_cvVars PROVE CvIInv'
  OBVIOUS
<1>1. CASE CvNext
  BY <1>1, CvLockStepInv, CvCallInv, CvStepInv DEF CvNext
<1>2. CASE UNCHANGED cvVars
  BY <1>2 DEF cvVars, CvIInv, CvTypeOK, CvSpinMatchesPC, CvMutualExclusion,
              SleepersQueued, WaitersQueued, NoLostWakeup
<1>3. QED
  BY <1>1, <1>2

-----------------------------------------------------------------------------
(* Theorems about the condition variable.                                  *)

\* The inductive invariant of the lock and the cv together.
THEOREM CvInvariance == CvSpec => []CvIInv
BY CvInitInv, CvNextInv, PTL DEF CvSpec

\* Clients that know that cv_signal gives the lock away keep mutual exclusion
\* through waits, signals and broadcasts (synch.c:286-350), whatever the number
\* of threads and the mix of operations.
THEOREM CvHolderUnique == CvSpec => []CvOneHolder
<1>1. CvIInv => CvOneHolder
  BY DEF CvIInv, CvOneHolder
<1>2. QED
  BY <1>1, CvInvariance, PTL

\* A free lock is never left with sleepers and nobody awake to take it, be it
\* freed by lock_release, by cv_wait or by cv_signal.
THEOREM CvNoWakeupIsLost == CvSpec => []NoLostWakeup
<1>1. CvIInv => NoLostWakeup
  BY DEF CvIInv
<1>2. QED
  BY <1>1, CvInvariance, PTL

\* A member of a queue without repetitions is on it once.
LEMMA OnceInQueue ==
  ASSUME NEW q, NEW S, q \in Seq(S), NEW t, \E i \in 1 .. Len(q) : q[i] = t,
         \A i, j \in 1 .. Len(q) : q[i] = q[j] => i = j
  PROVE  Once(q, t)
<1>1. PICK k \in 1 .. Len(q) : q[k] = t
  OBVIOUS
<1>2. {i \in DOMAIN q : q[i] = t} = {k}
  BY <1>1
<1>3. QED
  BY <1>2, FS_Singleton DEF Once

\* The two channels under the one spinlock are never confused: a sleeper in
\* lock_acquire is on the lock's channel only, a waiter on the cv's only
\* (synch.c:200-203 and 298-300), and nobody who is awake is on either.
THEOREM ChannelsNeverMixed == CvSpec => []ChannelsAgree
<1>1. CvIInv => ChannelsAgree
  <2>1. SUFFICES ASSUME CvIInv PROVE ChannelsAgree
    OBVIOUS
  <2>2. /\ lock_wchan \in Seq(Threads) /\ cv_wchan \in Seq(Threads)
        /\ DOMAIN lock_wchan = 1 .. Len(lock_wchan)
        /\ DOMAIN cv_wchan = 1 .. Len(cv_wchan)
    BY <2>1 DEF CvIInv, CvTypeOK
  <2>3. ASSUME NEW t \in Threads
        PROVE  /\ IF pc[t] = "A_asleep" THEN Once(lock_wchan, t) ELSE Absent(lock_wchan, t)
               /\ IF pc[t] = "W_asleep" THEN Once(cv_wchan, t) ELSE Absent(cv_wchan, t)
    BY <2>1, <2>2, OnceInQueue DEF CvIInv, SleepersQueued, WaitersQueued, Absent
  <2>4. QED
    BY <2>3 DEF ChannelsAgree
<1>2. QED
  BY <1>1, CvInvariance, PTL

-----------------------------------------------------------------------------
(* The semaphore.                                                          *)

\* The labels at which a caller holds the semaphore's spinlock.
SemHolding == {"P_test", "P_leave", "V_body", "V_leave"}

\* The spinlock has the holder the program counters say it has.
LockMatchesPC ==
  \A a \in Callers : sem_pc[a] \in SemHolding <=> sem_lock = a

SemIInv == SemTypeOK /\ LockMatchesPC /\ SemSleepersQueued /\ SemNoLostWakeup

-----------------------------------------------------------------------------
(* A wait channel's thread list: a queue without repetitions.               *)


-----------------------------------------------------------------------------
(* Contenders is a finite set that grows and shrinks by one thread.        *)

LEMMA ContendersFinite ==
  /\ IsFiniteSet(Contenders)
  /\ Cardinality(Contenders) \in Nat
<1>1. IsFiniteSet(Contenders)
  BY SemaphoreAssumption, FS_Subset DEF Contenders
<1>2. QED
  BY <1>1, FS_CardinalityType

LEMMA ContendersFiniteNext ==
  /\ IsFiniteSet(Contenders')
  /\ Cardinality(Contenders') \in Nat
<1>1. IsFiniteSet(Contenders')
  BY SemaphoreAssumption, FS_Subset DEF Contenders
<1>2. QED
  BY <1>1, FS_CardinalityType

\* A thread that becomes a contender makes one more of them.
LEMMA ContenderJoins ==
  ASSUME NEW t, t \notin Contenders, Contenders' = Contenders \cup {t}
  PROVE  Cardinality(Contenders') = Cardinality(Contenders) + 1
BY ContendersFinite, FS_AddElement

\* A contender that takes a unit makes one fewer.
LEMMA ContenderLeaves ==
  ASSUME NEW t, t \in Contenders, Contenders' = Contenders \ {t}
  PROVE  Cardinality(Contenders') = Cardinality(Contenders) - 1
BY ContendersFinite, FS_RemoveElement

-----------------------------------------------------------------------------
(* The invariant is inductive.                                             *)

LEMMA SemInitInv == SemInit => SemIInv
<1> SUFFICES ASSUME SemInit PROVE SemIInv
  OBVIOUS
<1>1. SemTypeOK
  <2>1. sem_wchan \in Seq(Threads)
    BY DEF SemInit
  <2>2. sem_pc \in [Callers -> Labels]
    BY DEF SemInit, Labels
  <2>3. QED
    BY <2>1, <2>2, SemaphoreAssumption DEF SemInit, SemTypeOK
<1>2. LockMatchesPC
  BY SemaphoreAssumption DEF SemInit, LockMatchesPC, SemHolding
<1>3. SemSleepersQueued
  BY DEF SemInit, SemSleepersQueued, Callers
<1>4. SemNoLostWakeup
  BY DEF SemInit, SemNoLostWakeup
<1>5. QED
  BY <1>1, <1>2, <1>3, <1>4 DEF SemIInv

\* A caller that is not going to sleep and was not asleep moves on, and the
\* channel stays as it is.
LEMMA MoveKeepsQueue ==
  ASSUME SemSleepersQueued, SemTypeOK, NEW a \in Callers, NEW l \in Labels,
         SemGoto(a, l), UNCHANGED sem_wchan,
         sem_pc[a] # "P_asleep", l # "P_asleep"
  PROVE  SemSleepersQueued'
BY DEF SemSleepersQueued, SemTypeOK, SemGoto, Callers

\* Moving between two labels that are both inside or both outside the
\* contenders' labels leaves the contenders as they are.
LEMMA MoveKeepsContenders ==
  ASSUME SemTypeOK, NEW a \in Callers, NEW l \in Labels, SemGoto(a, l),
         sem_pc[a] \in {"P_awake", "P_test"} <=> l \in {"P_awake", "P_test"}
  PROVE  Contenders' = Contenders
BY DEF SemTypeOK, SemGoto, Callers, Contenders

LEMMA SemCallInv ==
  ASSUME SemIInv, NEW a \in Callers, PCall(a) \/ VCall(a)
  PROVE  SemIInv'
<1> USE DEF SemIInv
<1>1. PICK l \in {"P_enter", "V_enter"} :
        sem_pc[a] = "out" /\ SemGoto(a, l) /\ UNCHANGED <<sem_count, sem_wchan, sem_lock, sem_panicked>>
  BY DEF PCall, VCall
<1>2. SemTypeOK'
  BY <1>1 DEF SemTypeOK, SemGoto, Labels
<1>3. LockMatchesPC'
  BY <1>1 DEF SemTypeOK, LockMatchesPC, SemGoto, SemHolding
<1>4. SemSleepersQueued'
  BY <1>1, MoveKeepsQueue DEF Labels
<1>5. SemNoLostWakeup'
  <2>1. Contenders' = Contenders
    BY <1>1, MoveKeepsContenders DEF Labels
  <2>2. QED
    BY <1>1, <2>1 DEF SemNoLostWakeup
<1>6. QED
  BY <1>2, <1>3, <1>4, <1>5

LEMMA SemSpinAcquireInv ==
  ASSUME SemIInv, NEW a \in Callers,
         PEnter(a) \/ PRelock(a) \/ VEnter(a)
  PROVE  SemIInv'
<1> USE DEF SemIInv
<1>1. PICK from \in {"P_enter", "P_awake", "V_enter"}, to \in {"P_test", "V_body"} :
        /\ SemSpinAcquire(a, from, to)
        /\ from = "V_enter" <=> to = "V_body"
  BY DEF PEnter, PRelock, VEnter
<1>2. SemTypeOK'
  BY <1>1 DEF SemTypeOK, SemSpinAcquire, SemGoto, Labels
<1>3. LockMatchesPC'
  BY <1>1, SemaphoreAssumption DEF SemTypeOK, LockMatchesPC, SemSpinAcquire, SemGoto, SemHolding
<1>4. SemSleepersQueued'
  BY <1>1, MoveKeepsQueue DEF SemSpinAcquire, Labels
<1>5. SemNoLostWakeup'
  <2>1. SUFFICES Cardinality(Contenders') \in Nat /\ Cardinality(Contenders') >= Cardinality(Contenders)
    BY <1>1, ContendersFinite DEF SemNoLostWakeup, SemSpinAcquire, SemTypeOK
  <2>2. CASE from = "P_enter" /\ a \in Threads
    <3>1. a \notin Contenders /\ Contenders' = Contenders \cup {a}
      BY <1>1, <2>2 DEF SemSpinAcquire, SemGoto, Contenders, SemTypeOK
    <3>2. QED
      BY <3>1, ContenderJoins, ContendersFinite
  <2>3. CASE ~ (from = "P_enter" /\ a \in Threads)
    <3>1. Contenders' = Contenders
      BY <1>1, <2>3 DEF SemSpinAcquire, SemGoto, Contenders, SemTypeOK
    <3>2. QED
      BY <3>1, ContendersFinite
  <2>4. QED
    BY <2>2, <2>3
<1>6. QED
  BY <1>2, <1>3, <1>4, <1>5

LEMMA SemSpinReleaseInv ==
  ASSUME SemIInv, NEW a \in Callers, PLeave(a) \/ VLeave(a)
  PROVE  SemIInv'
<1> USE DEF SemIInv
<1>1. PICK from \in {"P_leave", "V_leave"} : SemSpinRelease(a, from)
  BY DEF PLeave, VLeave
<1>2. SemTypeOK'
  BY <1>1 DEF SemTypeOK, SemSpinRelease, SemGoto, Labels
<1>3. LockMatchesPC'
  BY <1>1, SemaphoreAssumption DEF SemTypeOK, LockMatchesPC, SemSpinRelease, SemGoto, SemHolding
<1>4. SemSleepersQueued'
  BY <1>1, MoveKeepsQueue DEF SemSpinRelease, Labels
<1>5. SemNoLostWakeup'
  <2>1. Contenders' = Contenders
    BY <1>1, MoveKeepsContenders DEF SemSpinRelease, Labels
  <2>2. QED
    BY <1>1, <2>1 DEF SemNoLostWakeup, SemSpinRelease
<1>6. QED
  BY <1>2, <1>3, <1>4, <1>5

LEMMA PSleepInv ==
  ASSUME SemIInv, NEW t \in Threads, PSleep(t)
  PROVE  SemIInv'
<1> USE DEF SemIInv
<1>1. ~ \E i \in 1 .. Len(sem_wchan) : sem_wchan[i] = t
  BY DEF PSleep, SemSleepersQueued
<1>2. /\ sem_wchan' \in Seq(Threads)
      /\ \A x : (\E i \in 1 .. Len(sem_wchan') : sem_wchan'[i] = x)
                  <=> (x = t \/ \E i \in 1 .. Len(sem_wchan) : sem_wchan[i] = x)
      /\ \A i, j \in 1 .. Len(sem_wchan') : sem_wchan'[i] = sem_wchan'[j] => i = j
  BY <1>1, QueueAppend DEF PSleep, SemTypeOK, SemSleepersQueued
<1>3. SemTypeOK'
  BY <1>2, SemaphoreAssumption DEF SemTypeOK, PSleep, SemGoto, Labels
<1>4. LockMatchesPC'
  BY SemaphoreAssumption DEF SemTypeOK, LockMatchesPC, PSleep, SemGoto, SemHolding, Callers
<1>5. SemSleepersQueued'
  <2>1. \A u \in Threads : sem_pc'[u] = "P_asleep" <=> (u = t \/ sem_pc[u] = "P_asleep")
    BY DEF PSleep, SemGoto, SemTypeOK, Callers
  <2>2. QED
    BY <1>2, <2>1 DEF SemSleepersQueued
<1>6. SemNoLostWakeup'
  BY ContendersFiniteNext DEF PSleep, SemNoLostWakeup
<1>7. QED
  BY <1>3, <1>4, <1>5, <1>6

LEMMA PTakeInv ==
  ASSUME SemIInv, NEW t \in Threads, PTake(t)
  PROVE  SemIInv'
<1> USE DEF SemIInv
<1> t \in Callers
  BY DEF Callers
<1>1. SemTypeOK'
  <2>1. sem_count' \in 0 .. (CountModulus - 1)
    BY SemaphoreAssumption DEF SemTypeOK, PTake
  <2>2. QED
    BY <2>1 DEF SemTypeOK, PTake, SemGoto, Labels
<1>2. LockMatchesPC'
  BY DEF SemTypeOK, LockMatchesPC, PTake, SemGoto, SemHolding
<1>3. SemSleepersQueued'
  BY MoveKeepsQueue DEF PTake, Labels
<1>4. SemNoLostWakeup'
  <2>1. t \in Contenders /\ Contenders' = Contenders \ {t}
    BY DEF PTake, SemGoto, Contenders, SemTypeOK
  <2>2. Cardinality(Contenders') = Cardinality(Contenders) - 1
    BY <2>1, ContenderLeaves
  <2>3. QED
    BY <2>2, ContendersFinite, SemaphoreAssumption DEF SemNoLostWakeup, PTake, SemTypeOK
<1>5. QED
  BY <1>1, <1>2, <1>3, <1>4

LEMMA VBodyInv ==
  ASSUME SemIInv, NEW a \in Callers, VBody(a)
  PROVE  SemIInv'
<1> USE DEF SemIInv
<1>1. sem_count' \in 0 .. (CountModulus - 1)
  BY SemaphoreAssumption DEF SemTypeOK, VBody
<1>2. CASE sem_wchan = <<>>
  <2>1. SemGoto(a, "V_leave") /\ UNCHANGED sem_wchan /\ sem_pc[a] = "V_body"
    BY <1>2 DEF VBody, WakeOne
  <2>2. SemTypeOK'
    BY <1>1, <2>1 DEF SemTypeOK, VBody, SemGoto, Labels
  <2>3. LockMatchesPC'
    BY <2>1 DEF SemTypeOK, LockMatchesPC, VBody, SemGoto, SemHolding
  <2>4. SemSleepersQueued'
    BY <2>1, MoveKeepsQueue DEF Labels
  <2>5. SemNoLostWakeup'
    BY <1>2, <2>1 DEF SemNoLostWakeup
  <2>6. QED
    BY <2>2, <2>3, <2>4, <2>5
<1>3. CASE sem_wchan # <<>>
  <2>1. PICK h : h = Head(sem_wchan)
    OBVIOUS
  <2>2. /\ sem_wchan' = Tail(sem_wchan)
        /\ sem_pc' = [sem_pc EXCEPT ![a] = "V_leave", ![h] = "P_awake"]
    BY <1>3, <2>1 DEF VBody, WakeOne
  <2>3. /\ h \in Threads
        /\ h = sem_wchan[1] /\ 1 \in 1 .. Len(sem_wchan)
        /\ sem_wchan' \in Seq(Threads)
        /\ \A x : (\E i \in 1 .. Len(sem_wchan') : sem_wchan'[i] = x)
                    <=> (x # h /\ \E i \in 1 .. Len(sem_wchan) : sem_wchan[i] = x)
        /\ \A i, j \in 1 .. Len(sem_wchan') : sem_wchan'[i] = sem_wchan'[j] => i = j
    <3>1. sem_wchan \in Seq(Threads) /\ \A i, j \in 1 .. Len(sem_wchan) : sem_wchan[i] = sem_wchan[j] => i = j
      BY DEF SemTypeOK, SemSleepersQueued
    <3>2. h \in Threads /\ h = sem_wchan[1] /\ 1 \in 1 .. Len(sem_wchan)
      BY <1>3, <2>1, <3>1
    <3>3. QED
      BY <1>3, <2>1, <2>2, <3>1, <3>2, QueueTail
  <2>4. sem_pc[a] = "V_body" /\ sem_pc[h] = "P_asleep" /\ h # a /\ h \in Callers
    BY <2>3 DEF SemSleepersQueued, Callers, VBody
  <2>5. \A b \in Callers : sem_pc'[b] = IF b = a THEN "V_leave" ELSE IF b = h THEN "P_awake" ELSE sem_pc[b]
    BY <2>2, <2>4 DEF SemTypeOK
  <2>6. SemTypeOK'
    BY <1>1, <2>2, <2>3 DEF SemTypeOK, VBody, Labels
  <2>7. LockMatchesPC'
    <3>1. sem_lock' = sem_lock
      BY DEF VBody
    <3>2. \A b \in Callers : sem_pc'[b] \in SemHolding <=> sem_pc[b] \in SemHolding
      BY <2>4, <2>5 DEF SemHolding
    <3>3. QED
      BY <3>1, <3>2 DEF LockMatchesPC
  <2>8. SemSleepersQueued'
    <3>1. \A u \in Threads : sem_pc'[u] = "P_asleep" <=> (u # h /\ sem_pc[u] = "P_asleep")
      BY <2>4, <2>5 DEF Callers
    <3>2. QED
      BY <2>3, <3>1 DEF SemSleepersQueued
  <2>9. SemNoLostWakeup'
    <3>1. h \notin Contenders
      BY <2>4 DEF Contenders
    <3>2. Contenders' = Contenders \cup {h}
      BY <2>3, <2>4, <2>5 DEF Contenders, Callers
    <3>3. Cardinality(Contenders') = Cardinality(Contenders) + 1
      BY <3>1, <3>2, ContenderJoins
    <3>4. QED
      BY <1>3, <3>3, ContendersFinite, SemaphoreAssumption DEF SemNoLostWakeup, VBody, SemTypeOK
  <2>10. QED
    BY <2>6, <2>7, <2>8, <2>9
<1>4. QED
  BY <1>2, <1>3

LEMMA VOverflowInv ==
  ASSUME SemIInv, NEW a \in Callers, VOverflow(a)
  PROVE  SemIInv'
<1> USE DEF SemIInv
<1>1. SemTypeOK'
  BY SemaphoreAssumption DEF SemTypeOK, VOverflow
<1>2. LockMatchesPC' /\ SemSleepersQueued'
  BY DEF LockMatchesPC, SemSleepersQueued, VOverflow
<1>3. SemNoLostWakeup'
  BY ContendersFiniteNext DEF SemNoLostWakeup, VOverflow
<1>4. QED
  BY <1>1, <1>2, <1>3

LEMMA StutterInv ==
  ASSUME SemIInv, UNCHANGED semVars
  PROVE  SemIInv'
BY DEF SemIInv, semVars, SemTypeOK, LockMatchesPC, SemSleepersQueued, SemNoLostWakeup, Contenders

LEMMA SemNextInv == SemIInv /\ [SemNext]_semVars => SemIInv'
<1> SUFFICES ASSUME SemIInv, [SemNext]_semVars PROVE SemIInv'
  OBVIOUS
<1>1. ASSUME NEW t \in Threads, PCall(t) \/ PStep(t)
      PROVE  SemIInv'
  <2> t \in Callers
    BY DEF Callers
  <2>1. QED
    BY <1>1, SemCallInv, SemSpinAcquireInv, PSleepInv, PTakeInv, SemSpinReleaseInv DEF PStep
<1>2. ASSUME NEW a \in Callers, VCall(a) \/ VStep(a)
      PROVE  SemIInv'
  BY <1>2, SemCallInv, SemSpinAcquireInv, VBodyInv, VOverflowInv, SemSpinReleaseInv DEF VStep
<1>3. QED
  BY <1>1, <1>2, StutterInv DEF SemNext

-----------------------------------------------------------------------------
(* Theorems.                                                               *)

\* Every reachable state satisfies the inductive invariant.
THEOREM SemInvariance == SemSafeSpec => []SemIInv
BY SemInitInv, SemNextInv, PTL DEF SemSafeSpec

\* The variables of a semaphore keep their types: in particular the count of
\* synch.c:133 never leaves the range of the unsigned that holds it.
THEOREM SemTypeCorrect == SemSafeSpec => []SemTypeOK
<1>1. SemIInv => SemTypeOK
  BY DEF SemIInv
<1>2. QED
  BY <1>1, SemInvariance, PTL

\* A thread asleep in P (synch.c:119) is on the wait channel exactly once, and
\* nobody else is.
THEOREM SemSleepersStayQueued == SemSafeSpec => []SemSleepersQueued
<1>1. SemIInv => SemSleepersQueued
  BY DEF SemIInv
<1>2. QED
  BY <1>1, SemInvariance, PTL

\* No wakeup is lost between P's test of the count and V's wakeone
\* (synch.c:106-119 and 133-135), for any number of threads.
THEOREM SemNoWakeupIsLost == SemSafeSpec => []SemNoLostWakeup
<1>1. SemIInv => SemNoLostWakeup
  BY DEF SemIInv
<1>2. QED
  BY <1>1, SemInvariance, PTL

-----------------------------------------------------------------------------
(* The semaphore implements the abstract one.                              *)

\* What the abstract semaphore sees of a caller when it moves.
LEMMA OpMoves ==
  ASSUME SemTypeOK, NEW a \in Callers, NEW l \in Labels, SemGoto(a, l)
  PROVE  AbstractOp' = [AbstractOp EXCEPT ![a] = OpAt(l)]
BY DEF SemTypeOK, SemGoto, AbstractOp

\* It sees nothing when the move is within one phase of an operation.
LEMMA OpStays ==
  ASSUME SemTypeOK, NEW a \in Callers, NEW l \in Labels, SemGoto(a, l), OpAt(l) = OpAt(sem_pc[a])
  PROVE  AbstractOp' = AbstractOp
BY DEF SemTypeOK, SemGoto, AbstractOp

LEMMA SemInitRefines == SemInit => SemAbstract!Init
<1> SUFFICES ASSUME SemInit PROVE SemAbstract!Init
  OBVIOUS
<1>1. AbstractOp = [a \in Callers |-> "none"]
  BY DEF SemInit, AbstractOp, OpAt
<1>2. QED
  BY <1>1 DEF SemInit, SemAbstract!Init, SemAbstract!Callers, Callers

\* Every step of P and V is a step of the abstract semaphore or invisible.
LEMMA SemStepRefines == SemIInv /\ [SemNext]_semVars => [SemAbstract!Next]_SemAbstract!absVars
<1> SUFFICES ASSUME SemIInv, [SemNext]_semVars PROVE [SemAbstract!Next]_SemAbstract!absVars
  OBVIOUS
<1> USE DEF SemIInv
<1>1. ASSUME NEW t \in Threads, PCall(t) \/ PStep(t)
      PROVE  [SemAbstract!Next]_SemAbstract!absVars
  <2> t \in Callers
    BY DEF Callers
  <2>1. CASE PCall(t)
    <3>1. AbstractOp[t] = "none" /\ AbstractOp' = [AbstractOp EXCEPT ![t] = "P"]
      BY <2>1, OpMoves DEF PCall, Labels, OpAt, AbstractOp
    <3>2. SemAbstract!CallP(t)
      BY <2>1, <3>1 DEF PCall, SemAbstract!CallP
    <3>3. QED
      BY <3>2 DEF SemAbstract!Next
  <2>2. CASE PEnter(t) \/ PSleep(t) \/ PRelock(t)
    <3>1. AbstractOp' = AbstractOp
      BY <2>2, OpStays DEF PEnter, PRelock, PSleep, SemSpinAcquire, Labels, OpAt
    <3>2. QED
      BY <2>2, <3>1 DEF PEnter, PRelock, PSleep, SemSpinAcquire, SemAbstract!absVars
  <2>3. CASE PTake(t)
    <3>1. AbstractOp[t] = "P" /\ AbstractOp' = [AbstractOp EXCEPT ![t] = "done"]
      BY <2>3, OpMoves DEF PTake, Labels, OpAt, AbstractOp
    <3>2. SemAbstract!Take(t)
      BY <2>3, <3>1 DEF PTake, SemAbstract!Take
    <3>3. QED
      BY <3>2 DEF SemAbstract!Next
  <2>4. CASE PLeave(t)
    <3>1. AbstractOp[t] = "done" /\ AbstractOp' = [AbstractOp EXCEPT ![t] = "none"]
      BY <2>4, OpMoves DEF PLeave, SemSpinRelease, Labels, OpAt, AbstractOp
    <3>2. SemAbstract!Return(t)
      BY <2>4, <3>1 DEF PLeave, SemSpinRelease, SemAbstract!Return
    <3>3. QED
      BY <3>2 DEF SemAbstract!Next, SemAbstract!Callers, Callers
  <2>5. QED
    BY <1>1, <2>1, <2>2, <2>3, <2>4 DEF PStep
<1>2. ASSUME NEW a \in Callers, VCall(a) \/ VStep(a)
      PROVE  [SemAbstract!Next]_SemAbstract!absVars
  <2> a \in SemAbstract!Callers
    BY DEF Callers, SemAbstract!Callers
  <2>1. CASE VCall(a)
    <3>1. AbstractOp[a] = "none" /\ AbstractOp' = [AbstractOp EXCEPT ![a] = "V"]
      BY <2>1, OpMoves DEF VCall, Labels, OpAt, AbstractOp
    <3>2. SemAbstract!CallV(a)
      BY <2>1, <3>1 DEF VCall, SemAbstract!CallV
    <3>3. QED
      BY <3>2 DEF SemAbstract!Next
  <2>2. CASE VEnter(a)
    <3>1. AbstractOp' = AbstractOp
      BY <2>2, OpStays DEF VEnter, SemSpinAcquire, Labels, OpAt
    <3>2. QED
      BY <2>2, <3>1 DEF VEnter, SemSpinAcquire, SemAbstract!absVars
  <2>3. CASE VBody(a)
    <3>1. AbstractOp[a] = "V"
      BY <2>3 DEF VBody, OpAt, AbstractOp
    <3>2. AbstractOp' = [AbstractOp EXCEPT ![a] = "done"]
      <4>1. CASE sem_wchan = <<>>
        BY <2>3, <4>1, OpMoves DEF VBody, WakeOne, Labels, OpAt
      <4>2. CASE sem_wchan # <<>>
        <5>1. PICK h : h = Head(sem_wchan)
          OBVIOUS
        <5>2. h \in Threads /\ h = sem_wchan[1] /\ 1 \in 1 .. Len(sem_wchan)
          BY <4>2, <5>1 DEF SemTypeOK
        <5>3. h \in Callers /\ sem_pc[h] = "P_asleep"
          BY <5>2 DEF SemSleepersQueued, Callers
        <5>4. sem_pc' = [sem_pc EXCEPT ![a] = "V_leave", ![h] = "P_awake"]
          BY <2>3, <4>2, <5>1 DEF VBody, WakeOne
        <5>5. sem_pc[a] = "V_body"
          BY <2>3 DEF VBody
        <5>6. \A b \in Callers : OpAt(sem_pc'[b]) = IF b = a THEN "done" ELSE OpAt(sem_pc[b])
          BY <5>3, <5>4, <5>5 DEF SemTypeOK, OpAt
        <5>7. QED
          BY <5>6 DEF AbstractOp
      <4>3. QED
        BY <4>1, <4>2
    <3>3. SemAbstract!Give(a)
      BY <2>3, <3>1, <3>2 DEF VBody, SemAbstract!Give
    <3>4. QED
      BY <3>3 DEF SemAbstract!Next
  <2>4. CASE VOverflow(a)
    <3>1. AbstractOp[a] = "V" /\ AbstractOp' = AbstractOp
      BY <2>4 DEF VOverflow, OpAt, AbstractOp
    <3>2. SemAbstract!Overflow(a)
      BY <2>4, <3>1 DEF VOverflow, SemAbstract!Overflow
    <3>3. QED
      BY <3>2 DEF SemAbstract!Next
  <2>5. CASE VLeave(a)
    <3>1. AbstractOp[a] = "done" /\ AbstractOp' = [AbstractOp EXCEPT ![a] = "none"]
      BY <2>5, OpMoves DEF VLeave, SemSpinRelease, Labels, OpAt, AbstractOp
    <3>2. SemAbstract!Return(a)
      BY <2>5, <3>1 DEF VLeave, SemSpinRelease, SemAbstract!Return
    <3>3. QED
      BY <3>2 DEF SemAbstract!Next
  <2>6. QED
    BY <1>2, <2>1, <2>2, <2>3, <2>4, <2>5 DEF VStep
<1>3. CASE UNCHANGED semVars
  BY <1>3 DEF semVars, SemAbstract!absVars, AbstractOp
<1>4. QED
  BY <1>1, <1>2, <1>3 DEF SemNext

\* P and V are atomic (synch.h:57): whatever the number of threads and
\* handlers, what the code does is something the abstract semaphore does.
THEOREM SemAtomic == SemSafeSpec => SemAbstract!SafeSpec
BY SemInitRefines, SemStepRefines, SemInvariance, PTL DEF SemSafeSpec, SemAbstract!SafeSpec

=============================================================================
