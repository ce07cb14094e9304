-------------------------------- MODULE Sched --------------------------------
(***************************************************************************)
(* kern/thread/thread.c: context switches, run queues, idling, wakeups     *)
(* and IPIs, migration, exit and exorcise, on several cpus.                *)
(*                                                                         *)
(* Every thread that is not running must be findable in one place, and a   *)
(* cpu goes on using the stack of the thread it last ran until it picks    *)
(* another one - including all the time it idles.  A step is a piece of    *)
(* code under one run queue lock; rqlock is held across steps only where   *)
(* the code holds it across a context switch or a loop.                    *)
(***************************************************************************)
EXTENDS Naturals, Sequences, FiniteSets

CONSTANTS
  NCPU,     \* the number of cpus
  Threads,  \* thread structures, existing or not
  Boot,     \* the thread each cpu starts on
  Free      \* nobody: a free spinlock

CPUs == 1 .. NCPU

ASSUME SchedAssumption ==
  /\ NCPU \in Nat \ {0}
  /\ IsFiniteSet(Threads)
  /\ Boot \in [CPUs -> Threads]
  /\ \A c, d \in CPUs : Boot[c] = Boot[d] => c = d
  /\ Free \notin CPUs

VARIABLES
  rq,        \* c_runqueue, per cpu
  rqlock,    \* who holds c_runqueue_lock, per cpu
  isidle,    \* c_isidle
  cur,       \* c_curthread: the thread whose stack the cpu is on
  ipi,       \* IPI_UNIDLE pending
  zombies,   \* c_zombies
  tstate,    \* t_state, or "none" when there is no such thread
  tcpu,      \* t_cpu
  wchan,     \* one wait channel
  chanlock,  \* who holds the spinlock that protects it
  cpc,       \* where each cpu is
  want,      \* the new state thread_switch was called with
  hand,      \* threads off the channel, not yet on a run queue (wchan_wake*)
  mg         \* thread_consider_migration's locals

vars == <<rq, rqlock, isidle, cur, ipi, zombies, tstate, tcpu, wchan, chanlock,
          cpc, want, hand, mg>>

NoMigration == [i |-> 1, total |-> 0, mine |-> 0, share |-> 0, to_send |-> 0, victims |-> <<>>]

Init ==
  /\ rq = [c \in CPUs |-> <<>>]
  /\ rqlock = [c \in CPUs |-> Free]
  /\ isidle = [c \in CPUs |-> FALSE]
  /\ cur = Boot
  /\ ipi = [c \in CPUs |-> FALSE]
  /\ zombies = [c \in CPUs |-> {}]
  /\ tstate = [t \in Threads |-> IF \E c \in CPUs : Boot[c] = t THEN "S_RUN" ELSE "none"]
  /\ tcpu = [t \in Threads |-> IF \E c \in CPUs : Boot[c] = t
                               THEN CHOOSE c \in CPUs : Boot[c] = t ELSE 1]
  /\ wchan = <<>>
  /\ chanlock = Free
  /\ cpc = [c \in CPUs |-> "run"]
  /\ want = [c \in CPUs |-> "S_READY"]
  /\ hand = [c \in CPUs |-> <<>>]
  /\ mg = [c \in CPUs |-> NoMigration]

Goto(c, label) == cpc' = [cpc EXCEPT ![c] = label]

\* Interrupts are on in a thread's own code and inside cpu_idle.
Interruptible(c) == cpc[c] \in {"run", "idle"}

\* Where a handler, or a call from a thread, returns to: the idle loop locks its
\* run queue again when cpu_idle returns.
After(c) == IF isidle[c] THEN "unidle" ELSE "run"

-----------------------------------------------------------------------------
(* thread_switch                                                           *)

\* thread_exit: interrupts off for good, then switch away as a zombie.
Exit(c) ==
  /\ cpc[c] = "run"
  /\ want' = [want EXCEPT ![c] = "S_ZOMBIE"]
  /\ Goto(c, "switch")
  /\ UNCHANGED <<rq, rqlock, isidle, cur, ipi, zombies, tstate, tcpu, wchan, chanlock, hand, mg>>

\* The caller of wchan_sleep holds the channel's spinlock, and takes it again
\* when it has been woken: that is Semaphore's, SleepLock's and CondVar's.
Sleep(c) ==
  /\ cpc[c] = "run"
  /\ chanlock = Free
  /\ chanlock' = c
  /\ want' = [want EXCEPT ![c] = "S_SLEEP"]
  /\ Goto(c, "switch")
  /\ UNCHANGED <<rq, rqlock, isidle, cur, ipi, zombies, tstate, tcpu, wchan, hand, mg>>

\* Nothing else to run: the micro-optimization returns at once.
SwitchNot(c) ==
  /\ cpc[c] = "switch"
  /\ want[c] = "S_READY"
  /\ rqlock[c] = Free
  /\ rq[c] = <<>>
  /\ Goto(c, "run")
  /\ UNCHANGED <<rq, rqlock, isidle, cur, ipi, zombies, tstate, tcpu, wchan, chanlock, want, hand, mg>>

\* Seeded fault: a thread that yields goes to the head of the run queue.
SwitchOut_AddHead(c) ==
  /\ cpc[c] = "switch"
  /\ rqlock[c] = Free
  /\ want[c] = "S_READY" => rq[c] # <<>>
  /\ rqlock' = [rqlock EXCEPT ![c] = c]
  /\ isidle' = [isidle EXCEPT ![c] = TRUE]
  /\ tstate' = [tstate EXCEPT ![cur[c]] = want[c]]
  /\ rq' = IF want[c] = "S_READY" THEN [rq EXCEPT ![c] = <<cur[c]>> \o @] ELSE rq
  /\ wchan' = IF want[c] = "S_SLEEP" THEN Append(wchan, cur[c]) ELSE wchan
  /\ chanlock' = IF want[c] = "S_SLEEP" THEN Free ELSE chanlock
  /\ zombies' = IF want[c] = "S_ZOMBIE" THEN [zombies EXCEPT ![c] = @ \cup {cur[c]}] ELSE zombies
  /\ want' = [want EXCEPT ![c] = "S_READY"]
  /\ Goto(c, "pick")
  /\ UNCHANGED <<cur, ipi, tcpu, hand, mg>>

\* Put the thread in the right place; the run queue lock stays held until the
\* cpu is off its stack or idle, the channel's spinlock only until it is queued.
SwitchOut(c) ==
  /\ cpc[c] = "switch"
  /\ rqlock[c] = Free
  /\ want[c] = "S_READY" => rq[c] # <<>>
  /\ rqlock' = [rqlock EXCEPT ![c] = c]
  /\ isidle' = [isidle EXCEPT ![c] = TRUE]
  /\ tstate' = [tstate EXCEPT ![cur[c]] = want[c]]
  /\ rq' = IF want[c] = "S_READY" THEN [rq EXCEPT ![c] = Append(@, cur[c])] ELSE rq
  /\ wchan' = IF want[c] = "S_SLEEP" THEN Append(wchan, cur[c]) ELSE wchan
  /\ chanlock' = IF want[c] = "S_SLEEP" THEN Free ELSE chanlock
  /\ zombies' = IF want[c] = "S_ZOMBIE" THEN [zombies EXCEPT ![c] = @ \cup {cur[c]}] ELSE zombies
  /\ want' = [want EXCEPT ![c] = "S_READY"]
  /\ Goto(c, "pick")
  /\ UNCHANGED <<cur, ipi, tcpu, hand, mg>>

\* Take the thread at the head of the run queue; possibly the one just put there.
SwitchIn(c) ==
  /\ cpc[c] = "pick"
  /\ rq[c] # <<>>
  /\ LET next == Head(rq[c]) IN
       /\ cur' = [cur EXCEPT ![c] = next]
       /\ tstate' = [tstate EXCEPT ![next] = "S_RUN"]
  /\ rq' = [rq EXCEPT ![c] = Tail(@)]
  /\ isidle' = [isidle EXCEPT ![c] = FALSE]
  /\ Goto(c, "switched")
  /\ UNCHANGED <<rqlock, ipi, zombies, tcpu, wchan, chanlock, want, hand, mg>>

\* Nothing to run: unlock and idle, still on the old thread's stack.
GoIdle(c) ==
  /\ cpc[c] = "pick"
  /\ rq[c] = <<>>
  /\ rqlock' = [rqlock EXCEPT ![c] = Free]
  /\ Goto(c, "idle")
  /\ UNCHANGED <<rq, isidle, cur, ipi, zombies, tstate, tcpu, wchan, chanlock, want, hand, mg>>

\* cpu_idle returned: lock the run queue and look again.
Unidle(c) ==
  /\ cpc[c] = "unidle"
  /\ rqlock[c] = Free
  /\ rqlock' = [rqlock EXCEPT ![c] = c]
  /\ Goto(c, "pick")
  /\ UNCHANGED <<rq, isidle, cur, ipi, zombies, tstate, tcpu, wchan, chanlock, want, hand, mg>>

\* exorcise: the zombies of the calling cpu.
Exorcised(c) == zombies[c]

\* The tail of thread_switch and thread_startup, on the new thread's stack:
\* unlock the run queue and destroy the threads that exited on this cpu.
Switched(c) ==
  /\ cpc[c] = "switched"
  /\ rqlock' = [rqlock EXCEPT ![c] = Free]
  /\ tstate' = [t \in Threads |-> IF t \in Exorcised(c) THEN "none" ELSE tstate[t]]
  /\ zombies' = [zombies EXCEPT ![c] = {}]
  /\ Goto(c, "run")
  /\ UNCHANGED <<rq, isidle, cur, ipi, tcpu, wchan, chanlock, want, hand, mg>>

-----------------------------------------------------------------------------
(* Making threads runnable                                                 *)

\* wchan_wakeone and wchan_wakeall, from a thread or from an interrupt handler:
\* take threads off the channel, under its spinlock.
Wake(c) ==
  /\ Interruptible(c)
  /\ chanlock = Free
  /\ wchan # <<>>
  /\ chanlock' = c
  /\ \E n \in {1, Len(wchan)} :
       /\ hand' = [hand EXCEPT ![c] = SubSeq(wchan, 1, n)]
       /\ wchan' = SubSeq(wchan, n + 1, Len(wchan))
  /\ Goto(c, "wake")
  /\ UNCHANGED <<rq, rqlock, isidle, cur, ipi, zombies, tstate, tcpu, want, mg>>

\* thread_fork: a new thread for the cpu the caller was on when it copied its
\* t_cpu; interrupts are on, so it may have been preempted and migrated since.
Fork(c) ==
  /\ cpc[c] = "run"
  /\ \E t \in Threads, d \in CPUs :
       /\ tstate[t] = "none"
       /\ tstate' = [tstate EXCEPT ![t] = "S_READY"]
       /\ tcpu' = [tcpu EXCEPT ![t] = d]
       /\ hand' = [hand EXCEPT ![c] = <<t>>]
  /\ Goto(c, "wake")
  /\ UNCHANGED <<rq, rqlock, isidle, cur, ipi, zombies, wchan, chanlock, want, mg>>

\* thread_make_runnable, under the run queue lock of the thread's own cpu, and
\* an interrupt if that cpu idles.
MakeRunnable(c) ==
  /\ cpc[c] = "wake"
  /\ hand[c] # <<>>
  /\ LET t == Head(hand[c])
         d == tcpu[t] IN
       /\ rqlock[d] = Free
       /\ tstate' = [tstate EXCEPT ![t] = "S_READY"]
       /\ rq' = [rq EXCEPT ![d] = Append(@, t)]
       /\ ipi' = [ipi EXCEPT ![d] = @ \/ isidle[d]]
  /\ hand' = [hand EXCEPT ![c] = Tail(@)]
  /\ UNCHANGED <<rqlock, isidle, cur, zombies, tcpu, wchan, chanlock, cpc, want, mg>>

WakeDone(c) ==
  /\ cpc[c] = "wake"
  /\ hand[c] = <<>>
  /\ chanlock' = IF chanlock = c THEN Free ELSE chanlock
  /\ Goto(c, After(c))
  /\ UNCHANGED <<rq, rqlock, isidle, cur, ipi, zombies, tstate, tcpu, wchan, want, hand, mg>>

\* interprocessor_interrupt: IPI_UNIDLE has nothing to do but end cpu_idle.
TakeIPI(c) ==
  /\ Interruptible(c)
  /\ ipi[c]
  /\ ipi' = [ipi EXCEPT ![c] = FALSE]
  /\ Goto(c, After(c))
  /\ UNCHANGED <<rq, rqlock, isidle, cur, zombies, tstate, tcpu, wchan, chanlock, want, hand, mg>>

-----------------------------------------------------------------------------
(* The timer: hardclock, thread_consider_migration                         *)

\* thread_yield at the end of hardclock does nothing on an idle cpu.
AfterTick(c) == IF isidle[c] THEN "unidle" ELSE "switch"

\* A tick that does not migrate: just thread_yield.
Tick(c) ==
  /\ Interruptible(c)
  /\ Goto(c, AfterTick(c))
  /\ UNCHANGED <<rq, rqlock, isidle, cur, ipi, zombies, tstate, tcpu, wchan, chanlock, want, hand, mg>>

\* A tick that migrates first.
MigrateTick(c) ==
  /\ Interruptible(c)
  /\ Goto(c, "count")
  /\ UNCHANGED <<rq, rqlock, isidle, cur, ipi, zombies, tstate, tcpu, wchan, chanlock, want, hand, mg>>

\* Every run queue is counted under its own lock, one after the other.
Count(c) ==
  /\ cpc[c] = "count"
  /\ LET i == mg[c].i IN
       /\ i <= NCPU
       /\ rqlock[i] = Free
       /\ mg' = [mg EXCEPT ![c].i = i + 1,
                           ![c].total = @ + Len(rq[i]),
                           ![c].mine = IF i = c THEN Len(rq[i]) ELSE @]
  /\ UNCHANGED <<rq, rqlock, isidle, cur, ipi, zombies, tstate, tcpu, wchan, chanlock, cpc, want, hand>>

\* DIVROUNDUP(total_count, numcpus)
OneShare(total) == (total + NCPU - 1) \div NCPU

\* Seeded fault: the running thread is counted as well.
Decide_OffByOne(c) ==
  LET share == OneShare(mg[c].total) IN
    /\ cpc[c] = "count"
    /\ mg[c].i > NCPU
    /\ mg' = [mg EXCEPT ![c] = [NoMigration EXCEPT !.share = share, !.to_send = mg[c].mine + 1 - share]]
    /\ Goto(c, "take")
    /\ UNCHANGED <<rq, rqlock, isidle, cur, ipi, zombies, tstate, tcpu, wchan, chanlock, want, hand>>

\* Fewer threads than one share: nothing to send.  Otherwise send the surplus.
Decide(c) ==
  LET share == OneShare(mg[c].total) IN
    /\ cpc[c] = "count"
    /\ mg[c].i > NCPU
    /\ \/ /\ mg[c].mine < share
          /\ Goto(c, AfterTick(c))
          /\ mg' = [mg EXCEPT ![c] = NoMigration]
       \/ /\ mg[c].mine >= share
          /\ mg' = [mg EXCEPT ![c] = [NoMigration EXCEPT !.share = share, !.to_send = mg[c].mine - share]]
          /\ Goto(c, "take")
    /\ UNCHANGED <<rq, rqlock, isidle, cur, ipi, zombies, tstate, tcpu, wchan, chanlock, want, hand>>

\* Take the victims off the tail of the own run queue.
TakeVictims(c) ==
  /\ cpc[c] = "take"
  /\ rqlock[c] = Free
  /\ mg[c].to_send <= Len(rq[c])
  /\ LET keep == Len(rq[c]) - mg[c].to_send IN
       /\ mg' = [mg EXCEPT ![c].victims = SubSeq(rq[c], keep + 1, Len(rq[c])), ![c].i = 1]
       /\ rq' = [rq EXCEPT ![c] = SubSeq(@, 1, keep)]
  /\ Goto(c, "next")
  /\ UNCHANGED <<rqlock, isidle, cur, ipi, zombies, tstate, tcpu, wchan, chanlock, want, hand>>

\* Lock the next other cpu's run queue, while there is something to send.
NextCPU(c) ==
  LET i == mg[c].i IN
    /\ cpc[c] = "next"
    /\ i <= NCPU /\ mg[c].to_send > 0
    /\ \/ /\ i = c
          /\ mg' = [mg EXCEPT ![c].i = i + 1]
          /\ UNCHANGED <<rqlock, cpc>>
       \/ /\ i # c
          /\ rqlock[i] = Free
          /\ rqlock' = [rqlock EXCEPT ![i] = c]
          /\ Goto(c, "push")
          /\ UNCHANGED mg
    /\ UNCHANGED <<rq, isidle, cur, ipi, zombies, tstate, tcpu, wchan, chanlock, want, hand>>

Pushing(c) == Len(rq[mg[c].i]) < mg[c].share /\ mg[c].to_send > 0

\* Seeded fault: the idle cpu is not interrupted.
PushVictim_NoIPI(c) ==
  LET i == mg[c].i
      t == Head(mg[c].victims) IN
    /\ cpc[c] = "push"
    /\ Pushing(c)
    /\ t # cur[c]
    /\ tcpu' = [tcpu EXCEPT ![t] = i]
    /\ rq' = [rq EXCEPT ![i] = Append(@, t)]
    /\ mg' = [mg EXCEPT ![c].victims = Tail(@), ![c].to_send = @ - 1]
    /\ UNCHANGED <<rqlock, isidle, cur, ipi, zombies, tstate, wchan, chanlock, cpc, want, hand>>

PushVictim(c) ==
  LET i == mg[c].i
      t == Head(mg[c].victims) IN
    /\ cpc[c] = "push"
    /\ Pushing(c)
    /\ t # cur[c]
    /\ tcpu' = [tcpu EXCEPT ![t] = i]
    /\ rq' = [rq EXCEPT ![i] = Append(@, t)]
    /\ ipi' = [ipi EXCEPT ![i] = @ \/ isidle[i]]
    /\ mg' = [mg EXCEPT ![c].victims = Tail(@), ![c].to_send = @ - 1]
    /\ UNCHANGED <<rqlock, isidle, cur, zombies, tstate, wchan, chanlock, cpc, want, hand>>

\* Seeded fault: the thread whose stack the idle loop is on is sent away too.
SkipCurrent_Send(c) ==
  LET i == mg[c].i
      t == Head(mg[c].victims) IN
    /\ cpc[c] = "push"
    /\ Pushing(c)
    /\ t = cur[c]
    /\ tcpu' = [tcpu EXCEPT ![t] = i]
    /\ rq' = [rq EXCEPT ![i] = Append(@, t)]
    /\ ipi' = [ipi EXCEPT ![i] = @ \/ isidle[i]]
    /\ mg' = [mg EXCEPT ![c].victims = Tail(@), ![c].to_send = @ - 1]
    /\ UNCHANGED <<rqlock, isidle, cur, zombies, tstate, wchan, chanlock, cpc, want, hand>>

\* The thread whose stack this cpu idles on, just reawakened, is shuffled to
\* the end of the victims and skipped.
SkipCurrent(c) ==
  LET t == Head(mg[c].victims) IN
    /\ cpc[c] = "push"
    /\ Pushing(c)
    /\ t = cur[c]
    /\ mg' = [mg EXCEPT ![c].victims = Append(Tail(@), t), ![c].to_send = @ - 1]
    /\ UNCHANGED <<rq, rqlock, isidle, cur, ipi, zombies, tstate, tcpu, wchan, chanlock, cpc, want, hand>>

PushDone(c) ==
  /\ cpc[c] = "push"
  /\ ~ Pushing(c)
  /\ rqlock' = [rqlock EXCEPT ![mg[c].i] = Free]
  /\ mg' = [mg EXCEPT ![c].i = @ + 1]
  /\ Goto(c, "next")
  /\ UNCHANGED <<rq, isidle, cur, ipi, zombies, tstate, tcpu, wchan, chanlock, want, hand>>

\* Seeded fault: leftover victims are dropped.
Leftovers_Drop(c) ==
  /\ cpc[c] = "next"
  /\ mg[c].i > NCPU \/ mg[c].to_send = 0
  /\ mg' = [mg EXCEPT ![c] = NoMigration]
  /\ Goto(c, AfterTick(c))
  /\ UNCHANGED <<rq, rqlock, isidle, cur, ipi, zombies, tstate, tcpu, wchan, chanlock, want, hand>>

\* Leftover victims go back on the own run queue.
Leftovers(c) ==
  /\ cpc[c] = "next"
  /\ mg[c].i > NCPU \/ mg[c].to_send = 0
  /\ mg[c].victims # <<>> => rqlock[c] = Free
  /\ rq' = [rq EXCEPT ![c] = @ \o mg[c].victims]
  /\ mg' = [mg EXCEPT ![c] = NoMigration]
  /\ Goto(c, AfterTick(c))
  /\ UNCHANGED <<rqlock, isidle, cur, ipi, zombies, tstate, tcpu, wchan, chanlock, want, hand>>

-----------------------------------------------------------------------------

SwitchStep(c) ==
  SwitchNot(c) \/ SwitchOut(c) \/ SwitchIn(c) \/ GoIdle(c) \/ Unidle(c) \/ Switched(c)
WakeStep(c) == MakeRunnable(c) \/ WakeDone(c)
MigrateStep(c) ==
  \/ Count(c) \/ Decide(c) \/ TakeVictims(c) \/ NextCPU(c)
  \/ PushVictim(c) \/ SkipCurrent(c) \/ PushDone(c) \/ Leftovers(c)

\* What the kernel does by itself, what threads ask for, what hardware causes.
Kernel(c) == SwitchStep(c) \/ WakeStep(c) \/ MigrateStep(c)
Request(c) == Exit(c) \/ Sleep(c) \/ Fork(c)
Interrupt(c) == Wake(c) \/ TakeIPI(c) \/ Tick(c) \/ MigrateTick(c)

Next == \E c \in CPUs : Kernel(c) \/ Request(c) \/ Interrupt(c)

\* The kernel's own code goes on, through every spinlock that is free again and
\* again; the timer never stops, its interrupt stays pending until the cpu takes
\* it, and most of its ticks do not migrate.
Fairness == \A c \in CPUs :
  /\ SF_vars(Kernel(c))
  /\ SF_vars(Tick(c))

SafeSpec == Init /\ [][Next]_vars
Spec == SafeSpec /\ Fairness

-----------------------------------------------------------------------------
(* Properties                                                              *)

TypeOK ==
  /\ rq \in [CPUs -> Seq(Threads)]
  /\ rqlock \in [CPUs -> CPUs \cup {Free}]
  /\ isidle \in [CPUs -> BOOLEAN]
  /\ cur \in [CPUs -> Threads]
  /\ ipi \in [CPUs -> BOOLEAN]
  /\ zombies \in [CPUs -> SUBSET Threads]
  /\ tstate \in [Threads -> {"none", "S_RUN", "S_READY", "S_SLEEP", "S_ZOMBIE"}]
  /\ tcpu \in [Threads -> CPUs]
  /\ wchan \in Seq(Threads)
  /\ chanlock \in CPUs \cup {Free}
  /\ cpc \in [CPUs -> {"run", "switch", "pick", "switched", "idle", "unidle", "wake",
                       "count", "take", "next", "push"}]
  /\ want \in [CPUs -> {"S_READY", "S_SLEEP", "S_ZOMBIE"}]
  /\ hand \in [CPUs -> Seq(Threads)]
  /\ \A c \in CPUs : mg[c].to_send <= Cardinality(Threads) /\ mg[c].victims \in Seq(Threads)

In(q, t) == Cardinality({i \in DOMAIN q : q[i] = t})

\* The positions at which thread t is on a run queue.
QueueSlots(t) ==
  {s \in CPUs \X (1 .. Cardinality(Threads)) : s[2] \in DOMAIN rq[s[1]] /\ rq[s[1]][s[2]] = t}

\* The number of places thread t can be found in: running, queued to run,
\* asleep on the channel, on the way from it to a run queue, being migrated,
\* or dead.
Places(t) ==
    Cardinality({c \in CPUs : cur[c] = t /\ ~ isidle[c]})
  + Cardinality(QueueSlots(t))
  + In(wchan, t)
  + Cardinality({c \in CPUs : In(hand[c], t) > 0})
  + Cardinality({c \in CPUs : In(mg[c].victims, t) > 0})
  + Cardinality({c \in CPUs : t \in zombies[c]})

\* No thread is lost and none is duplicated: a thread that exists is in exactly
\* one place, whatever is happening to it on whichever cpu.
OnePlace == \A t \in Threads : Places(t) = IF tstate[t] = "none" THEN 0 ELSE 1

\* Every queue, stack and list is made of threads, and every thread is on one.
ThreadsPlaced == TypeOK /\ OnePlace

\* No stack is used by two cpus (thread.c:916-926): two cpus are never on the
\* same thread, and while a cpu is on a thread's stack, be it only to idle, the
\* thread belongs to that cpu and nobody else can pick it.
OneStack ==
  /\ \A c, d \in CPUs : cur[c] = cur[d] => c = d
  /\ \A c \in CPUs : tcpu[cur[c]] = c
  /\ \A c, d \in CPUs : In(rq[d], cur[c]) > 0 => c = d

\* No cpu is on the stack of a thread that has been destroyed (exorcise runs
\* on the stack of the next thread).
NoFreedStack == \A c \in CPUs : tstate[cur[c]] # "none"

\* A cpu's stack is its own and that of a thread that exists.
StacksSafe == OneStack /\ NoFreedStack

\* A thread queued for an idle cpu is not forgotten: the cpu has an interrupt
\* coming (thread.c:633-637), however the queueing and the idling interleave.
NoLostIPI == \A c \in CPUs : cpc[c] = "idle" /\ rq[c] # <<>> => ipi[c]

\* The surplus counted without the lock is still there when the victims are
\* taken (thread.c:887-893): threadlist_remtail never comes back empty.
VictimsThere == \A c \in CPUs : cpc[c] = "take" => mg[c].to_send <= Len(rq[c])

\* A runnable thread runs: the ticks rotate the run queue, an idle cpu is
\* interrupted, and migration moves no thread about for ever.
ReadyRuns(t) == tstate[t] = "S_READY" ~> tstate[t] # "S_READY"

=============================================================================
