------------------------------ MODULE Process ------------------------------
(***************************************************************************)
(* proc/pid.c, proc/proc.c, proc/proclist.c, syscall/forker.c, exit.c and  *)
(* waiter.c: process ids, fork, _exit and waitpid.                         *)
(*                                                                         *)
(* Every process has one thread.  What runs under pid_lock is one step     *)
(* (SleepLock: it excludes); a process' own mutex is taken by its own      *)
(* thread only and is left out; wait_sem is an atomic count                *)
(* (AbstractSemaphore).  No process structure is used again: nothing but   *)
(* failed calls frees one, so Procs bounds the number of creations.        *)
(***************************************************************************)
EXTENDS Integers, Sequences, FiniteSets

CONSTANTS
  Procs,    \* process structures, kproc left out
  Codes,    \* exit codes
  PID_MIN, PID_MAX,
  None      \* no process; memory nobody has written

PIDs == PID_MIN .. PID_MAX - 1

ASSUME ProcessAssumption ==
  /\ PID_MIN \in Nat /\ PID_MAX \in Nat
  /\ PID_MIN = 2 /\ PID_MIN < PID_MAX
  /\ None \notin Procs /\ None \notin Codes /\ None \notin Int

VARIABLES
  pid_allocator,  \* the pids whose entry in pid_allocator[] is true
  proc_counter,
  pc,             \* where each process' thread is; "none" before proc_create
  pid, p_exitcode, wait_sem,
  proc_list,      \* children, in the order they were forked
  child,          \* the new process in sys_fork, t in sys_waitpid
  exit_code,      \* the argument of sys_exit
  status,         \* where sys_waitpid has written to
  retval,         \* what the last fork or waitpid returned
  reaped          \* history: the processes whose pid waitpid has freed

vars == <<pid_allocator, proc_counter, pc, pid, p_exitcode, wait_sem, proc_list,
          child, exit_code, status, retval, reaped>>

\* pid_initialize and proc_bootstrap: kproc has the first pid.
Init ==
  /\ pid_allocator = {PID_MIN}
  /\ proc_counter = 1
  /\ pc = [p \in Procs |-> "none"]
  /\ pid = [p \in Procs |-> 1]
  /\ p_exitcode = [p \in Procs |-> None]
  /\ wait_sem = [p \in Procs |-> 0]
  /\ proc_list = [p \in Procs |-> <<>>]
  /\ child = [p \in Procs |-> None]
  /\ exit_code = [p \in Procs |-> None]
  /\ status = [p \in Procs |-> None]
  /\ retval = [p \in Procs |-> 0]
  /\ reaped = {}

-----------------------------------------------------------------------------
(* pid.c                                                                   *)

\* Whether pid_get looks for a pid at all.
RoomForPid == proc_counter < PID_MAX - 2

\* The search: it starts at PID_MIN every time (start_pid never changes).
FreePids == PIDs \ pid_allocator
FirstFree == CHOOSE i \in FreePids : \A j \in FreePids : i <= j

\* Seeded fault: the entry is not marked.
pid_get_NoMark(q) ==
  IF RoomForPid
    THEN /\ pid' = [pid EXCEPT ![q] = FirstFree]
         /\ pid_allocator' = pid_allocator
         /\ proc_counter' = proc_counter + 1
    ELSE /\ pid' = [pid EXCEPT ![q] = -1]
         /\ UNCHANGED <<pid_allocator, proc_counter>>

\* A full table gives pid -1 (and the call still returns 0).
pid_get(q) ==
  IF RoomForPid
    THEN /\ pid' = [pid EXCEPT ![q] = FirstFree]
         /\ pid_allocator' = pid_allocator \cup {FirstFree}
         /\ proc_counter' = proc_counter + 1
    ELSE /\ pid' = [pid EXCEPT ![q] = -1]
         /\ UNCHANGED <<pid_allocator, proc_counter>>

\* Seeded fault: the pid freed is counted, its entry is not cleared.
pid_free_KeepMark(n) ==
  /\ pid_allocator' = pid_allocator
  /\ proc_counter' = proc_counter - 1

pid_free(n) ==
  /\ pid_allocator' = pid_allocator \ {n}
  /\ proc_counter' = proc_counter - 1

-----------------------------------------------------------------------------
(* Creating processes                                                      *)

\* The menu (common_prog): a process for a program, whatever pid it got, on
\* nobody's list.  When thread_fork fails it is destroyed, its pid is not freed.
RunProgram(q) ==
  /\ pc[q] = "none"
  /\ pid_get(q)
  /\ \E to \in {"user", "destroyed"} : pc' = [pc EXCEPT ![q] = to]
  /\ UNCHANGED <<p_exitcode, wait_sem, proc_list, child, exit_code, status, retval, reaped>>

\* sys_fork, proc_fork: a new process structure.  Without a pid it is left
\* behind; without memory for its file table it is destroyed, its pid kept. Then
\* sys_fork reads the pid of a process it was not given, through a pointer that
\* nobody wrote: either error results, or the machine stops, and no step follows.
ForkCreate(p, q) ==
  /\ pc[p] = "user" /\ pc[q] = "none"
  /\ pid_get(q)
  /\ \/ /\ RoomForPid
        /\ pc' = [pc EXCEPT ![p] = "fork_thread", ![q] = "made"]
        /\ child' = [child EXCEPT ![p] = q]
        /\ UNCHANGED retval
     \/ /\ ~ RoomForPid
        /\ pc' = [pc EXCEPT ![q] = "stillborn"]
        /\ retval' = [retval EXCEPT ![p] = -1]
        /\ UNCHANGED child
     \/ /\ pc' = [pc EXCEPT ![q] = "destroyed"]
        /\ retval' = [retval EXCEPT ![p] = -1]
        /\ UNCHANGED child
  /\ UNCHANGED <<p_exitcode, wait_sem, proc_list, exit_code, status, reaped>>

\* The child goes on the parent's list, then thread_fork starts it or fails.
ForkThread(p) ==
  /\ pc[p] = "fork_thread"
  /\ proc_list' = [proc_list EXCEPT ![p] = Append(@, child[p])]
  /\ \/ /\ pc' = [pc EXCEPT ![p] = "fork_return", ![child[p]] = "user"]
        /\ UNCHANGED <<child, retval>>
     \/ /\ pc' = [pc EXCEPT ![p] = "user", ![child[p]] = "stillborn"]
        /\ child' = [child EXCEPT ![p] = None]
        /\ retval' = [retval EXCEPT ![p] = -1]
  /\ UNCHANGED <<pid_allocator, proc_counter, pid, p_exitcode, wait_sem, exit_code, status, reaped>>

\* The parent's return value is read from the child, which may have exited.
ForkReturn(p) ==
  /\ pc[p] = "fork_return"
  /\ retval' = [retval EXCEPT ![p] = pid[child[p]]]
  /\ child' = [child EXCEPT ![p] = None]
  /\ pc' = [pc EXCEPT ![p] = "user"]
  /\ UNCHANGED <<pid_allocator, proc_counter, pid, p_exitcode, wait_sem, proc_list, exit_code, status, reaped>>

-----------------------------------------------------------------------------
(* _exit                                                                   *)

\* sys_exit up to the release of the mutex: nothing reads is_zombie.
Exit(p) ==
  /\ pc[p] = "user"
  /\ \E e \in Codes : exit_code' = [exit_code EXCEPT ![p] = e]
  /\ pc' = [pc EXCEPT ![p] = "exit_code"]
  /\ UNCHANGED <<pid_allocator, proc_counter, pid, p_exitcode, wait_sem, proc_list, child, status, retval, reaped>>

\* Seeded fault: the parent is told first.
ExitCode_V(p) ==
  /\ pc[p] = "exit_code"
  /\ wait_sem' = [wait_sem EXCEPT ![p] = @ + 1]
  /\ pc' = [pc EXCEPT ![p] = "exit_V"]
  /\ UNCHANGED <<pid_allocator, proc_counter, pid, p_exitcode, proc_list, child, exit_code, status, retval, reaped>>

ExitCode(p) ==
  /\ pc[p] = "exit_code"
  /\ p_exitcode' = [p_exitcode EXCEPT ![p] = exit_code[p]]
  /\ pc' = [pc EXCEPT ![p] = "exit_V"]
  /\ UNCHANGED <<pid_allocator, proc_counter, pid, wait_sem, proc_list, child, exit_code, status, retval, reaped>>

ExitV(p) ==
  /\ pc[p] = "exit_V"
  /\ wait_sem' = [wait_sem EXCEPT ![p] = @ + 1]
  /\ pc' = [pc EXCEPT ![p] = "exit_thread"]
  /\ UNCHANGED <<pid_allocator, proc_counter, pid, p_exitcode, proc_list, child, exit_code, status, retval, reaped>>

\* Seeded fault: the process gives its own pid back.
ThreadExit_FreePid(p) ==
  /\ pc[p] = "exit_thread"
  /\ pid[p] # -1
  /\ pid_free(pid[p])
  /\ pc' = [pc EXCEPT ![p] = "gone"]
  /\ UNCHANGED <<pid, p_exitcode, wait_sem, proc_list, child, exit_code, status, retval, reaped>>

\* thread_exit: the thread leaves the process, which nobody destroys.
ThreadExit(p) ==
  /\ pc[p] = "exit_thread"
  /\ pc' = [pc EXCEPT ![p] = "gone"]
  /\ UNCHANGED <<pid_allocator, proc_counter, pid, p_exitcode, wait_sem, proc_list, child, exit_code, status, retval, reaped>>

-----------------------------------------------------------------------------
(* waitpid                                                                 *)

\* The first child on the list with pid n.
Matches(p, n) == {i \in DOMAIN proc_list[p] : pid[proc_list[p][i]] = n}
FirstMatch(p, n) == CHOOSE i \in Matches(p, n) : \A j \in Matches(p, n) : i <= j

Without(s, i) == SubSeq(s, 1, i - 1) \o SubSeq(s, i + 1, Len(s))

\* Not a child of the caller: ECHILD.
WaitNoChild(p) ==
  /\ pc[p] = "user"
  /\ \E n \in PIDs : Matches(p, n) = {}
  /\ retval' = [retval EXCEPT ![p] = -1]
  /\ UNCHANGED <<pid_allocator, proc_counter, pc, pid, p_exitcode, wait_sem, proc_list, child, exit_code, status, reaped>>

\* Seeded fault: the child stays on the list.
WaitCall_KeepListed(p) ==
  /\ pc[p] = "user"
  /\ \E n \in PIDs :
       /\ Matches(p, n) # {}
       /\ child' = [child EXCEPT ![p] = proc_list[p][FirstMatch(p, n)]]
  /\ pc' = [pc EXCEPT ![p] = "wait_P"]
  /\ UNCHANGED <<pid_allocator, proc_counter, pid, p_exitcode, wait_sem, proc_list, exit_code, status, retval, reaped>>

\* The child is taken off the list before it is waited for.
WaitCall(p) ==
  /\ pc[p] = "user"
  /\ \E n \in PIDs :
       /\ Matches(p, n) # {}
       /\ child' = [child EXCEPT ![p] = proc_list[p][FirstMatch(p, n)]]
       /\ proc_list' = [proc_list EXCEPT ![p] = Without(@, FirstMatch(p, n))]
  /\ pc' = [pc EXCEPT ![p] = "wait_P"]
  /\ UNCHANGED <<pid_allocator, proc_counter, pid, p_exitcode, wait_sem, exit_code, status, retval, reaped>>

WaitP(p) ==
  /\ pc[p] = "wait_P"
  /\ wait_sem[child[p]] > 0
  /\ wait_sem' = [wait_sem EXCEPT ![child[p]] = @ - 1]
  /\ pc' = [pc EXCEPT ![p] = "wait_status"]
  /\ UNCHANGED <<pid_allocator, proc_counter, pid, p_exitcode, proc_list, child, exit_code, status, retval, reaped>>

WaitStatus(p) ==
  /\ pc[p] = "wait_status"
  /\ status' = [status EXCEPT ![p] = p_exitcode[child[p]]]
  /\ pc' = [pc EXCEPT ![p] = "wait_free"]
  /\ UNCHANGED <<pid_allocator, proc_counter, pid, p_exitcode, wait_sem, proc_list, child, exit_code, retval, reaped>>

\* The pid can be given out again; the call returns 0.
WaitFree(p) ==
  /\ pc[p] = "wait_free"
  /\ pid_free(pid[child[p]])
  /\ reaped' = reaped \cup {child[p]}
  /\ retval' = [retval EXCEPT ![p] = 0]
  /\ child' = [child EXCEPT ![p] = None]
  /\ pc' = [pc EXCEPT ![p] = "user"]
  /\ UNCHANGED <<pid, p_exitcode, wait_sem, proc_list, exit_code, status>>

-----------------------------------------------------------------------------

\* Kernel code under way, and what user programs and the menu start.
Kernel(p) ==
  \/ ForkThread(p) \/ ForkReturn(p)
  \/ ExitCode(p) \/ ExitV(p) \/ ThreadExit(p)
  \/ WaitP(p) \/ WaitStatus(p) \/ WaitFree(p)

User(p) ==
  \/ RunProgram(p) \/ (\E q \in Procs : ForkCreate(p, q))
  \/ Exit(p) \/ WaitNoChild(p) \/ WaitCall(p)

Next == \E p \in Procs : Kernel(p) \/ User(p)

\* A system call under way goes on; no program has to exit.
Spec == Init /\ [][Next]_vars /\ \A p \in Procs : WF_vars(Kernel(p))

-----------------------------------------------------------------------------
(* Properties                                                              *)

Places == {"none", "made", "stillborn", "destroyed", "user", "fork_thread", "fork_return",
           "exit_code", "exit_V", "exit_thread", "gone", "wait_P", "wait_status", "wait_free"}

TypeOK ==
  /\ pid_allocator \subseteq PIDs
  /\ proc_counter \in 0 .. PID_MAX - 2
  /\ pc \in [Procs -> Places]
  /\ pid \in [Procs -> PIDs \cup {1, -1}]
  /\ p_exitcode \in [Procs -> Codes \cup {None}]
  /\ wait_sem \in [Procs -> {0, 1}]
  /\ proc_list \in [Procs -> Seq(Procs)]
  /\ child \in [Procs -> Procs \cup {None}]
  /\ exit_code \in [Procs -> Codes \cup {None}]
  /\ status \in [Procs -> Codes \cup {None}]
  /\ retval \in [Procs -> PIDs \cup {0, -1}]
  /\ reaped \subseteq Procs

\* The processes that exist and have a pid of their own.
Owners == {q \in Procs : pc[q] \notin {"none", "destroyed"} /\ pid[q] # -1} \ reaped

\* A pid names one process from the fork to the end of the waitpid that
\* collects it, and nobody else is given it (pid.c:20-52, waiter.c:45).
PidsUnique ==
  /\ \A q \in Owners : pid[q] \in pid_allocator \ {PID_MIN}
  /\ \A q, r \in Owners : pid[q] = pid[r] => q = r

\* pid_get's search ends: whenever the counter lets it start there is an entry
\* to find (pid.c:23-31).
SearchEnds == RoomForPid => FreePids # {}

\* The child on a list or being waited for is collected by one process once:
\* it is on one list, in one place, or in one waitpid (waiter.c:24-43).
Listings(t) ==
    Cardinality({pi \in Procs \X (1 .. Cardinality(Procs)) :
                   pi[2] \in DOMAIN proc_list[pi[1]] /\ proc_list[pi[1]][pi[2]] = t})
  + Cardinality({p \in Procs : pc[p] \in {"wait_P", "wait_status", "wait_free"} /\ child[p] = t})

CollectedOnce == \A t \in Procs : Listings(t) <= (IF t \in reaped THEN 0 ELSE 1)

\* The pid that fork returns is one the parent can wait for, although the child
\* may have run and exited before the parent reads it (forker.c:45-53).
ForkReturnsChild == [][\A p \in Procs :
  pc[p] = "fork_return" /\ pc'[p] = "user" =>
    /\ retval'[p] \in pid_allocator
    /\ Matches(p, retval'[p]) # {}]_vars

\* What AbstractWait calls the state of q: it has exited when its parent can
\* know, and is collected when its parent has its code.
HasExited(q) == pc[q] \in {"exit_thread", "gone"}
Collected(q) == q \in reaped \/ (\E p \in Procs : pc[p] = "wait_free" /\ child[p] = q)

AState(q) ==
  CASE Collected(q) -> "collected"
    [] HasExited(q) /\ ~ Collected(q) -> "exited"
    [] pc[q] \in {"none", "made", "stillborn", "destroyed"} /\ ~ Collected(q) -> "none"
    [] OTHER -> "running"

Abstract == INSTANCE AbstractWait WITH
  state <- [q \in Procs |-> AState(q)],
  exit <- [q \in Procs |-> IF HasExited(q) THEN exit_code[q] ELSE None],
  asked <- [p \in Procs |-> IF pc[p] \in {"wait_P", "wait_status"} THEN child[p] ELSE None]

\* fork, _exit and waitpid do what AbstractWait says: one waiter collects each
\* exit code, once, never early, and gets it in the end (exit.c:12-13,
\* waiter.c:43-45).
ImplementsWait == Abstract!ASpec

(* What the manual says and the code does not do.                          *)

\* "On error, no new process is created" (man/syscall/fork.html:88): no process
\* that never ran is left on its parent's list.
FailedForkLeavesNothing ==
  \A p \in Procs : \A i \in DOMAIN proc_list[p] : pc[proc_list[p][i]] # "stillborn"

=============================================================================
