# Verification of the OS/161 kernel in os161-gmu-2.0

TLA+ modules, TLC configurations and TLAPS proofs about the kernel under
`src/os161-gmu-2.0/kern`. Paths below are relative to that directory unless they
start with `src/`. The repository holds older copies of the same kernel beside it
(`src/os161-2.0`, `src/asst3`, `src/ASST4a`, ...): they are earlier snapshots of
one course's assignments and are not modelled.

OS/161 is a small multiprocessor kernel for MIPS. This copy has its own sleep
locks and condition variables (`thread/synch.c`), process ids, fork, exit,
waitpid and execv (`proc/`, `syscall/`), open files (`syscall/`), and a coremap and
address spaces (`vm/`). Most of what is hard in it is concurrency: threads on several cpus,
interrupt handlers, and structures shared by processes.

## 1. Inventory

| Component | Source | State | Operations |
|---|---|---|---|
| Semaphores | `thread/synch.c:35-139` | count, spinlock, wait channel | `P`, `V` |
| Sleep locks | `thread/synch.c:144-242` | holder, spinlock, wait channel | `lock_acquire`, `lock_release`, `lock_do_i_hold` |
| Condition variables | `thread/synch.c:247-345` | wait channel, and the spinlock inside the lock | `cv_wait`, `cv_signal`, `cv_broadcast` |
| Wait channels | `thread/thread.c:980-1140` | list of sleeping threads | `wchan_sleep`, `wchan_wakeone`, `wchan_wakeall` |
| Spinlocks, interrupt levels | `thread/spinlock.c`, `thread/spl.c` | lock word, holder; level, nesting | acquire, release, `splraise`, `spllower` |
| Scheduler and threads | `thread/thread.c`, `thread/clock.c` | run queue, idle flag, current thread and zombies per cpu; state and cpu per thread | fork, exit, yield, switch, idle, wake, migrate, IPIs |
| Process table, lifecycle | `proc/`, `syscall/{forker,exit,waiter}.c` | pid map and counter; pid, exit code, children, wait semaphore per process | `pid_get`, `pid_free`, fork, `_exit`, waitpid |
| execv | `syscall/{execv,runprogram,loadelf}.c` | address space, argument copies | `sys_execv`, `runprogram`, `load_elf` |
| Physical memory | `vm/coremap.c`, `vm/addrspace.c:60-115` | coremap, one spinlock | `coremap_allocate`, `alloc_kpages`, `free_kpages` |
| Address spaces and TLB | `vm/addrspace.c:130-409` | regions, stack, TLB | `as_*`, `vm_fault` |
| File table, open files | `syscall/{filetable,openfile,file_syscalls}.c` | descriptors; references, seek position and its lock per open file | open, close, dup2, read, write, lseek, copy on fork |
| Kernel heap | `vm/kmalloc.c` | page lists by block size, one spinlock | `kmalloc`, `kfree` |
| VFS | `vfs/` | vnode references, device list, big lock | lookup, mount, reference counting |
| File systems | `fs/semfs`, `fs/sfs` | semaphores as files; inode table, free map, directories | vnode and fs operations |
| Exercises | `synchprobs/` | counters, lock, cv, semaphores | bathroom, whale mating |
| Devices | `dev/` | console ring buffer, disk registers, alarms | interrupt handlers, transfers |
| Traps, boot, library, tests | `arch/`, `lib/`, `main/`, `test/` | registers | dispatch, menus, data structures |

How they interact. Spinlocks are held with interrupts off, so that a holder is
never descheduled. Semaphores, locks and condition variables each keep a wait
channel under a spinlock; sleeping hands the spinlock to `thread_switch`, which
queues the thread before it lets go. Waking moves a thread from the channel to
the run queue of its cpu and interrupts that cpu if it idles; the timer preempts,
and now and then migrates. Processes wait for each other with a semaphore per
process, share open files after fork, and an open file uses a sleep lock for its
position. Memory for all of it comes from `kmalloc` and the coremap.

What is hard to get right, and to test:

- *two cpus, or a cpu and a handler, between two spinlock sections*: the wakeup
  that comes before the sleep, the barging thread, the thread woken before it has
  left its stack, the cpu that idles just when work arrives;
- *calls that give up a lock in the middle*: `cv_wait`, `cv_signal`,
  `thread_consider_migration`, `free_kpages`, `kmalloc` around every page it needs;
- *two locks for two halves of one fact*: the last close of a semaphore and its
  removal from `sem:` each read what the other one's lock protects;
- *caches*: the TLB of a cpu after a switch, a migration, a load or an execv;
- *sharing across processes*: a file closed by one and used by another, a pid
  freed and given out again, a child that exits before its parent's fork returns;
- *failure after the first half of a job*: fork after the child is listed, open
  after the file exists, a transfer that fails with the lock held, execv after the
  old image is gone, kmalloc after it has marked a structure as used;
- *limits*: the pid table full, the descriptor table full, the semaphore count at
  its largest value, the last pages of RAM.

`PROJECT.json` lists these as hazards, each at its line, with the properties that
would catch it.

Correctness of each component, in a sentence: P and V are atomic and lose no
wakeup; one thread holds a lock, and a free one is got; a cv does what its header
says, atomically; a thread is in exactly one place, on one stack, and runs if it
is ready; a pid names one process and a waiter gets its child's exit code once; a
page has one owner, and so has each byte of a block of the heap; a program reaches
the pages of its own image only and writes only where it may; a reference count is
the number of references and a position does not move under a transfer; a semaphore
of `sem:` exists as long as it has a name or is open, and no longer.

## 2. Modules

| Module | Models | Extends / instantiates |
|---|---|---|
| `AbstractSemaphore` | what P and V promise: atomic on a count | |
| `Synch` | the threads that call the primitives of `synch.c` | |
| `Semaphore` | P and V step by step, threads and handlers | extends `Synch`, refines `AbstractSemaphore` |
| `AbstractLock` | a lock granted to one thread that wants it | |
| `SleepLock` | `lock_acquire`, `lock_release` step by step | extends `Synch`, refines `AbstractLock` |
| `CondVar` | `cv_*` over that lock, the cv's channel under the lock's spinlock | extends `SleepLock` |
| `Sched` | `thread.c` and `hardclock` on several cpus | |
| `AbstractWait` | what `_exit` and waitpid promise | |
| `Process` | pids, fork, `_exit`, waitpid, the menu | refines `AbstractWait` |
| `Coremap` | page allocation, entry by entry | |
| `OpenFile` | descriptor tables and shared open files | |
| `AddressSpace` | loading, executing and replacing programs over the TLBs of several cpus | |
| `KernelHeap` | `kmalloc` and `kfree` on top of the page allocator | |
| `SemFS` | semaphores as files, and the reference counts of their vnodes | |
| `SynchProofs`, `SchedProofs`, `OpenFileProofs`, `CoremapProofs`, `ProcessProofs`, `SemFSProofs`, `AddressSpaceProofs`, `KernelHeapProofs` | theorems | extend their components (`SynchProofs` both `Semaphore` and `CondVar`, and so `SleepLock`) |
| `MC*` | the instances TLC checks | extend their components |

How state and actions correspond. Variables carry the names of the fields they
model (`sem_count`, `c_runqueue` as `rq`, `pid_allocator`, `of_refcount`, ...),
actions the names of the functions or of the part of a function they stand for;
`map` in `PROJECT.json` gives the lines. A step is what no other cpu can see the
inside of: the code under one spinlock, or under the locks a component below
provides. The components are composed by refinement: `Semaphore` and `SleepLock`
are checked and proved to be atomic, and the modules above them (`Process`,
`OpenFile`, `SemFS`) use an atomic semaphore or lock.

An operator whose comment begins with "Seeded fault" is a wrong variant of the
definition that follows it; nothing in a specification uses it. Each property
has one: putting it in the place of the right definition makes TLC find the
property violated.

### Semaphore

`sem_pc` says where a caller is in `P` or `V`; `SemSpinAcquire` and `SemSpinRelease` are the
spinlock, whose holder has its interrupts off. `PSleep` is `wchan_sleep` up to the
switch: `thread_switch` queues the thread before it releases the spinlock, so that
is one step. A woken thread (`WakeOne`) is only runnable: it takes the spinlock
again (`PRelock`) and tests again, while others may barge in. The unsigned count
wraps at `CountModulus`, and the `KASSERT` after the increment stops the machine
(`VOverflow`). Interrupt handlers call `V` only.

### SleepLock and CondVar

`SleepLock` is the same for `lock_acquire` and `lock_release`, which does not
check its caller. `CondVar` adds the three operations with the calls they make:
`cv_wait` releases lock and spinlock and takes the spinlock again before it
sleeps; `cv_signal` releases the lock; `cv_broadcast` calls `lock_release` with
the spinlock held. `spinlock_acquire` by the holder's own cpu panics
(`SpinOnOwn`). The clients here know that `cv_signal` gives the lock away;
`test/synchtest.c`, `synchprobs/whalemating.c` and `fs/semfs` do not, and the run
`semfs_count` shows what comes of it. Because waiters panic when they are woken,
the properties of this module are about what happens up to a panic.

### Sched

Per cpu the run queue and its lock, the idle flag, the thread whose stack the cpu
is on (`cur`), pending IPIs and zombies; per thread its state and its cpu; one
wait channel with its spinlock. `rqlock` stays held over several steps only where
the code holds it over a context switch, or over the loop that pushes migrated
threads to another cpu. A cpu that idles stays on the stack of the thread it ran
last, which may meanwhile be woken, queued again, and even met by the migration
code in a timer interrupt: `SkipCurrent` is what `thread.c:904-932` does about
it. In a new thread `t_cpu` is copied from the forker without interrupts off, so
it may be any cpu's.

### Process

A process has one thread, so its own mutex is left out; everything under
`pid_lock` is one step, `wait_sem` is an atomic semaphore. fork is three steps
(create, list and start, read the return value), `_exit` four (the argument, the
code, the `V`, the thread's exit), waitpid four (unlist, `P`, read the code, free
the pid). Process structures are never used again, as in the code, where only
failed calls destroy one. The pid table is small, so it fills up and pids are
used again. When `proc_fork` fails for want of memory, `sys_fork` reads the pid of
a process it was not given; the model has the error that it returns if it survives that.

### Coremap

Every access to an entry is a step, since `free_kpages` takes no lock: marking an
entry is `Mark` (its count) and `Take` (its free bit), freeing one `FreeEntry` and
`ClearEntry`. Whoever has a block may free it. The last `coremap_size` entries are
never initialised: any value for their free bit, and `Garbage` for their chunk
size. `blocks` is what has been handed out, in page numbers: one more than the
numbers of the entries. So `free_kpages`, which starts at the entry with the
page's number, frees the rest of a longer block (whose first page is lost), and
behind a block of one page whatever begins there. The history variable `strayed`
records that it did the second.

### OpenFile

Descriptor tables, reference counts, seek positions and their locks. A read,
write or seek is: look up the descriptor, take the lock if the file is seekable,
transfer, store the position and release. dup2 and close change the table before
they drop a reference, and fork copies entry by entry while other processes open,
close and seek. `sys_exit` closes nothing, as in the code. A freed structure can be
allocated again.

### AddressSpace

Addresses are page numbers. A thread may be switched out between any two steps and
go on on another cpu (`Switch` is the tail of `thread_switch`, where `as_activate`
empties the TLB unless the thread has no address space). An instruction is a
sequence of page accesses that must all hit the TLB at once; copies the kernel
makes into user memory (`load_segment`, the arguments) go page by page. `vm_fault`
is two steps, since the thread can be switched out between them: `FaultLookup` walks
the segments, `FaultFill` writes the first empty slot with interrupts off. When no
slot is empty it empties the last one and maps nothing, and the access faults again.
For an address no segment holds `paddr` is never written: the assertion fails, or
any page of `Garbage` is mapped. `as_create` does not set `no_of_segments` and
`page_table`; what `kmalloc` left there is stood for by no segments at all, for which
a fault maps any page or stops the machine, as it would.

Physical memory is the pool that the kernel allocates from, too: `KernelAllocates`
and `KernelFrees` are thread stacks and pages of the heap that come and go at any
time, `HandOut` and `Freed` what `coremap_allocate` and `free_kpages` do to the
coremap, the page and entry numbers that differ by one included, as a single step
each (`Coremap` has the writes one by one). `strayed` records that a `free_kpages`
freed a page that was not its block's; from then on a page of an image can be
handed out again. Behind the last page there is an entry nobody wrote; here nothing
is freed there.

`load_elf` is the pass that counts and defines the regions (`DefineRegions`), one step per
segment and the stack for `as_prepare_load`, one per segment for the loading, which
writes the pages that the file has bytes for (`Copied`), and
`as_complete_load`; it may fail at every read. Without an address space or a page
table from `kmalloc` it writes to address 0 (`DefinePanics`). There is a segment less than there
are headers, and a region for which none is left is dropped. `runprogram` ends the
process when it fails, `sys_execv` returns to the program it has destroyed.
No process gives a page back. `image` is a history variable: what became of the last
load, and whether the thread has been switched in since.

### KernelHeap

A step is a section of `kmalloc_spinlock`, or one call of `alloc_kpages` or
`free_kpages`, which are made without it. A call of `subpage_kmalloc` goes from
`run` to `page` (it needs one), `pageref` (it has one and looks for the structure
to describe it), `refpage` and `relock` (the structure's own page is missing), and
to `raced` when somebody else has put one there meanwhile; `giveback` is the
page freed at the end of a failed kmalloc or of a kfree. Each allocation of a page may
fail. `alloc_kpages` is taken at its word here: that it is not is what
`Coremap` is about. `panicked` is the assertion in `freepageref`.

### SemFS

The three sleep locks are variables that hold a thread; a step runs from one lock
operation to the next, and the accesses that no lock orders (`sems_linked` in
reclaim, `sems_hasvnode` in remove, the count after `cv_signal` gave the lock
away) are steps of their own. Every allocation of `semfs_creat` and
`semfs_getvnode` may fail. A thread has at most one open file, opened by `creat` or
`lookup` and closed by `vnode_decref`. `broken` records the way the kernel went
wrong: an assertion, an object destroyed in use or twice, success without a
vnode, or a cv that panics as in `CondVar`; nothing happens after it. The slots of
the table are counted from 1.

## 3. Runs

| Run | Instance | Shows |
|---|---|---|
| `semaphore` | 3 threads, a handler, count modulo 4 | no lost wakeup, refinement of the atomic semaphore with progress |
| `sleep_lock` | 4 threads | mutual exclusion, no lost wakeup, refinement of the atomic lock with progress |
| `condvar` | 3 threads, all operations | exclusion, the two channels and the lock's wakeups hold up to a panic |
| `scheduler` | 2 cpus, 3 threads | one place, one stack, no freed stack, no lost IPI, migration never runs short; a forked thread that is ready runs |
| `processes` | 3 processes, 3 pids, 2 codes | pids unique, the search ends, nobody collected twice, fork names a child; refinement of `AbstractWait` with progress |
| `coremap` | 2 threads, 6 pages, blocks of 1 or 2 | pages in RAM, searches count free entries under unlocked frees, no double allocation until a `free_kpages` goes on behind its block |
| `open_files` | 3 processes, 2 descriptors, 2 files | references counted, files and positions stable, no held lock destroyed |
| `address_space` | 2 processes, 2 cpus, TLBs of 2, 6 pages, one execv, one block of the kernel | the TLB tells the truth, has no page twice, images and the kernel's block do not overlap until a `free_kpages` frees another's page, read-only pages are protected from the first switch on, only a failed execv returns to an image that is not whole |
| `kernel_heap` | 3 threads, 4 pages, 2 sizes, 2 roots of 2 | blocks are disjoint, the lists agree, every page has one owner, and the one assertion that can fail does so behind a full root only |
| `semfs` | 3 threads, 1 name, 2 semaphores, 2 vnodes, counts to 2 | references counted, tables agree, no use after the end, nothing forgotten; a semaphore is destroyed wrongly only where the remove and the last close of it overlap |

Where several invariants describe one structure a run checks their conjunction
(`ThreadsPlaced`, `StacksSafe`, `TlbWellFormed`, `UserImages`, `HeapConsistent`,
`SemsConsistent`, `CvOneHolder`). The type invariants of `Semaphore`, `SleepLock`, `Process`, `Coremap` and
`OpenFile`, `SleepersQueued` and `SemSleepersQueued` are theorems (section 4) and no run's properties.

Runs that TLC must find violated, because the code does not do what a manual
page says (quoted in `findings`):

| Run | What happens |
|---|---|
| `fork_error` | a fork that fails leaves a child on its parent's list; waiting for it never ends |
| `semfs_count` | `semfs_write` stores the count after `cv_signal` has given the lock away, and releases the lock again: two readers take one unit |

Met while modelling, and not given a run:

- a waiter that is woken calls `lock_acquire` with the lock's spinlock held, and the
  machine panics (`synch.c:300`, against `include/synch.h:132-133`); `cv_broadcast`
  panics the same way (`synch.c:343`). They are the states `panicked = "wait"` and
  `"broadcast"` of `CondVar`;
- a signal between the release of the lock and the sleep in `cv_wait` wakes nobody
  (`synch.c:293-296`, against `synch.h:141`);
- `free_kpages` of one page frees the block behind it, that of a longer block loses
  its first page (`addrspace.c:101`, `coremap.c:61`): once it has freed what was not
  its block's, `BlocksDisjoint` of `Coremap` and what `Isolated` of `AddressSpace` says
  of two images no longer hold, and both are stated up to there (`strayed`);
- with more than 512 pages the coremap's own second page is handed out
  (`coremap.c:36`);
- `vm_fault` goes on with an uninitialised `paddr` for an address outside every segment
  (`addrspace.c:206`, against `man/testbin/faulter.html:50-51`);
- a full TLB gives up its last slot only and maps nothing (`addrspace.c:225`): an
  instruction that needs two pages which both have to go there faults for ever;
- segments are not zeroed (`addrspace.c:334` is behind a return, against
  `loadelf.c:117-121`), and `load_elf` allocates one segment less than there are headers
  but clears as many as there are headers (`loadelf.c:219-225`);
- a `kmalloc` that gets no page for a pageref leaves the pageref marked
  (`kmalloc.c:281-287`);
- `semfs_creat` reports success and has no vnode when a directory entry cannot be
  allocated (`semfs_vnops.c:424-427`); the removal and the last close of a
  semaphore can both destroy it (`semfs_vnops.c:496`, `631`). They are the
  states `broken = "no vnode"` and `"destroyed"` of `SemFS`;
- with a full table the menu starts programs with pid -1 (`proc.c:76`); the pid of a
  child nobody waits for is never freed (`exit.c:5`, against
  `man/syscall/waitpid.html:72`); a successful waitpid returns 0, not the pid
  (`waiter.c:46`);
- `ipi_tlbshootdown` forgets a flush (`thread.c:1173-1193`), in code nothing calls.

Why the bounds are enough. Three threads let one sleep, one wake it and one barge
in between; a fourth, in `sleep_lock`, makes two sleepers and two contenders. A
count modulo 4 reaches zero, several units, and the wrap. Two cpus and three
threads give every pair of actions on different cpus, an idle cpu with a sleeping
thread whose stack it uses, and a surplus to migrate; a thread can exit and its
structure be forked again. Three pids (one is kproc's) for three processes fill
the table and reuse pids, and grandchildren fit. Six pages, one of them the
kernel's, and blocks of at most two make neighbours, holes, exhaustion and the
boundary at the end of RAM. Two descriptors fill a table and make dup2 replace an
entry; three processes make sharing across two forks. A TLB of two entries is full
with two of the three pages of a program (two of text, one of stack), so entries are
pushed out, and the one instruction of the programs needs two pages at once, a
store to the read-only one among them; memory is enough for two images, or for one
and a load that runs out beside a block of one or two pages of the kernel, which
may lie before, between or behind them when it is given back. A second segment of
a program would multiply the states and adds a kind of page that the stack already
is; the proofs are for any number. Two roots of two pagerefs and four pages for
three threads let a root be raced for, fill up with failed calls and stand before
another one, and let memory run out anywhere. One name and two semaphores make the
name be used again while the old semaphore is open; counts to two tell the wakeup
of one, the wakeup of all and the overflow apart. Symmetry is used for
interchangeable processes, threads, cpus, pages and objects, in runs that check
invariants and single steps only.

Deadlock is checked for `sleep_lock`, the scheduler and the coremap. The other
systems may really stop: all threads asleep in `P`, a panic, all processes gone.

### Fairness

- `Semaphore`, `SleepLock`: weak fairness for the steps of a caller inside an
  operation. Runnable threads are scheduled round robin by `hardclock`
  (`thread/clock.c:90-106`), and spinlock sections are short. Weak fairness is
  enough because the abstract specifications promise progress of the whole, not
  that no thread is overtaken. Nothing makes a thread call an operation.
- `Sched`: strong fairness for a cpu's own kernel code, since a spinlock that is
  free again and again is got in the end, and for a timer tick that is taken: the
  timer never stops and its interrupt stays pending until interrupts are on. IPIs
  and threads' requests need no fairness.
- `Process`: weak fairness for a system call under way; no program must exit.

## 4. Proofs

`tlapm` checks the proofs for every value of the constants, under the named
assumptions of the modules (`SemaphoreAssumption`, `SleepLockAssumption`,
`SchedAssumption`, `OpenFileAssumption`, `CoremapAssumption`, `ProcessAssumption`,
`SemFSAssumption`, `AddressSpaceAssumption`, `KernelHeapAssumption`: sets are finite where a count needs it, the placeholder for nobody is nobody, bounds are natural
numbers and leave room for what is there from the start).

- `SynchProofs`, the semaphore. `SemIInv`, inductive, adds to the properties that the
  spinlock's holder is in a critical piece of code, that everybody else is not,
  and that the sleepers on the channel are pairwise different. `SemNoLostWakeup`
  alone is not inductive: a `V` in its body must be known to hold the spinlock, or
  the count could change under a thread that has just tested it. Its step adds a
  unit and a contender at once, and the lemmas `QueueTail` and `QueueAppend` say
  what a list without repetitions is after a thread has left its head or joined it. Theorems: types,
  `SemSleepersQueued`, `SemNoLostWakeup`, and that every step is one of
  `AbstractSemaphore` or a stutter.
- `SynchProofs`, the lock. The invariant relates `holder` to the label of every thread;
  it is what makes a `lock_release` that checks nothing safe for clients that
  release only what they acquired. Theorems: types, mutual exclusion,
  `SleepersQueued`, no lost wakeup, refinement of `AbstractLock`. For the condition
  variables `CvIInv` extends it to the labels of `cv_wait`, `cv_signal` and
  `cv_broadcast`: who holds the spinlock that both channels share, who owns the
  lock, and that the waiters on the cv's channel are those that say so, once each.
  The steps of the lock inside a cv operation are those of `SleepLock`, so that its
  lemmas are used again. Theorems: `CvOneHolder`, `NoLostWakeup`, `ChannelsAgree`.
- `SchedProofs`, for any number of cpus and any finite set of threads. `PlaceOf` says
  for one thread what its state means: running on the cpu `t_cpu` names; ready on
  that cpu's run queue, among its victims, or in somebody's hands on the way there;
  asleep on the channel or in the hands of a waker; dead on the list of its own
  cpu. With `Lists` (no list has a thread twice) it implies that the places of a
  thread sum to one, which is not inductive: it does not say which place. A step
  moves one thread, or cuts or joins lists, and `KeepsPlace` disposes of all
  others. `Running` ties a cpu to the thread whose stack it is on by `t_cpu`: that is
  why a push of another cpu, which changes `t_cpu`, must skip the current thread,
  and why nobody is on an exorcised stack. `Surplus` bounds what a migration has
  counted by what is in the run queue (others only add to it) and then by the
  victims. No part mentions who holds a run queue lock: the steps are atomic
  because of the locks, and that is all the locks are for.
  Theorems: `ThreadsPlaced`, `StacksSafe`, `NoLostIPI`, `VictimsThere`.
- `OpenFileProofs`, for any finite set of processes and any set of files. A file's
  count is the cardinality of the set of places that hold it, so a step is
  classified by what it does to places: it adds one (`RefAdded`), drops one
  (`RefDropped`), exchanges two (`RefsSwapped`) or touches none. Three parts
  strengthen the counting. `Locals`: the entry a transfer works on stays in its
  table, and the process between `openfile_decref` and `openfile_destroy` works on
  a count of one, which with the counting says that it is alone
  (`DestroyerIsAlone`). `Copying`: the table `filetable_copy` fills is empty from
  there on and filled by one process only. `Locking`: the lock on a position is
  held exactly by the one that is using it. Theorems: types with the bound on the
  counts, `RefsCounted`, `FileStays`, `OffsetStable`, `NoHeldLockDestroyed`.
- `CoremapProofs`, for any memory, any number of threads and any contents of the
  uninitialised entries. `Searching` bounds a search and the marking after it, which
  gives `PagesInRam`. `SearchesSound` needs only that the holder of the spinlock alone takes
  entries: a free under way makes more of them free. `Untouched` holds up to `strayed`:
  the entries of a block, those that a thread has marked and those that a
  `free_kpages` has yet to free are taken, and each belongs to one of these; for a
  block of two pages the entries to free are within the block, since the
  page's entry says how many are left.
  Theorems: types, `PagesInRam`, `SearchesSound`, `DisjointUntilStray`.
- `ProcessProofs`, for any set of processes and any range of pids that starts at 2.
  `Counting` ties the counter to the size of the map, which is why the search of
  `pid_get` cannot run on for ever; that `PID_MIN` is 2 matters there, since the
  code compares the counter with `PID_MAX - 2`. `Children` and `OneParent` say that
  whoever is on a list, in a fork or in a waitpid exists, has its pid, and is there
  once; they are what makes the `pid_free` of a waitpid free the pid of that
  child and nobody else's. `Told` says that whatever a `wait_sem` or `reaped` reports
  has happened. For the refinement `CodesKept` adds that the structure holds the
  exit code from `sem_V` on, in whatever order the parent looks. Theorems: types,
  `PidsUnique`, `SearchEnds`, `CollectedOnce`, `ForkReturnsChild` (a property of
  steps), and the safety part of `ImplementsWait`.

- `SemFSProofs`, for any finite set of threads and any names, semaphores and vnodes.
  A panic or an overlap of remove and reclaim can break the file system, so
  the invariant has a part for every state (types, one vnode per number, no
  assertion failed) and a part for a file system that is not broken. There a
  vnode's count is the cardinality of the threads that hold it, and the rest says
  for each label what its thread has in hand: a looker's name is linked, a
  creator's semaphore is its own until it has a vnode, a remover's number stays
  reserved, a reclaimer is the last to refer to its vnode. Steps are grouped by what
  they touch: nothing in the tables, one semaphore with its slot and entry under
  the directory's lock, a reference that comes, a reference that goes.
  `DestroyedWhileRemoved`, a property of steps, follows from it: a reclaim that destroys
  finds only a remover of the same semaphore at its lock (`ReclaimMeetsRemove`), a
  remove goes wrong only on a semaphore that is gone already (`RemoveFindsGone`),
  and of the few steps that end a semaphore (`OnlyEnders`) the last close is the only
  one that another thread's remove does not exclude by the directory's lock.
  Theorems: `RefsCounted`, `SemsConsistent`, `UsersSafe`, `NoneForgotten`,
  `DestroyedWhileRemoved`.

- `AddressSpaceProofs`, for any processes, cpus, sizes of the TLB and of memory,
  executables and programs. A process changes what is its own and the TLB of the
  cpu it is on, so the invariant has a part for a process, one for a process
  and its cpu, one for a TLB, and one for the pages that processes could share.
  `Staged` and `Built` say for each point of a load how much of the image there is,
  in terms of the loop variable and of the program's headers (`Shaped`): the
  k-th region is that of the k-th header to load. They are what makes the loading
  and `as_complete_load` end with all segments there. `OnCpu` ties the entries of a TLB
  to the address space by their frames, from the end of the load's first switch on
  also by their permissions, and says that the page `vm_fault` is about to map is
  not mapped: between its two steps only a switch can intervene, and that empties
  the TLB. While segments get their pages the TLB is empty, because nothing has
  been accessed yet. The steps of a load that change an address space and no TLB entry
  are instances of one predicate, `Reshapes`, and one lemma, `ReshapeInv`. `Owned` and `Apart` (no page in two images, no page of an image free) and `KernelOwns`
  (no page of a block of the kernel is free, in an image or in another block) need
  no cpu at all. They hold as long as not `strayed`: until then `KernelFrees` gives back
  pages of its own block only, and those the block no longer has are nobody's. The
  invariant says nothing of entries for addresses that no segment holds: they map
  what `paddr` happened to be.
  Theorems: `TlbCorrect`, `TlbWellFormed`, `WriteProtected`, `Isolated`, `UserImages`.

- `KernelHeapProofs`, for any threads and pages, any sizes of blocks of which two
  fit on a page, and any numbers of roots and pagerefs. `Heap` holds for ever:
  `Agrees` says of a page of blocks that its freelist and the blocks of it that are
  held are all its blocks, each once (blocks are multiples of their size, so
  different ones do not overlap); `Placed`, that a block held is a whole page or on a
  page of blocks, which is why `subpage_kfree` never frees a page for a pointer into
  its middle; `OnePlace`, that a page has one place. `Calls` holds until an
  assertion fails: `SomePlace` (no page is lost), `InHand` (the page and the pageref a
  call has at its label; a root whose page was seen keeps it, so the assertion after
  a lost race holds), `Bits` (what each bit is set for, and that nobody shares a
  pageref in flight). `FullBefore` is what the assertion of `freepageref` needs:
  `allocpageref` takes the first root with room, and a bit of a root
  without a page is never cleared, so a bit of a later root means that all of
  the earlier one are set. The lists of a page are sequences there, with `RemoveFirst`
  for the unlinking of `remove_lists` (lemma `TakeOut`).
  Theorems: `HeldDisjoint`, `HeapConsistent`, `PagesAccounted`, `AssertionBehindFullRoot`.

Only model-checked: everything under fairness (the progress part of the
refinements, `NewThreadRuns`).

## 5. What is not modelled

- Creation and destruction of synchronisation objects beyond their initial state:
  no caller in the tree destroys one in use, except semfs, whose semaphores are
  modelled with their lock and cv.
- Spinlock nesting and interrupt levels: the components use a spinlock as one that
  excludes, which is what `splraise` and the test-and-set give.
- cpu start-up, panics and TLB shootdown: nothing in this kernel sends a shootdown
  (`vm_tlbshootdown` panics).
- `as_copy`: it writes through a segment table that it never allocates.
- What `sys_fork` does with the process it was not given when `proc_fork` fails: it
  reads a pid through an uninitialised pointer. `Process` returns the error; the
  machine may stop there instead.
- The sizes of whole-page blocks of the heap: `KmallocBig` takes one page, whatever
  the size; `Coremap` and `AddressSpace` have longer ones. A read of several units
  in semfs is several reads of one.
- What the last owner left in the fields of an address space that has not been
  loaded, beyond its being no defined segment.
- The debugging modes of the heap, which are compiled out.
- In semfs, the root directory's vnode, stat, readdir and unmounting; path lookup,
  mounting and the big lock of the vfs; sfs, which runs under the big lock.
- `synchprobs`: `whalemating` stops at the first waiter that is woken (`CondVar`), and
  `bathroom` counts boys and girls without a lock.
- Data: path names, file contents, disk layout, exit code encoding, argument
  copying. Access modes appear as the error they cause.
- Running out of memory, except where a property is about it (fork, the coremap,
  the heap, loading, `sem:`).
- Devices, traps, boot, tests, library, userland, older copies of the tree.

## 6. Plan

In order; the first seven are done.

1. Synchronisation: `Semaphore`, `SleepLock`, `CondVar`, with abstract
   specifications and proofs.
2. `Sched`.
3. `Process` over an atomic semaphore, with `AbstractWait`.
4. `Coremap` and `OpenFile`.
5. `AddressSpace`: `as_*`, `vm_fault`, the TLBs, and execv, whose order of
   destroying and loading matters.
6. `KernelHeap`: page lists with the windows in which the spinlock is dropped.
7. `SemFS`: vnode reference counts against reclaim.
8. `Spinlock`: interrupt levels, nesting, the handler that interrupts a holder;
   shown to implement the spinlock the other modules assume.
9. Mounting and the big lock; the inode table of sfs against reclaim.
10. Devices: console buffer and disk driver, whose handlers call `V`.

Every invariant and every property of a step that a run checks is a theorem; the
next ones come with the next modules.
