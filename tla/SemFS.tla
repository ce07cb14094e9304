------------------------------- MODULE SemFS -------------------------------
(***************************************************************************)
(* The semaphore file system: kern/fs/semfs/semfs_vnops.c, semfs_obj.c,    *)
(* and the reference counts of its vnodes, kern/vfs/vnode.c.               *)
(*                                                                         *)
(* A semaphore has an object, a slot in the table semfs_sems whose index   *)
(* is its number, a directory entry until it is removed, and a vnode while *)
(* somebody has it open. Three sleep locks guard these: semfs_dirlock the  *)
(* directory, semfs_tablelock the two tables and sems_lock the count; a    *)
(* spinlock guards each reference count, so that an update of one is a     *)
(* step. A step of the model runs from one lock operation to the next; the *)
(* accesses to sems_linked, sems_hasvnode and sems_count that the locks do *)
(* not order are steps of their own.                                       *)
(*                                                                         *)
(* Sleep locks are their holder here: SleepLock shows that they are that.  *)
(* lock_release does not look who calls it, and cv_wait, cv_signal and     *)
(* cv_broadcast are those of CondVar.                                      *)
(***************************************************************************)
EXTENDS Naturals, FiniteSets, Sequences, Functions

CONSTANTS
  Threads,     \* the threads that open, use, close and remove semaphores
  Names,       \* names in sem:
  Sems,        \* struct semfs_sem objects
  Vnodes,      \* struct vnode objects
  MaxCount,    \* sems_count is an unsigned: it is taken modulo MaxCount + 1
  NULL

ASSUME SemFSAssumption ==
  /\ IsFiniteSet(Threads)
  /\ MaxCount \in Nat \ {0}
  /\ NULL \notin Threads \cup Names \cup Sems \cup Vnodes

VARIABLES
  dirlock,     \* holder of semfs_dirlock
  tablelock,   \* holder of semfs_tablelock
  semarray,    \* semfs_sems: slot |-> semaphore or NULL
  dents,       \* semfs_dents: name |-> slot, 0 if there is no such entry
  sem,         \* the semaphores
  vnode,       \* the vnodes
  pc,
  ref,         \* the reference to a vnode a thread holds: its open file
  name,        \* argument of creat, lookup and remove
  semnum,      \* local semnum (counted from 1, as slots are)
  cur,         \* local sem
  units,       \* argument of write and truncate, then the value of sems_count
               \* that the thread goes by
  broken       \* how the kernel went wrong, "no" if it did not

locks == <<dirlock, tablelock>>
tables == <<semarray, dents, sem, vnode>>
locals == <<ref, name, semnum, cur, units>>
vars == <<locks, tables, pc, locals, broken>>

NoSem == [live |-> FALSE, hasvnode |-> FALSE, linked |-> FALSE,
          lock |-> NULL, count |-> 0]
NoVnode == [live |-> FALSE, table |-> FALSE, semnum |-> 0, refcount |-> 0]

Init ==
  /\ dirlock = NULL /\ tablelock = NULL
  /\ semarray = <<>>
  /\ dents = [n \in Names |-> 0]
  /\ sem = [s \in Sems |-> NoSem]
  /\ vnode = [v \in Vnodes |-> NoVnode]
  /\ pc = [t \in Threads |-> "idle"]
  /\ ref = [t \in Threads |-> NULL]
  /\ name = [t \in Threads |-> NULL]
  /\ semnum = [t \in Threads |-> 0]
  /\ cur = [t \in Threads |-> NULL]
  /\ units = [t \in Threads |-> 0]
  /\ broken = "no"

At(t, label) == broken = "no" /\ pc[t] = label
Goto(t, label) == pc' = [pc EXCEPT ![t] = label]
Set(t, n, i, s) ==
  /\ name' = [name EXCEPT ![t] = n]
  /\ semnum' = [semnum EXCEPT ![t] = i]
  /\ cur' = [cur EXCEPT ![t] = s]
Idle(t) == Goto(t, "idle") /\ Set(t, NULL, 0, NULL)
Keep == UNCHANGED <<name, semnum, cur>>

-----------------------------------------------------------------------------
(* semfs_getvnode: under the table lock, the vnode with this number gets   *)
(* one more reference, or there is a new one with a single reference.      *)

InTable(v, i) == vnode[v].table /\ vnode[v].semnum = i

\* Seeded fault: the vnode found gets no further reference.
Found_NoIncref(t, i) ==
  /\ tablelock = NULL
  /\ \E v \in Vnodes :
       /\ InTable(v, i)
       /\ ref' = [ref EXCEPT ![t] = v]
  /\ UNCHANGED <<vnode, sem, broken>>

Found(t, i) ==
  /\ tablelock = NULL
  /\ \E v \in Vnodes :
       /\ InTable(v, i)
       /\ vnode' = [vnode EXCEPT ![v].refcount = @ + 1]
       /\ ref' = [ref EXCEPT ![t] = v]
  /\ UNCHANGED <<sem, broken>>

Made(t, i) ==
  /\ tablelock = NULL
  /\ \A v \in Vnodes : ~ InTable(v, i)
  /\ \E v \in Vnodes :
       /\ ~ vnode[v].live
       /\ vnode' = [vnode EXCEPT ![v] = [live |-> TRUE, table |-> TRUE, semnum |-> i, refcount |-> 1]]
       /\ ref' = [ref EXCEPT ![t] = v]
  /\ IF semarray[i] = NULL \/ sem[semarray[i]].hasvnode
     THEN broken' = "assertion" /\ UNCHANGED sem
     ELSE sem' = [sem EXCEPT ![semarray[i]].hasvnode = TRUE] /\ UNCHANGED broken

\* ENOMEM from semfs_vnode_create or vnodearray_add: no vnode, no reference.
NotMade(i) ==
  /\ tablelock = NULL
  /\ \A v \in Vnodes : ~ InTable(v, i)
  /\ UNCHANGED <<vnode, sem, ref, broken>>

Getvnode(t, i) == Found(t, i) \/ Made(t, i)

-----------------------------------------------------------------------------
(* semfs_creat and semfs_lookup, called to open a semaphore. ENOENT, and   *)
(* EEXIST for O_EXCL, change nothing.                                      *)

\* The directory lock is taken and the name looked for.
LookupFound(t) ==
  /\ At(t, "idle") /\ ref[t] = NULL /\ dirlock = NULL
  /\ \E n \in Names :
       /\ dents[n] # 0
       /\ Set(t, n, dents[n], NULL)
  /\ dirlock' = t
  /\ Goto(t, "getvnode")
  /\ UNCHANGED <<tablelock, tables, ref, units, broken>>

\* semfs_getvnode, then the directory lock is released, with or without ENOMEM.
LookupVnode(t) ==
  /\ At(t, "getvnode")
  /\ Getvnode(t, semnum[t]) \/ NotMade(semnum[t])
  /\ dirlock' = NULL
  /\ Idle(t)
  /\ UNCHANGED <<tablelock, semarray, dents, units>>

\* creat of a new name: semfs_sem_create, which may fail without a trace.
CreatSem(t) ==
  /\ At(t, "idle") /\ ref[t] = NULL /\ dirlock = NULL
  /\ \E n \in Names, s \in Sems :
       /\ dents[n] = 0 /\ ~ sem[s].live
       /\ Set(t, n, 0, s)
       /\ sem' = [sem EXCEPT ![s] = [NoSem EXCEPT !.live = TRUE]]
  /\ dirlock' = t
  /\ Goto(t, "insert")
  /\ UNCHANGED <<tablelock, semarray, dents, vnode, ref, units, broken>>

FreeSlots == {i \in DOMAIN semarray : semarray[i] = NULL}

\* semfs_sem_insert: the first free slot, or a new one at the end.
SemInsert(t) ==
  /\ At(t, "insert") /\ tablelock = NULL
  /\ IF FreeSlots = {}
     THEN /\ semarray' = Append(semarray, cur[t])
          /\ semnum' = [semnum EXCEPT ![t] = Len(semarray) + 1]
     ELSE \E i \in FreeSlots :
            /\ \A j \in FreeSlots : i <= j
            /\ semarray' = [semarray EXCEPT ![i] = cur[t]]
            /\ semnum' = [semnum EXCEPT ![t] = i]
  /\ Goto(t, "dent")
  /\ UNCHANGED <<locks, dents, sem, vnode, ref, name, cur, units, broken>>

\* The array cannot grow: the semaphore is destroyed (fail_uncreate).
SemInsertFails(t) ==
  /\ At(t, "insert") /\ tablelock = NULL /\ FreeSlots = {}
  /\ sem' = [sem EXCEPT ![cur[t]] = NoSem]
  /\ dirlock' = NULL
  /\ Idle(t)
  /\ UNCHANGED <<tablelock, semarray, dents, vnode, ref, units, broken>>

CreatDent(t) ==
  /\ At(t, "dent")
  /\ dents' = [dents EXCEPT ![name[t]] = semnum[t]]
  /\ Goto(t, "newvnode")
  /\ UNCHANGED <<locks, semarray, sem, vnode, locals, broken>>

\* fail_undir to fail_unlock. Nobody else knows the number of the semaphore,
\* and dirlock is held throughout, so that the failure is one step.
Undo(t) ==
  /\ tablelock = NULL
  /\ dents' = [dents EXCEPT ![name[t]] = 0]
  /\ semarray' = [semarray EXCEPT ![semnum[t]] = NULL]
  /\ sem' = [sem EXCEPT ![cur[t]] = NoSem]
  /\ dirlock' = NULL
  /\ Idle(t)
  /\ UNCHANGED <<tablelock, vnode, ref, units>>

\* The table of directory entries cannot grow.
CreatDentFails(t) == At(t, "dent") /\ Undo(t) /\ UNCHANGED broken

\* semfs_direntry_create returns NULL, result is still the 0 of the insertion
\* before: vfs_open is told of success and asserts that it has a vnode.
CreatDentNull(t) == At(t, "dent") /\ Undo(t) /\ broken' = "no vnode"

CreatVnode(t) ==
  /\ At(t, "newvnode")
  /\ Getvnode(t, semnum[t])
  /\ Goto(t, "link")
  /\ Keep
  /\ UNCHANGED <<locks, semarray, dents, units>>

CreatVnodeFails(t) ==
  /\ At(t, "newvnode")
  /\ \A v \in Vnodes : ~ InTable(v, semnum[t])
  /\ Undo(t)
  /\ UNCHANGED broken

CreatLink(t) ==
  /\ At(t, "link")
  /\ sem' = [sem EXCEPT ![cur[t]].linked = TRUE]
  /\ dirlock' = NULL
  /\ Idle(t)
  /\ UNCHANGED <<tablelock, semarray, dents, vnode, ref, units, broken>>

-----------------------------------------------------------------------------
(* vnode_decref and semfs_reclaim, called to close.                        *)

DecrefShared(t) ==
  /\ At(t, "idle") /\ ref[t] # NULL
  /\ vnode[ref[t]].refcount > 1
  /\ vnode' = [vnode EXCEPT ![ref[t]].refcount = @ - 1]
  /\ ref' = [ref EXCEPT ![t] = NULL]
  /\ UNCHANGED <<locks, semarray, dents, sem, pc, name, semnum, cur, units, broken>>

\* The last reference is not given up but passed to VOP_RECLAIM.
DecrefLast(t) ==
  /\ At(t, "idle") /\ ref[t] # NULL
  /\ vnode[ref[t]].refcount = 1
  /\ Goto(t, "reclaim")
  /\ UNCHANGED <<locks, tables, locals, broken>>

\* EBUSY: somebody has found the vnode in the table meanwhile.
ReclaimBusy(t) ==
  /\ At(t, "reclaim") /\ tablelock = NULL
  /\ vnode[ref[t]].refcount > 1
  /\ vnode' = [vnode EXCEPT ![ref[t]].refcount = @ - 1]
  /\ ref' = [ref EXCEPT ![t] = NULL]
  /\ Goto(t, "idle")
  /\ Keep
  /\ UNCHANGED <<locks, semarray, dents, sem, units, broken>>

\* The vnode leaves the table and the semaphore learns that it has none.
Unlist(t) ==
  /\ LET i == vnode[ref[t]].semnum
         s == semarray[i]
     IN /\ vnode' = [vnode EXCEPT ![ref[t]].table = FALSE]
        /\ Set(t, NULL, i, s)
        /\ IF s = NULL \/ ~ sem[s].hasvnode
           THEN broken' = "assertion" /\ UNCHANGED sem
           ELSE sem' = [sem EXCEPT ![s].hasvnode = FALSE] /\ UNCHANGED broken
  /\ tablelock' = t
  /\ Goto(t, "linked?")
  /\ UNCHANGED <<dirlock, semarray, dents, ref, units>>

\* Seeded fault: the count is not looked at again under the table lock.
ReclaimLast_NoRecheck(t) == At(t, "reclaim") /\ tablelock = NULL /\ Unlist(t)

ReclaimLast(t) ==
  /\ At(t, "reclaim") /\ tablelock = NULL
  /\ vnode[ref[t]].refcount = 1
  /\ Unlist(t)

Sleepers(s) == {t \in Threads : cur[t] = s /\ pc[t] = "asleep"}

\* semfs_sem_destroy. lock_destroy frees the thread that holds the lock and
\* wchan_destroy asserts that nobody sleeps: neither is survived.
Destroy(s) ==
  IF sem[s].live /\ sem[s].lock = NULL /\ Sleepers(s) = {}
  THEN sem' = [sem EXCEPT ![s] = NoSem] /\ UNCHANGED broken
  ELSE broken' = "destroyed" /\ UNCHANGED sem

\* Seeded fault: the semaphore is left to the remove, which was before.
ReclaimSem_Leaves(t) ==
  /\ At(t, "linked?")
  /\ UNCHANGED <<semarray, sem, broken>>
  /\ tablelock' = NULL
  /\ Goto(t, "cleanup")
  /\ Set(t, NULL, 0, NULL)
  /\ UNCHANGED <<dirlock, dents, vnode, ref, units>>

\* The semaphore goes too if it is in no directory any more; sems_linked is
\* read without sems_lock.
ReclaimSem(t) ==
  /\ At(t, "linked?")
  /\ IF sem[cur[t]].linked
     THEN UNCHANGED <<semarray, sem, broken>>
     ELSE Destroy(cur[t]) /\ semarray' = [semarray EXCEPT ![semnum[t]] = NULL]
  /\ tablelock' = NULL
  /\ Goto(t, "cleanup")
  /\ Set(t, NULL, 0, NULL)
  /\ UNCHANGED <<dirlock, dents, vnode, ref, units>>

\* semfs_vnode_destroy: vnode_cleanup asserts that this was the last reference.
ReclaimVnode(t) ==
  /\ At(t, "cleanup")
  /\ IF vnode[ref[t]].refcount = 1
     THEN vnode' = [vnode EXCEPT ![ref[t]] = NoVnode] /\ UNCHANGED broken
     ELSE broken' = "assertion" /\ UNCHANGED vnode
  /\ ref' = [ref EXCEPT ![t] = NULL]
  /\ Goto(t, "idle")
  /\ Keep
  /\ UNCHANGED <<locks, semarray, dents, sem, units>>

-----------------------------------------------------------------------------
(* semfs_remove                                                            *)

RemoveFound(t) ==
  /\ At(t, "idle") /\ dirlock = NULL
  /\ \E n \in Names :
       /\ dents[n] # 0
       /\ Set(t, n, dents[n], NULL)
  /\ dirlock' = t
  /\ Goto(t, "getsem")
  /\ UNCHANGED <<tablelock, tables, ref, units, broken>>

RemoveGetsem(t) ==
  /\ At(t, "getsem") /\ tablelock = NULL
  /\ cur' = [cur EXCEPT ![t] = semarray[semnum[t]]]
  /\ Goto(t, "unlink")
  /\ UNCHANGED <<locks, tables, ref, name, semnum, units, broken>>

\* sems_lock is taken and sems_linked cleared.
RemoveUnlink(t) ==
  /\ At(t, "unlink") /\ sem[cur[t]].lock = NULL
  /\ IF sem[cur[t]].live /\ sem[cur[t]].linked
     THEN sem' = [sem EXCEPT ![cur[t]].linked = FALSE, ![cur[t]].lock = t] /\ UNCHANGED broken
     ELSE broken' = "assertion" /\ UNCHANGED sem
  /\ Goto(t, "hasvnode?")
  /\ UNCHANGED <<locks, semarray, dents, vnode, locals>>

\* Seeded fault: the semaphore goes although it is open.
RemoveOpen_Anyway(t) ==
  /\ At(t, "hasvnode?") /\ sem[cur[t]].hasvnode
  /\ Goto(t, "empty")
  /\ UNCHANGED <<locks, tables, locals, broken>>

\* sems_hasvnode is read without the table lock.
RemoveOpen(t) ==
  /\ At(t, "hasvnode?") /\ sem[cur[t]].hasvnode
  /\ Goto(t, "unlock")
  /\ UNCHANGED <<locks, tables, locals, broken>>

RemoveClosed(t) ==
  /\ At(t, "hasvnode?") /\ ~ sem[cur[t]].hasvnode
  /\ Goto(t, "empty")
  /\ UNCHANGED <<locks, tables, locals, broken>>

\* Seeded fault: sems_lock is not released before the semaphore is destroyed.
RemoveSlot_KeepsLock(t) ==
  /\ At(t, "empty") /\ tablelock = NULL
  /\ semarray' = [semarray EXCEPT ![semnum[t]] = NULL]
  /\ Goto(t, "destroy")
  /\ UNCHANGED <<locks, dents, sem, vnode, locals, broken>>

\* The slot is emptied under the table lock, then sems_lock is released.
RemoveSlot(t) ==
  /\ At(t, "empty") /\ tablelock = NULL
  /\ semarray' = [semarray EXCEPT ![semnum[t]] = NULL]
  /\ sem' = [sem EXCEPT ![cur[t]].lock = NULL]
  /\ Goto(t, "destroy")
  /\ UNCHANGED <<locks, dents, vnode, locals, broken>>

RemoveDent(t) ==
  /\ dents' = [dents EXCEPT ![name[t]] = 0]
  /\ dirlock' = NULL
  /\ Idle(t)
  /\ UNCHANGED <<tablelock, vnode, ref, units>>

RemoveDestroy(t) ==
  /\ At(t, "destroy")
  /\ Destroy(cur[t])
  /\ RemoveDent(t)
  /\ UNCHANGED semarray

RemoveUnlock(t) ==
  /\ At(t, "unlock")
  /\ IF sem[cur[t]].live
     THEN sem' = [sem EXCEPT ![cur[t]].lock = NULL] /\ UNCHANGED broken
     ELSE broken' = "destroyed" /\ UNCHANGED sem
  /\ RemoveDent(t)
  /\ UNCHANGED semarray

-----------------------------------------------------------------------------
(* semfs_read, semfs_write and semfs_truncate on the open semaphore. One   *)
(* unit is read at a time; wakeups and cv's are as in CondVar.             *)

\* semfs_getsem: the semaphore with the number that the vnode has.
Getsem(t, label, n) ==
  /\ At(t, "idle") /\ ref[t] # NULL /\ tablelock = NULL
  /\ cur' = [cur EXCEPT ![t] = semarray[vnode[ref[t]].semnum]]
  /\ units' = [units EXCEPT ![t] = n]
  /\ Goto(t, label)
  /\ UNCHANGED <<locks, tables, ref, name, semnum, broken>>

ReadGetsem(t) == Getsem(t, "read", 0)
WriteGetsem(t) == \E n \in 1 .. MaxCount : Getsem(t, "write", n)
TruncateGetsem(t) == \E n \in 0 .. MaxCount : Getsem(t, "truncate", n)

Lock(t, label, next) ==
  /\ At(t, label) /\ sem[cur[t]].lock = NULL
  /\ sem' = [sem EXCEPT ![cur[t]].lock = t]
  /\ Goto(t, next)
  /\ UNCHANGED <<locks, semarray, dents, vnode, locals, broken>>

ReadLock(t) == Lock(t, "read", "test")
WriteLock(t) == Lock(t, "write", "add")
TruncateLock(t) == Lock(t, "truncate", "set")

\* lock_release: whoever holds the lock, nobody does any more.
Release(t) ==
  /\ sem' = [sem EXCEPT ![cur[t]].lock = NULL]
  /\ Idle(t)
  /\ units' = [units EXCEPT ![t] = 0]
  /\ UNCHANGED <<locks, semarray, dents, vnode, ref, broken>>

ReadTest(t) ==
  /\ At(t, "test") /\ sem[cur[t]].count > 0
  /\ units' = [units EXCEPT ![t] = sem[cur[t]].count]
  /\ Goto(t, "take")
  /\ UNCHANGED <<locks, tables, ref, name, semnum, cur, broken>>

\* sems_count -= consume. Where two threads are in here at once the compiler's
\* choice shows, to read the count again or to go by the value tested.
ReadTake(t) ==
  /\ At(t, "take")
  /\ \E c \in {units[t], sem[cur[t]].count} :
       sem' = [sem EXCEPT ![cur[t]].count = (c + MaxCount) % (MaxCount + 1)]
  /\ units' = [units EXCEPT ![t] = 0]
  /\ Goto(t, "release")
  /\ UNCHANGED <<locks, semarray, dents, vnode, ref, name, semnum, cur, broken>>

\* cv_wait: a thread that has lost the lock (it was released for it) goes
\* straight for it again, any other gives it up and then goes to sleep.
ReadEmpty(t) ==
  /\ At(t, "test") /\ sem[cur[t]].count = 0
  /\ IF sem[cur[t]].lock = t
     THEN sem' = [sem EXCEPT ![cur[t]].lock = NULL] /\ Goto(t, "sleep")
     ELSE Goto(t, "read") /\ UNCHANGED sem
  /\ UNCHANGED <<locks, semarray, dents, vnode, locals, broken>>

ReadSleep(t) ==
  /\ At(t, "sleep")
  /\ Goto(t, "asleep")
  /\ UNCHANGED <<locks, tables, locals, broken>>

\* cv_wait's lock_acquire with the lock's spinlock held is fatal.
ReadWoken(t) ==
  /\ At(t, "woken")
  /\ broken' = "cv"
  /\ UNCHANGED <<locks, tables, pc, locals>>

\* semfs_wakeup: nobody to wake; one sleeper, by a cv_signal, which asserts
\* that t holds the lock and releases it; or a cv_broadcast, which is fatal.
Wakeup(t, new) ==
  LET s == cur[t] IN
  /\ units' = [units EXCEPT ![t] = new]
  /\ \/ /\ sem[s].count > 0 \/ new = 0
        /\ Goto(t, "store")
        /\ UNCHANGED <<sem, broken>>
     \/ /\ sem[s].count = 0 /\ new = 1 /\ sem[s].lock = t
        /\ sem' = [sem EXCEPT ![s].lock = NULL]
        /\ IF Sleepers(s) = {}
           THEN Goto(t, "store")
           ELSE \E u \in Sleepers(s) : pc' = [pc EXCEPT ![t] = "store", ![u] = "woken"]
        /\ UNCHANGED broken
     \/ /\ sem[s].count = 0 /\ (new = 1 => sem[s].lock # t) /\ new # 0
        /\ broken' = "cv"
        /\ UNCHANGED <<pc, sem>>
  /\ UNCHANGED <<locks, semarray, dents, vnode, ref, name, semnum, cur>>

Write(t) ==
  /\ At(t, "add") /\ sem[cur[t]].count + units[t] <= MaxCount
  /\ Wakeup(t, sem[cur[t]].count + units[t])

\* EFBIG
WriteOverflows(t) ==
  /\ At(t, "add") /\ sem[cur[t]].count + units[t] > MaxCount
  /\ Release(t)

Truncate(t) == At(t, "set") /\ Wakeup(t, units[t])

\* sems_count = newcount, after a cv_signal without the lock.
Store(t) ==
  /\ At(t, "store")
  /\ sem' = [sem EXCEPT ![cur[t]].count = units[t]]
  /\ units' = [units EXCEPT ![t] = 0]
  /\ Goto(t, "release")
  /\ UNCHANGED <<locks, semarray, dents, vnode, ref, name, semnum, cur, broken>>

ReadWriteEnds(t) == At(t, "release") /\ Release(t)

-----------------------------------------------------------------------------

Open(t) ==
  \/ LookupFound(t) \/ LookupVnode(t)
  \/ CreatSem(t) \/ SemInsert(t) \/ SemInsertFails(t)
  \/ CreatDent(t) \/ CreatDentFails(t) \/ CreatDentNull(t)
  \/ CreatVnode(t) \/ CreatVnodeFails(t) \/ CreatLink(t)
Close(t) ==
  \/ DecrefShared(t) \/ DecrefLast(t)
  \/ ReclaimBusy(t) \/ ReclaimLast(t) \/ ReclaimSem(t) \/ ReclaimVnode(t)
Remove(t) ==
  \/ RemoveFound(t) \/ RemoveGetsem(t) \/ RemoveUnlink(t)
  \/ RemoveOpen(t) \/ RemoveClosed(t) \/ RemoveSlot(t) \/ RemoveDestroy(t) \/ RemoveUnlock(t)
Use(t) ==
  \/ ReadGetsem(t) \/ ReadLock(t) \/ ReadTest(t) \/ ReadTake(t)
  \/ ReadEmpty(t) \/ ReadSleep(t) \/ ReadWoken(t)
  \/ WriteGetsem(t) \/ WriteLock(t) \/ Write(t) \/ WriteOverflows(t)
  \/ TruncateGetsem(t) \/ TruncateLock(t) \/ Truncate(t)
  \/ Store(t) \/ ReadWriteEnds(t)

Next == \E t \in Threads : Open(t) \/ Close(t) \/ Remove(t) \/ Use(t)

Spec == Init /\ [][Next]_vars

-----------------------------------------------------------------------------
Creating == {"insert", "dent", "newvnode", "link"}
Removing == {"hasvnode?", "unlock", "empty", "destroy"}
Using == {"read", "test", "take", "sleep", "asleep", "woken", "write", "add",
          "truncate", "set", "store", "release"}
Labels == Creating \cup Removing \cup Using
            \cup {"idle", "getvnode", "reclaim", "linked?", "cleanup", "getsem", "unlink"}

\* The variables' types.
TypeOK ==
  /\ {dirlock, tablelock} \subseteq Threads \cup {NULL}
  /\ semarray \in Seq(Sems \cup {NULL})
  /\ dents \in [Names -> 0 .. Len(semarray)]
  /\ sem \in [Sems -> [live : BOOLEAN, hasvnode : BOOLEAN, linked : BOOLEAN,
                       lock : Threads \cup {NULL}, count : 0 .. MaxCount]]
  /\ vnode \in [Vnodes -> [live : BOOLEAN, table : BOOLEAN,
                           semnum : 0 .. Len(semarray), refcount : Nat]]
  /\ pc \in [Threads -> Labels]
  /\ ref \in [Threads -> Vnodes \cup {NULL}]
  /\ name \in [Threads -> Names \cup {NULL}]
  /\ semnum \in [Threads -> 0 .. Len(semarray)]
  /\ cur \in [Threads -> Sems \cup {NULL}]
  /\ units \in [Threads -> 0 .. MaxCount]
  /\ broken \in {"no", "assertion", "destroyed", "no vnode", "cv"}

\* A vnode's count is that of the references held, the one on its way through
\* VOP_RECLAIM (vnode.c:109-112) included, and whoever holds one holds a vnode
\* that exists: finding a vnode in the table and dropping its last reference
\* may meet in any order.
RefsCounted ==
  broken = "no" =>
    /\ \A v \in Vnodes : vnode[v].refcount = Cardinality({t \in Threads : ref[t] = v})
    /\ \A t \in Threads : ref[t] # NULL => vnode[ref[t]].live

\* Every assertion of these functions on the vnode and the flags of a semaphore
\* holds (semfs_vnops.c:494, 629, 789, 790; vnode.c:64).
AssertionsHold == broken # "assertion"

\* The flag sems_hasvnode tells whether there is a vnode for the semaphore in
\* the table, where no number has two.
OneVnode ==
  /\ \A v, w \in Vnodes : vnode[v].table /\ vnode[w].table /\ vnode[v].semnum = vnode[w].semnum => v = w
  /\ broken = "no" =>
       \A i \in DOMAIN semarray :
         semarray[i] # NULL => (sem[semarray[i]].hasvnode <=> \E v \in Vnodes : InTable(v, i))

\* The tables agree, so that no assertion on them fails, and the count and
\* every index stay in their range.
SemsConsistent == TypeOK /\ AssertionsHold /\ OneVnode

\* Who reads or writes does so on a semaphore that exists, the one that the
\* vnode's number stands for, however it has been removed, created again under
\* the same name or put into a slot used before.
UsersSafe ==
  broken = "no" =>
    \A t \in Threads :
      pc[t] \in Using =>
        /\ sem[cur[t]].live /\ sem[cur[t]].hasvnode
        /\ semarray[vnode[ref[t]].semnum] = cur[t]

\* No semaphore is forgotten: one with neither name nor vnode is in the hands
\* of a creat, a remove or a reclaim that has yet to decide, and every entry
\* of the table and of the directory stands for a semaphore that exists.
NoneForgotten ==
  broken = "no" =>
    /\ \A s \in Sems :
         sem[s].live =>
           \/ s \in Range(semarray) /\ (sem[s].linked \/ sem[s].hasvnode)
           \/ \E t \in Threads : cur[t] = s /\ pc[t] \in Creating \cup Removing \cup {"linked?"}
    /\ \A i \in DOMAIN semarray :
         semarray[i] # NULL =>
           sem[semarray[i]].live \/ \E t \in Threads : cur[t] = semarray[i] /\ pc[t] \in Removing
    /\ \A n \in Names :
         dents[n] # 0 =>
           \/ semarray[dents[n]] # NULL /\ sem[semarray[dents[n]]].linked
           \/ \E t \in Threads : name[t] = n /\ pc[t] \in Creating \cup Removing

\* The last close of the semaphore that u removes decides what becomes of it.
ClosedUnder(u) == \E t \in Threads : pc[t] = "linked?" /\ pc'[t] = "cleanup" /\ cur[t] = cur[u]

\* A semaphore is destroyed under its users or twice, or unlocked when it is
\* gone, only if its last close and the remove of it overlap: reclaim reads
\* sems_linked and remove sems_hasvnode, each without the lock the other one
\* holds (semfs_vnops.c:496, 631). Either that close destroys it while the
\* remove holds its lock, or the remove finds that it is gone; and only that
\* close takes it from a remove.
DestroyedWhileRemoved ==
  [][/\ broken' = "destroyed" =>
          \E u \in Threads :
            /\ pc[u] \in Removing
            /\ ClosedUnder(u) \/ (pc'[u] = "idle" /\ ~ sem[cur[u]].live)
     /\ \A u \in Threads :
          pc[u] \in Removing /\ sem[cur[u]].live /\ ~ sem'[cur[u]].live =>
            ClosedUnder(u) \/ pc'[u] = "idle"]_vars

\* man/misc/semfs.html:66-68 says: "The count will not decrease below zero;
\* attempts to do so will block until other concurrent write operations raise
\* the count again." So the threads about to subtract have found as many units.
TakersCovered ==
  \A s \in Sems : Cardinality({t \in Threads : cur[t] = s /\ pc[t] = "take"}) <= sem[s].count

=============================================================================
