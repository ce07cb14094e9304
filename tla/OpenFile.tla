------------------------------ MODULE OpenFile ------------------------------
(***************************************************************************)
(* syscall/openfile.c, filetable.c and file_syscalls.c: descriptor tables, *)
(* open files shared by fork and dup2, their reference counts and their    *)
(* seek positions.                                                         *)
(*                                                                         *)
(* Every process has one thread and a table of its own.  A reference count *)
(* changes under its spinlock, in one step; the lock on the seek position  *)
(* is an atomic one (AbstractLock).  A file is the structure: one that is  *)
(* freed may be allocated again.                                           *)
(***************************************************************************)
EXTENDS Integers, FiniteSets

CONSTANTS
  Procs,      \* processes
  First,      \* the one that runs at first
  Files,      \* open file structures
  Seekable,   \* the ones whose vnode has a seek position
  OPEN_MAX,   \* descriptors in a table
  MaxOffset,  \* bound: the largest seek position
  NULL        \* no file, no process: a free lock

FDs == 0 .. OPEN_MAX - 1

ASSUME OpenFileAssumption ==
  /\ IsFiniteSet(Procs)
  /\ First \in Procs /\ Seekable \subseteq Files
  /\ OPEN_MAX \in Nat \ {0} /\ MaxOffset \in Nat
  /\ NULL \notin Files \cup Procs

VARIABLES
  ft_openfiles,                \* per process and descriptor
  of_refcount, of_offset,      \* per file; a free structure has no references
  of_offsetlock,
  pc,                          \* per process
  file, fd, pos, child         \* locals of the system call under way

vars == <<ft_openfiles, of_refcount, of_offset, of_offsetlock, pc, file, fd, pos, child>>

Init ==
  /\ ft_openfiles = [p \in Procs |-> [d \in FDs |-> NULL]]
  /\ of_refcount = [f \in Files |-> 0]
  /\ of_offset = [f \in Files |-> 0]
  /\ of_offsetlock = [f \in Files |-> NULL]
  /\ pc = [p \in Procs |-> IF p = First THEN "user" ELSE "unborn"]
  /\ file = [p \in Procs |-> NULL]
  /\ fd = [p \in Procs |-> 0]
  /\ pos = [p \in Procs |-> 0]
  /\ child = [p \in Procs |-> NULL]

Goto(p, label) == pc' = [pc EXCEPT ![p] = label]

\* Back to user mode; the locals are gone.
Return(p) ==
  /\ Goto(p, "user")
  /\ file' = [file EXCEPT ![p] = NULL]
  /\ fd' = [fd EXCEPT ![p] = 0]
  /\ pos' = [pos EXCEPT ![p] = 0]

-----------------------------------------------------------------------------
(* References                                                              *)

\* Seeded fault: the new reference is not counted.
openfile_incref_Not(f) == of_refcount' = of_refcount

openfile_incref(f) == of_refcount' = [of_refcount EXCEPT ![f] = @ + 1]

\* openfile_decref: the last reference is not dropped but destroyed with the file.
Decref(p) ==
  /\ pc[p] = "decref"
  /\ \/ /\ of_refcount[file[p]] = 1
        /\ Goto(p, "destroy")
        /\ UNCHANGED <<of_refcount, file, fd, pos>>
     \/ /\ of_refcount[file[p]] > 1
        /\ of_refcount' = [of_refcount EXCEPT ![file[p]] = @ - 1]
        /\ Return(p)
  /\ UNCHANGED <<ft_openfiles, of_offset, of_offsetlock, child>>

\* openfile_destroy, after the spinlock has been released.
Destroy(p) ==
  /\ pc[p] = "destroy"
  /\ of_refcount' = [of_refcount EXCEPT ![file[p]] = 0]
  /\ of_offset' = [of_offset EXCEPT ![file[p]] = 0]
  /\ Return(p)
  /\ UNCHANGED <<ft_openfiles, of_offsetlock, child>>

-----------------------------------------------------------------------------
(* open, close, dup2                                                       *)

Empty(p) == {d \in FDs : ft_openfiles[p][d] = NULL}
Smallest(ds) == CHOOSE d \in ds : \A e \in ds : d <= e

\* sys_open: a new open file at the smallest free descriptor; without one
\* (EMFILE) its only reference is dropped.
Open(p) ==
  /\ pc[p] = "user"
  /\ \E f \in Files :
       /\ of_refcount[f] = 0
       /\ of_refcount' = [of_refcount EXCEPT ![f] = 1]
       /\ \/ /\ Empty(p) # {}
             /\ ft_openfiles' = [ft_openfiles EXCEPT ![p][Smallest(Empty(p))] = f]
             /\ UNCHANGED <<pc, file>>
          \/ /\ Empty(p) = {}
             /\ file' = [file EXCEPT ![p] = f]
             /\ Goto(p, "decref")
             /\ UNCHANGED ft_openfiles
  /\ UNCHANGED <<of_offset, of_offsetlock, fd, pos, child>>

\* Seeded fault: the descriptor is left in the table.
Close_Keep(p) ==
  /\ pc[p] = "user"
  /\ \E d \in FDs :
       /\ ft_openfiles[p][d] # NULL
       /\ file' = [file EXCEPT ![p] = ft_openfiles[p][d]]
  /\ Goto(p, "decref")
  /\ UNCHANGED <<ft_openfiles, of_refcount, of_offset, of_offsetlock, fd, pos, child>>

\* sys_close of an open descriptor: out of the table first, then the reference.
Close(p) ==
  /\ pc[p] = "user"
  /\ \E d \in FDs :
       /\ ft_openfiles[p][d] # NULL
       /\ file' = [file EXCEPT ![p] = ft_openfiles[p][d]]
       /\ ft_openfiles' = [ft_openfiles EXCEPT ![p][d] = NULL]
  /\ Goto(p, "decref")
  /\ UNCHANGED <<of_refcount, of_offset, of_offsetlock, fd, pos, child>>

\* sys_dup2 to another descriptor: a second reference ...
Dup2(p) ==
  /\ pc[p] = "user"
  /\ \E oldfd, newfd \in FDs :
       /\ oldfd # newfd
       /\ ft_openfiles[p][oldfd] # NULL
       /\ openfile_incref(ft_openfiles[p][oldfd])
       /\ file' = [file EXCEPT ![p] = ft_openfiles[p][oldfd]]
       /\ fd' = [fd EXCEPT ![p] = newfd]
  /\ Goto(p, "dup2")
  /\ UNCHANGED <<ft_openfiles, of_offset, of_offsetlock, pos, child>>

\* ... is placed, and a file that was there loses one.
Dup2Place(p) ==
  LET old == ft_openfiles[p][fd[p]] IN
    /\ pc[p] = "dup2"
    /\ ft_openfiles' = [ft_openfiles EXCEPT ![p][fd[p]] = file[p]]
    /\ \/ /\ old = NULL
          /\ Return(p)
       \/ /\ old # NULL
          /\ file' = [file EXCEPT ![p] = old]
          /\ Goto(p, "decref")
          /\ UNCHANGED <<fd, pos>>
    /\ UNCHANGED <<of_refcount, of_offset, of_offsetlock, child>>

-----------------------------------------------------------------------------
(* read, write, lseek                                                      *)

\* sys_readwrite: the lock is for files with a seek position only.
ReadWrite(p) ==
  /\ pc[p] = "user"
  /\ \E d \in FDs :
       /\ ft_openfiles[p][d] # NULL
       /\ file' = [file EXCEPT ![p] = ft_openfiles[p][d]]
       /\ fd' = [fd EXCEPT ![p] = d]
       /\ Goto(p, IF ft_openfiles[p][d] \in Seekable THEN "rw_lock" ELSE "transfer")
  /\ UNCHANGED <<ft_openfiles, of_refcount, of_offset, of_offsetlock, pos, child>>

\* Seeded fault: the lock is taken whoever holds it.
ReadWriteLock_Barge(p) ==
  /\ pc[p] = "rw_lock"
  /\ of_offsetlock' = [of_offsetlock EXCEPT ![file[p]] = p]
  /\ pos' = [pos EXCEPT ![p] = of_offset[file[p]]]
  /\ Goto(p, "transfer")
  /\ UNCHANGED <<ft_openfiles, of_refcount, of_offset, file, fd, child>>

ReadWriteLock(p) ==
  /\ pc[p] = "rw_lock"
  /\ of_offsetlock[file[p]] = NULL
  /\ of_offsetlock' = [of_offsetlock EXCEPT ![file[p]] = p]
  /\ pos' = [pos EXCEPT ![p] = of_offset[file[p]]]
  /\ Goto(p, "transfer")
  /\ UNCHANGED <<ft_openfiles, of_refcount, of_offset, file, fd, child>>

\* Seeded fault: the lock is not released.
Unlocked_Not(f) == of_offsetlock

Unlocked(f) == IF f \in Seekable THEN [of_offsetlock EXCEPT ![f] = NULL] ELSE of_offsetlock

\* VOP_READ or VOP_WRITE took its time; the new position is stored and the
\* lock released.  A wrong access mode or an I/O error stores nothing.
Transfer(p) ==
  /\ pc[p] = "transfer"
  /\ \/ /\ file[p] \in Seekable
        /\ \E end \in pos[p] .. MaxOffset : of_offset' = [of_offset EXCEPT ![file[p]] = end]
     \/ UNCHANGED of_offset
  /\ of_offsetlock' = Unlocked(file[p])
  /\ Return(p)
  /\ UNCHANGED <<ft_openfiles, of_refcount, child>>

\* sys_lseek on a file with a seek position.
Seek(p) ==
  /\ pc[p] = "user"
  /\ \E d \in FDs :
       /\ ft_openfiles[p][d] \in Seekable
       /\ file' = [file EXCEPT ![p] = ft_openfiles[p][d]]
       /\ fd' = [fd EXCEPT ![p] = d]
  /\ Goto(p, "seek")
  /\ UNCHANGED <<ft_openfiles, of_refcount, of_offset, of_offsetlock, pos, child>>

SeekLock(p) ==
  /\ pc[p] = "seek"
  /\ of_offsetlock[file[p]] = NULL
  /\ of_offsetlock' = [of_offsetlock EXCEPT ![file[p]] = p]
  /\ pos' = [pos EXCEPT ![p] = of_offset[file[p]]]
  /\ Goto(p, "seek_set")
  /\ UNCHANGED <<ft_openfiles, of_refcount, of_offset, file, fd, child>>

\* SEEK_SET and SEEK_END reach any position; a negative one is refused.
SeekSet(p) ==
  /\ pc[p] = "seek_set"
  /\ \E retval \in -1 .. MaxOffset :
       of_offset' = IF retval < 0 THEN of_offset ELSE [of_offset EXCEPT ![file[p]] = retval]
  /\ of_offsetlock' = [of_offsetlock EXCEPT ![file[p]] = NULL]
  /\ Return(p)
  /\ UNCHANGED <<ft_openfiles, of_refcount, child>>

-----------------------------------------------------------------------------
(* fork and exit                                                           *)

Fork(p) ==
  /\ pc[p] = "user"
  /\ \E q \in Procs :
       /\ pc[q] = "unborn"
       /\ pc' = [pc EXCEPT ![p] = "copy", ![q] = "made"]
       /\ child' = [child EXCEPT ![p] = q]
  /\ UNCHANGED <<ft_openfiles, of_refcount, of_offset, of_offsetlock, file, fd, pos>>

\* filetable_copy shares one entry after the other.
CopyEntry(p) ==
  LET f == ft_openfiles[p][fd[p]] IN
    /\ pc[p] = "copy"
    /\ fd[p] < OPEN_MAX
    /\ IF f = NULL THEN UNCHANGED of_refcount ELSE openfile_incref(f)
    /\ ft_openfiles' = [ft_openfiles EXCEPT ![child[p]][fd[p]] = f]
    /\ fd' = [fd EXCEPT ![p] = @ + 1]
    /\ UNCHANGED <<of_offset, of_offsetlock, pc, file, pos, child>>

\* The child runs, or thread_fork fails and its table stays behind.
CopyEnds(p) ==
  /\ pc[p] = "copy"
  /\ fd[p] = OPEN_MAX
  /\ \E to \in {"user", "gone"} : pc' = [pc EXCEPT ![p] = "user", ![child[p]] = to]
  /\ fd' = [fd EXCEPT ![p] = 0]
  /\ child' = [child EXCEPT ![p] = NULL]
  /\ UNCHANGED <<ft_openfiles, of_refcount, of_offset, of_offsetlock, file, pos>>

\* sys_exit closes nothing.
Exit(p) ==
  /\ pc[p] = "user"
  /\ Goto(p, "gone")
  /\ UNCHANGED <<ft_openfiles, of_refcount, of_offset, of_offsetlock, file, fd, pos, child>>

-----------------------------------------------------------------------------

Kernel(p) ==
  \/ Decref(p) \/ Destroy(p) \/ Dup2Place(p)
  \/ ReadWriteLock(p) \/ Transfer(p) \/ SeekLock(p) \/ SeekSet(p)
  \/ CopyEntry(p) \/ CopyEnds(p)

User(p) == Open(p) \/ Close(p) \/ Dup2(p) \/ ReadWrite(p) \/ Seek(p) \/ Fork(p) \/ Exit(p)

Next == \E p \in Procs : Kernel(p) \/ User(p)

Spec == Init /\ [][Next]_vars

-----------------------------------------------------------------------------
(* Properties                                                              *)

TypeOK ==
  /\ ft_openfiles \in [Procs -> [FDs -> Files \cup {NULL}]]
  /\ of_refcount \in [Files -> 0 .. (OPEN_MAX + 1) * Cardinality(Procs)]
  /\ of_offset \in [Files -> 0 .. MaxOffset]
  /\ of_offsetlock \in [Files -> Procs \cup {NULL}]
  /\ pc \in [Procs -> {"unborn", "made", "user", "gone", "decref", "destroy", "dup2", "rw_lock",
                       "transfer", "seek", "seek_set", "copy"}]
  /\ file \in [Procs -> Files \cup {NULL}]
  /\ fd \in [Procs -> 0 .. OPEN_MAX]
  /\ pos \in [Procs -> 0 .. MaxOffset]
  /\ child \in [Procs -> Procs \cup {NULL}]

\* The places that can hold a reference: the descriptors of every process and
\* the one reference that a close, a dup2 or a failed open has in hand.
HAND == -1
Slots == Procs \X (FDs \cup {HAND})

InHand(p) == pc[p] \in {"decref", "destroy", "dup2"}

Holds(p, d) == IF d # HAND THEN ft_openfiles[p][d] ELSE IF InHand(p) THEN file[p] ELSE NULL

Refs(f) == {s \in Slots : Holds(s[1], s[2]) = f}

\* The count of an open file is the number of references to it, whatever
\* processes open, close, dup2 and fork at once: none is freed early and none is
\* kept that nobody can close (openfile.c:122-149).
RefsCounted == \A f \in Files : of_refcount[f] = Cardinality(Refs(f))

\* A process that is reading, writing or seeking has a live file, and the entry
\* it got it from still holds it (filetable.c:187 asserts that).
InUse == {"rw_lock", "transfer", "seek", "seek_set"}

FileStays == \A p \in Procs : pc[p] \in InUse =>
  /\ of_refcount[file[p]] > 0
  /\ ft_openfiles[p][fd[p]] = file[p]

\* The seek position stored after a transfer follows the one the transfer began
\* at: nobody has moved it meanwhile (file_syscalls.c:133-159).
OffsetStable == \A p \in Procs :
  pc[p] \in {"transfer", "seek_set"} /\ file[p] \in Seekable => of_offset[file[p]] = pos[p]

\* lock_destroy is never called on a lock that is held (synch.c:181).
NoHeldLockDestroyed == \A f \in Files : of_refcount[f] = 0 => of_offsetlock[f] = NULL

=============================================================================
