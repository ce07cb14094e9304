--------------------------- MODULE OpenFileProofs ---------------------------
(***************************************************************************)
(* Proofs about OpenFile, for any finite set of processes and any set of   *)
(* files: reference counts count references, no open file is destroyed     *)
(* in use, and no seek position moves under a transfer.                    *)
(***************************************************************************)
EXTENDS OpenFile, FiniteSetTheorems, WellFoundedInduction, TLAPS

TypeInv ==
  /\ ft_openfiles \in [Procs -> [FDs -> Files \cup {NULL}]]
  /\ of_refcount \in [Files -> Nat]
  /\ of_offset \in [Files -> 0 .. MaxOffset]
  /\ of_offsetlock \in [Files -> Procs \cup {NULL}]
  /\ pc \in [Procs -> {"unborn", "made", "user", "gone", "decref", "destroy", "dup2", "rw_lock",
                       "transfer", "seek", "seek_set", "copy"}]
  /\ file \in [Procs -> Files \cup {NULL}]
  /\ fd \in [Procs -> 0 .. OPEN_MAX]
  /\ pos \in [Procs -> 0 .. MaxOffset]
  /\ child \in [Procs -> Procs \cup {NULL}]

\* What a process knows of the file it works on.
Locals == \A p \in Procs :
  /\ pc[p] \in {"decref", "destroy", "dup2", "transfer"} => file[p] \in Files
  /\ pc[p] \in {"rw_lock", "seek", "seek_set"} => file[p] \in Seekable
  /\ pc[p] \in InUse \cup {"dup2"} => fd[p] \in FDs
  /\ pc[p] \in InUse => ft_openfiles[p][fd[p]] = file[p]
  /\ pc[p] = "destroy" => of_refcount[file[p]] = 1

\* A table being copied to belongs to nobody else and is empty from there on.
Copying == \A p \in Procs :
  /\ pc[p] = "unborn" => \A d \in FDs : ft_openfiles[p][d] = NULL
  /\ pc[p] = "copy" =>
       /\ child[p] \in Procs
       /\ pc[child[p]] = "made"
       /\ \A d \in FDs : fd[p] <= d => ft_openfiles[child[p]][d] = NULL
       /\ \A q \in Procs : pc[q] = "copy" /\ child[q] = child[p] => q = p

\* The lock on a position is held by the process that is using the position.
Locking == \A f \in Files, p \in Procs :
  of_offsetlock[f] = p <=> f \in Seekable /\ file[p] = f /\ pc[p] \in {"transfer", "seek_set"}

IInv == TypeInv /\ Locals /\ Copying /\ Locking /\ RefsCounted /\ OffsetStable

-----------------------------------------------------------------------------
(* Counting references.                                                    *)

LEMMA Least == ASSUME NEW T \in SUBSET FDs, T # {} PROVE Smallest(T) \in T
<1>1. FDs \subseteq Nat
  BY OpenFileAssumption DEF FDs
<1>2. PICK x \in T : \A y \in T : ~ (<<y, x>> \in OpToRel(<, Nat))
  BY <1>1, NatLessThanWellFounded, WFMin
<1>3. OpToRel(<, Nat) = {yx \in Nat \X Nat : yx[1] < yx[2]}
  BY DEF OpToRel
<1>4. \A y \in T : x <= y
  <2> SUFFICES ASSUME NEW y \in T PROVE ~ (y < x)
    BY <1>1
  <2>1. <<y, x>> \in Nat \X Nat
    BY <1>1
  <2>2. QED
    BY <1>2, <1>3, <2>1
<1>5. QED
  BY <1>4 DEF Smallest

LEMMA RefsFinite == ASSUME NEW f
                    PROVE  IsFiniteSet(Refs(f)) /\ Cardinality(Refs(f)) \in Nat
<1>1. IsFiniteSet(FDs \cup {HAND})
  <2>1. 0 \in Int /\ OPEN_MAX - 1 \in Int
    BY OpenFileAssumption
  <2>2. IsFiniteSet(FDs)
    BY <2>1, FS_Interval DEF FDs
  <2>3. QED
    BY <2>2, FS_AddElement
<1>2. IsFiniteSet(Slots)
  BY <1>1, OpenFileAssumption, FS_Product DEF Slots
<1>3. QED
  BY <1>2, FS_Subset, FS_CardinalityType DEF Refs

LEMMA HandIsNoFD == HAND \notin FDs
BY OpenFileAssumption DEF HAND, FDs

\* No reference is the only one if there are two.
LEMMA NotTheOnlyRef ==
  ASSUME RefsCounted, NEW f \in Files, NEW s \in Refs(f), NEW t \in Refs(f), s # t
  PROVE  of_refcount[f] # 1 /\ of_refcount[f] # 0
<1>1. Cardinality(Refs(f)) # 1
  BY RefsFinite, FS_Singleton
<1>2. Cardinality(Refs(f)) # 0
  BY RefsFinite, FS_EmptySet
<1>3. QED
  BY <1>1, <1>2 DEF RefsCounted

LEMMA RefsKept ==
  ASSUME RefsCounted, of_refcount' = of_refcount,
         \A s \in Slots : Holds(s[1], s[2])' = Holds(s[1], s[2])
  PROVE  RefsCounted'
<1>1. \A f \in Files : Refs(f)' = Refs(f)
  BY DEF Refs
<1>2. QED
  BY <1>1 DEF RefsCounted

LEMMA RefAdded ==
  ASSUME RefsCounted, TypeInv, NEW f \in Files, NEW s \in Slots,
         of_refcount' = [of_refcount EXCEPT ![f] = @ + 1],
         Holds(s[1], s[2]) = NULL, Holds(s[1], s[2])' = f,
         \A t \in Slots : t # s => Holds(t[1], t[2])' = Holds(t[1], t[2])
  PROVE  RefsCounted'
<1>1. f # NULL
  BY OpenFileAssumption
<1>2. Refs(f)' = Refs(f) \cup {s} /\ s \notin Refs(f)
  BY <1>1 DEF Refs
<1>3. \A g \in Files : g # f => Refs(g)' = Refs(g)
  BY OpenFileAssumption DEF Refs
<1>4. Cardinality(Refs(f)') = Cardinality(Refs(f)) + 1
  BY <1>2, RefsFinite, FS_AddElement
<1>5. QED
  BY <1>3, <1>4 DEF RefsCounted, TypeInv

LEMMA RefDropped ==
  ASSUME RefsCounted, TypeInv, NEW f \in Files, NEW s \in Slots,
         of_refcount' = [of_refcount EXCEPT ![f] = @ - 1],
         Holds(s[1], s[2]) = f, Holds(s[1], s[2])' = NULL,
         \A t \in Slots : t # s => Holds(t[1], t[2])' = Holds(t[1], t[2])
  PROVE  RefsCounted'
<1>1. f # NULL
  BY OpenFileAssumption
<1>2. Refs(f)' = Refs(f) \ {s} /\ s \in Refs(f)
  BY <1>1 DEF Refs
<1>3. \A g \in Files : g # f => Refs(g)' = Refs(g)
  BY OpenFileAssumption DEF Refs
<1>4. Cardinality(Refs(f) \ {s}) = Cardinality(Refs(f)) - 1
  <2>1. s \in Refs(f) /\ IsFiniteSet(Refs(f))
    BY <1>2, RefsFinite
  <2>2. QED
    BY <2>1, FS_RemoveElement
<1>5. QED
  BY <1>2, <1>3, <1>4 DEF RefsCounted, TypeInv

\* Two places exchange what they hold.
LEMMA RefsSwapped ==
  ASSUME RefsCounted, NEW s \in Slots, NEW t \in Slots, s # t, of_refcount' = of_refcount,
         Holds(s[1], s[2])' = Holds(t[1], t[2]), Holds(t[1], t[2])' = Holds(s[1], s[2]),
         \A u \in Slots : u # s /\ u # t => Holds(u[1], u[2])' = Holds(u[1], u[2])
  PROVE  RefsCounted'
<1>1. ASSUME NEW f \in Files PROVE Cardinality(Refs(f)') = Cardinality(Refs(f))
  <2>1. CASE (s \in Refs(f)) <=> (t \in Refs(f))
    <3>1. Refs(f)' = Refs(f)
      BY <2>1 DEF Refs
    <3>2. QED
      BY <3>1
  <2>2. CASE s \in Refs(f) /\ t \notin Refs(f)
    <3>1. Refs(f)' = (Refs(f) \ {s}) \cup {t}
      BY <2>2 DEF Refs
    <3>2. IsFiniteSet(Refs(f) \ {s}) /\ Cardinality(Refs(f) \ {s}) = Cardinality(Refs(f)) - 1
      BY <2>2, RefsFinite, FS_RemoveElement
    <3>3. t \notin Refs(f) \ {s}
      BY <2>2
    <3>4. Cardinality((Refs(f) \ {s}) \cup {t}) = Cardinality(Refs(f) \ {s}) + 1
      BY <3>2, <3>3, FS_AddElement
    <3>5. QED
      BY <3>1, <3>2, <3>4, RefsFinite
  <2>3. CASE s \notin Refs(f) /\ t \in Refs(f)
    <3>1. Refs(f)' = (Refs(f) \ {t}) \cup {s}
      BY <2>3 DEF Refs
    <3>2. IsFiniteSet(Refs(f) \ {t}) /\ Cardinality(Refs(f) \ {t}) = Cardinality(Refs(f)) - 1
      BY <2>3, RefsFinite, FS_RemoveElement
    <3>3. s \notin Refs(f) \ {t}
      BY <2>3
    <3>4. Cardinality((Refs(f) \ {t}) \cup {s}) = Cardinality(Refs(f) \ {t}) + 1
      BY <3>2, <3>3, FS_AddElement
    <3>5. QED
      BY <3>1, <3>2, <3>4, RefsFinite
  <2>4. QED
    BY <2>1, <2>2, <2>3
<1>2. QED
  BY <1>1 DEF RefsCounted

-----------------------------------------------------------------------------
(* What the invariant says of references and their holders.                *)

LEMMA UserHolds ==
  ASSUME IInv, NEW q \in Procs, pc[q] \in InUse
  PROVE  /\ file[q] \in Files
         /\ <<q, fd[q]>> \in Refs(file[q])
<1>1. file[q] \in Files /\ fd[q] \in FDs /\ ft_openfiles[q][fd[q]] = file[q]
  BY OpenFileAssumption DEF IInv, Locals, InUse
<1>2. QED
  BY <1>1, HandIsNoFD DEF Refs, Slots, Holds

LEMMA HandHolds ==
  ASSUME IInv, NEW q \in Procs, InHand(q)
  PROVE  /\ file[q] \in Files
         /\ <<q, HAND>> \in Refs(file[q])
<1>1. file[q] \in Files
  BY DEF IInv, Locals, InHand
<1>2. QED
  BY <1>1 DEF Refs, Slots, Holds

LEMMA EntryHolds ==
  ASSUME IInv, NEW q \in Procs, NEW d \in FDs, ft_openfiles[q][d] # NULL
  PROVE  /\ ft_openfiles[q][d] \in Files
         /\ <<q, d>> \in Refs(ft_openfiles[q][d])
<1>1. ft_openfiles[q][d] \in Files
  BY DEF IInv, TypeInv
<1>2. QED
  BY <1>1, HandIsNoFD DEF Refs, Slots, Holds

\* A file that is held is not free.
LEMMA HeldIsOpen ==
  ASSUME IInv, NEW f \in Files, NEW s \in Refs(f)
  PROVE  of_refcount[f] > 0
<1>1. Cardinality(Refs(f)) # 0
  BY RefsFinite, FS_EmptySet
<1>2. QED
  BY <1>1, RefsFinite DEF IInv, RefsCounted

\* The file being destroyed is nobody else's.
LEMMA DestroyerIsAlone ==
  ASSUME IInv, NEW p \in Procs, pc[p] = "destroy", NEW q \in Procs
  PROVE  /\ pc[q] \in InUse => file[q] # file[p]
         /\ InHand(q) /\ q # p => file[q] # file[p]
         /\ \A d \in FDs : ft_openfiles[q][d] # file[p]
<1>1. file[p] \in Files /\ <<p, HAND>> \in Refs(file[p]) /\ of_refcount[file[p]] = 1
  BY HandHolds DEF InHand, IInv, Locals
<1>2. \A s \in Refs(file[p]) : s = <<p, HAND>>
  BY <1>1, NotTheOnlyRef DEF IInv
<1>3. pc[q] \in InUse => file[q] # file[p]
  BY <1>2, UserHolds, HandIsNoFD DEF IInv, Locals
<1>4. InHand(q) /\ q # p => file[q] # file[p]
  BY <1>2, HandHolds
<1>5. \A d \in FDs : ft_openfiles[q][d] # file[p]
  BY <1>1, <1>2, EntryHolds, HandIsNoFD, OpenFileAssumption
<1>6. QED
  BY <1>3, <1>4, <1>5

-----------------------------------------------------------------------------
(* The initial state, and the steps that move no reference.                *)

LEMMA InitInv == Init => IInv
<1> SUFFICES ASSUME Init PROVE IInv
  OBVIOUS
<1>1. TypeInv
  BY OpenFileAssumption DEF Init, TypeInv, FDs
<1>2. Locals /\ Copying /\ Locking /\ OffsetStable
  BY OpenFileAssumption DEF Init, Locals, Copying, Locking, OffsetStable, InUse
<1>3. RefsCounted
  <2> SUFFICES ASSUME NEW f \in Files PROVE Cardinality(Refs(f)) = of_refcount[f]
    BY DEF RefsCounted
  <2>1. Refs(f) = {}
    BY OpenFileAssumption DEF Init, Refs, Slots, Holds, InHand
  <2>2. QED
    BY <2>1, FS_EmptySet DEF Init
<1>4. QED
  BY <1>1, <1>2, <1>3 DEF IInv

\* The references stay where they are if the tables do and p, whose label
\* changes to l, has none in hand before and after.
LEMMA QuietRefs ==
  ASSUME IInv, NEW p \in Procs,
         UNCHANGED <<ft_openfiles, of_refcount>>,
         \A q \in Procs : InHand(q)' <=> InHand(q),
         \A q \in Procs : InHand(q) => file'[q] = file[q]
  PROVE  RefsCounted'
<1>1. \A s \in Slots : Holds(s[1], s[2])' = Holds(s[1], s[2])
  BY DEF Slots, Holds
<1>2. QED
  BY <1>1, RefsKept DEF IInv

LEMMA ReadWriteInv ==
  ASSUME IInv, NEW p \in Procs, ReadWrite(p) \/ Seek(p)
  PROVE  IInv'
<1> USE DEF IInv
<1>1. PICK d \in FDs, l \in {"rw_lock", "transfer", "seek"} :
        /\ pc[p] = "user"
        /\ ft_openfiles[p][d] \in Files
        /\ l # "transfer" => ft_openfiles[p][d] \in Seekable
        /\ l = "transfer" => ft_openfiles[p][d] \notin Seekable
        /\ file' = [file EXCEPT ![p] = ft_openfiles[p][d]]
        /\ fd' = [fd EXCEPT ![p] = d]
        /\ pc' = [pc EXCEPT ![p] = l]
        /\ UNCHANGED <<ft_openfiles, of_refcount, of_offset, of_offsetlock, pos, child>>
  <2>1. CASE ReadWrite(p)
    <3>1. PICK d \in FDs :
            /\ ft_openfiles[p][d] # NULL
            /\ file' = [file EXCEPT ![p] = ft_openfiles[p][d]]
            /\ fd' = [fd EXCEPT ![p] = d]
            /\ Goto(p, IF ft_openfiles[p][d] \in Seekable THEN "rw_lock" ELSE "transfer")
      BY <2>1 DEF ReadWrite
    <3>2. ft_openfiles[p][d] \in Files
      BY <3>1 DEF TypeInv
    <3>3. CASE ft_openfiles[p][d] \in Seekable
      <4>1. pc' = [pc EXCEPT ![p] = "rw_lock"]
        BY <3>1, <3>3 DEF Goto
      <4>2. QED
        BY <2>1, <3>1, <3>2, <3>3, <4>1 DEF ReadWrite
    <3>4. CASE ft_openfiles[p][d] \notin Seekable
      <4>1. pc' = [pc EXCEPT ![p] = "transfer"]
        BY <3>1, <3>4 DEF Goto
      <4>2. QED
        BY <2>1, <3>1, <3>2, <3>4, <4>1 DEF ReadWrite
    <3>5. QED
      BY <3>3, <3>4
  <2>2. CASE Seek(p)
    BY <2>2, OpenFileAssumption DEF Seek, Goto
  <2>3. QED
    BY <2>1, <2>2
<1>2. TypeInv'
  BY <1>1, OpenFileAssumption DEF TypeInv, FDs
<1>3. Locals'
  BY <1>1 DEF TypeInv, Locals, InUse
<1>4. Copying'
  BY <1>1 DEF TypeInv, Copying
<1>5. Locking'
  BY <1>1 DEF TypeInv, Locking
<1>6. RefsCounted'
  BY <1>1, QuietRefs DEF TypeInv, InHand
<1>7. OffsetStable'
  BY <1>1 DEF TypeInv, OffsetStable
<1>8. QED
  BY <1>2, <1>3, <1>4, <1>5, <1>6, <1>7

LEMMA LockInv ==
  ASSUME IInv, NEW p \in Procs, ReadWriteLock(p) \/ SeekLock(p)
  PROVE  IInv'
<1> USE DEF IInv
<1>1. PICK l \in {"transfer", "seek_set"} :
        /\ pc[p] \in {"rw_lock", "seek"}
        /\ file[p] \in Seekable
        /\ of_offsetlock[file[p]] = NULL
        /\ of_offsetlock' = [of_offsetlock EXCEPT ![file[p]] = p]
        /\ pos' = [pos EXCEPT ![p] = of_offset[file[p]]]
        /\ pc' = [pc EXCEPT ![p] = l]
        /\ UNCHANGED <<ft_openfiles, of_refcount, of_offset, file, fd, child>>
  BY DEF ReadWriteLock, SeekLock, Goto, Locals
<1>2. TypeInv'
  BY <1>1, OpenFileAssumption DEF TypeInv
<1>3. Locals'
  BY <1>1, OpenFileAssumption DEF TypeInv, Locals, InUse
<1>4. Copying'
  BY <1>1 DEF TypeInv, Copying
<1>5. Locking'
  BY <1>1, OpenFileAssumption DEF TypeInv, Locking
<1>6. RefsCounted'
  BY <1>1, QuietRefs DEF TypeInv, InHand
<1>7. OffsetStable'
  BY <1>1, OpenFileAssumption DEF TypeInv, OffsetStable
<1>8. QED
  BY <1>2, <1>3, <1>4, <1>5, <1>6, <1>7

\* The end of a transfer or a seek: the position is changed by the holder of
\* its lock only, so nobody else is using it.
LEMMA StoreInv ==
  ASSUME IInv, NEW p \in Procs, Transfer(p) \/ SeekSet(p)
  PROVE  IInv'
<1> USE DEF IInv
<1>1. /\ pc[p] \in {"transfer", "seek_set"}
      /\ file[p] \in Files
      /\ Return(p)
      /\ UNCHANGED <<ft_openfiles, of_refcount, child>>
  BY OpenFileAssumption DEF Transfer, SeekSet, Locals
<1>2. /\ of_offset' \in [Files -> 0 .. MaxOffset]
      /\ \A f \in Files : of_offset'[f] # of_offset[f] => f = file[p] /\ f \in Seekable
  <2>1. CASE Transfer(p)
    <3>1. CASE UNCHANGED of_offset
      BY <3>1 DEF TypeInv
    <3>2. CASE /\ file[p] \in Seekable
               /\ \E end \in pos[p] .. MaxOffset : of_offset' = [of_offset EXCEPT ![file[p]] = end]
      <4>1. PICK end \in pos[p] .. MaxOffset : of_offset' = [of_offset EXCEPT ![file[p]] = end]
        BY <3>2
      <4>2. end \in 0 .. MaxOffset
        BY OpenFileAssumption DEF TypeInv
      <4>3. QED
        BY <1>1, <3>2, <4>1, <4>2 DEF TypeInv
    <3>3. QED
      BY <2>1, <3>1, <3>2 DEF Transfer
  <2>2. CASE SeekSet(p)
    <3>1. PICK retval \in -1 .. MaxOffset :
            of_offset' = IF retval < 0 THEN of_offset ELSE [of_offset EXCEPT ![file[p]] = retval]
      BY <2>2 DEF SeekSet
    <3>2. file[p] \in Seekable
      BY <2>2 DEF SeekSet, Locals
    <3>3. CASE retval < 0
      BY <3>1, <3>3 DEF TypeInv
    <3>4. CASE ~ (retval < 0)
      <4>1. retval \in 0 .. MaxOffset
        BY <3>4, OpenFileAssumption
      <4>2. QED
        BY <1>1, <3>1, <3>2, <3>4, <4>1 DEF TypeInv
    <3>5. QED
      BY <3>3, <3>4
  <2>3. QED
    BY <2>1, <2>2
<1>3. \A f \in Files : of_offsetlock'[f] =
        IF f = file[p] /\ f \in Seekable THEN NULL ELSE of_offsetlock[f]
  BY <1>1 DEF Transfer, SeekSet, Unlocked, TypeInv, Locals
<1>4. of_offsetlock' \in [Files -> Procs \cup {NULL}]
  BY <1>1 DEF Transfer, SeekSet, Unlocked, TypeInv
<1>5. /\ pc' = [pc EXCEPT ![p] = "user"]
      /\ file' = [file EXCEPT ![p] = NULL]
      /\ fd' = [fd EXCEPT ![p] = 0]
      /\ pos' = [pos EXCEPT ![p] = 0]
  BY <1>1 DEF Return, Goto
<1>6. TypeInv'
  BY <1>1, <1>2, <1>4, <1>5, OpenFileAssumption DEF TypeInv
<1>7. Locals'
  BY <1>1, <1>5 DEF TypeInv, Locals, InUse
<1>8. Copying'
  <2>1. \A q \in Procs : pc'[q] # "user" => q # p /\ pc'[q] = pc[q] /\ fd'[q] = fd[q]
    BY <1>5 DEF TypeInv
  <2>2. \A q \in Procs : pc[q] = "made" => pc'[q] = "made"
    BY <1>1, <1>5 DEF TypeInv
  <2>3. QED
    BY <1>1, <2>1, <2>2 DEF Copying
<1>9. Locking'
  <2> SUFFICES ASSUME NEW f \in Files, NEW q \in Procs
               PROVE  of_offsetlock'[f] = q <=>
                        f \in Seekable /\ file'[q] = f /\ pc'[q] \in {"transfer", "seek_set"}
    BY DEF Locking
  <2>1. CASE q = p
    BY <1>1, <1>3, <1>5, <2>1, OpenFileAssumption DEF TypeInv, Locking
  <2>2. CASE q # p
    BY <1>1, <1>3, <1>5, <2>2, OpenFileAssumption DEF TypeInv, Locking
  <2>3. QED
    BY <2>1, <2>2
<1>10. RefsCounted'
  BY <1>1, <1>5, QuietRefs DEF TypeInv, InHand
<1>11. OffsetStable'
  <2> SUFFICES ASSUME NEW q \in Procs, pc'[q] \in {"transfer", "seek_set"}, file'[q] \in Seekable
               PROVE  of_offset'[file'[q]] = pos'[q]
    BY DEF OffsetStable
  <2>1. q # p /\ pc[q] = pc'[q] /\ file[q] = file'[q] /\ pos[q] = pos'[q]
    BY <1>5 DEF TypeInv
  <2>2. of_offset[file[q]] = pos[q] /\ file[q] \in Files
    BY <2>1, OpenFileAssumption DEF OffsetStable
  <2>3. of_offset'[file[q]] = of_offset[file[q]]
    BY <1>1, <1>2, <2>1, <2>2 DEF Locking
  <2>4. QED
    BY <2>1, <2>2, <2>3
<1>12. QED
  BY <1>6, <1>7, <1>8, <1>9, <1>10, <1>11

LEMMA ForkInv ==
  ASSUME IInv, NEW p \in Procs, Fork(p)
  PROVE  IInv'
<1> USE DEF IInv
<1>1. PICK q \in Procs :
        /\ pc[p] = "user" /\ pc[q] = "unborn" /\ q # p
        /\ pc' = [pc EXCEPT ![p] = "copy", ![q] = "made"]
        /\ child' = [child EXCEPT ![p] = q]
        /\ UNCHANGED <<ft_openfiles, of_refcount, of_offset, of_offsetlock, file, fd, pos>>
  BY DEF Fork
<1>2. TypeInv'
  BY <1>1 DEF TypeInv
<1>3. Locals'
  BY <1>1 DEF TypeInv, Locals, InUse
<1>4. Copying'
  <2>1. \A r \in Procs : pc'[r] = IF r = p THEN "copy" ELSE IF r = q THEN "made" ELSE pc[r]
    BY <1>1 DEF TypeInv
  <2>2. \A r \in Procs : child'[r] = IF r = p THEN q ELSE child[r]
    BY <1>1 DEF TypeInv
  <2>3. \A r \in Procs : pc[r] = "copy" => child[r] # q
    BY <1>1 DEF Copying
  <2>4. \A d \in FDs : ft_openfiles[q][d] = NULL
    BY <1>1 DEF Copying
  <2>5. \A r \in Procs : pc'[r] = "unborn" => \A d \in FDs : ft_openfiles'[r][d] = NULL
    BY <1>1, <2>1 DEF Copying
  <2>6. ASSUME NEW r \in Procs, pc'[r] = "copy"
        PROVE  /\ child'[r] \in Procs
               /\ pc'[child'[r]] = "made"
               /\ \A d \in FDs : fd'[r] <= d => ft_openfiles'[child'[r]][d] = NULL
               /\ \A s \in Procs : pc'[s] = "copy" /\ child'[s] = child'[r] => s = r
    <3>1. CASE r = p
      <4>1. child'[r] = q /\ pc'[q] = "made"
        BY <1>1, <2>1, <2>2, <3>1
      <4>2. \A d \in FDs : ft_openfiles'[q][d] = NULL
        BY <1>1, <2>4
      <4>3. ASSUME NEW s \in Procs, pc'[s] = "copy", child'[s] = q PROVE s = p
        BY <2>1, <2>2, <2>3, <4>3
      <4>4. QED
        BY <3>1, <4>1, <4>2, <4>3
    <3>2. CASE r # p
      <4>1. pc[r] = "copy" /\ child'[r] = child[r] /\ child[r] # q
        BY <2>1, <2>2, <2>3, <2>6, <3>2
      <4>2. child[r] \in Procs /\ pc[child[r]] = "made" /\ child[r] # p
        BY <1>1, <4>1 DEF Copying
      <4>3. pc'[child[r]] = "made"
        BY <2>1, <4>1, <4>2
      <4>4. \A d \in FDs : fd'[r] <= d => ft_openfiles'[child[r]][d] = NULL
        BY <1>1, <4>1 DEF Copying
      <4>5. ASSUME NEW s \in Procs, pc'[s] = "copy", child'[s] = child[r] PROVE s = r
        BY <2>1, <2>2, <4>1, <4>5 DEF Copying
      <4>6. QED
        BY <4>1, <4>2, <4>3, <4>4, <4>5
    <3>3. QED
      BY <3>1, <3>2
  <2>7. QED
    BY <2>5, <2>6 DEF Copying
<1>5. Locking'
  BY <1>1 DEF TypeInv, Locking
<1>6. RefsCounted'
  BY <1>1, QuietRefs DEF TypeInv, InHand
<1>7. OffsetStable'
  BY <1>1 DEF TypeInv, OffsetStable
<1>8. QED
  BY <1>2, <1>3, <1>4, <1>5, <1>6, <1>7

LEMMA ExitInv ==
  ASSUME IInv, NEW p \in Procs, Exit(p)
  PROVE  IInv'
<1> USE DEF IInv
<1>1. /\ pc[p] = "user" /\ pc' = [pc EXCEPT ![p] = "gone"]
      /\ UNCHANGED <<ft_openfiles, of_refcount, of_offset, of_offsetlock, file, fd, pos, child>>
  BY DEF Exit, Goto
<1>2. TypeInv'
  BY <1>1 DEF TypeInv
<1>3. Locals'
  BY <1>1 DEF TypeInv, Locals, InUse
<1>4. Copying'
  BY <1>1 DEF TypeInv, Copying
<1>5. Locking'
  BY <1>1 DEF TypeInv, Locking
<1>6. RefsCounted'
  BY <1>1, QuietRefs DEF TypeInv, InHand
<1>7. OffsetStable'
  BY <1>1 DEF TypeInv, OffsetStable
<1>8. QED
  BY <1>2, <1>3, <1>4, <1>5, <1>6, <1>7

LEMMA CopyEndsInv ==
  ASSUME IInv, NEW p \in Procs, CopyEnds(p)
  PROVE  IInv'
<1> USE DEF IInv
<1>1. PICK to \in {"user", "gone"} :
        /\ pc[p] = "copy" /\ child[p] \in Procs /\ pc[child[p]] = "made"
        /\ pc' = [pc EXCEPT ![p] = "user", ![child[p]] = to]
        /\ fd' = [fd EXCEPT ![p] = 0]
        /\ child' = [child EXCEPT ![p] = NULL]
        /\ UNCHANGED <<ft_openfiles, of_refcount, of_offset, of_offsetlock, file, pos>>
  BY DEF CopyEnds, Copying
<1>2. \A q \in Procs : pc'[q] = IF q = child[p] THEN to ELSE IF q = p THEN "user" ELSE pc[q]
  BY <1>1 DEF TypeInv
<1>3. TypeInv'
  BY <1>1, OpenFileAssumption DEF TypeInv
<1>4. Locals'
  BY <1>1, <1>2 DEF TypeInv, Locals, InUse
<1>5. Copying'
  BY <1>1, <1>2 DEF TypeInv, Copying
<1>6. Locking'
  BY <1>1, <1>2 DEF TypeInv, Locking
<1>7. RefsCounted'
  BY <1>1, <1>2, QuietRefs DEF TypeInv, InHand
<1>8. OffsetStable'
  BY <1>1, <1>2 DEF TypeInv, OffsetStable
<1>9. QED
  BY <1>3, <1>4, <1>5, <1>6, <1>7, <1>8

-----------------------------------------------------------------------------
(* The steps that make, move or drop a reference.                          *)

LEMMA DecrefInv ==
  ASSUME IInv, NEW p \in Procs, Decref(p)
  PROVE  IInv'
<1> USE DEF IInv
<1>1. /\ pc[p] = "decref" /\ file[p] \in Files
      /\ UNCHANGED <<ft_openfiles, of_offset, of_offsetlock, child>>
  BY DEF Decref, Locals
<1>2. CASE /\ of_refcount[file[p]] = 1
           /\ pc' = [pc EXCEPT ![p] = "destroy"]
           /\ UNCHANGED <<of_refcount, file, fd, pos>>
  <2>1. TypeInv'
    BY <1>1, <1>2 DEF TypeInv
  <2>2. Locals'
    BY <1>1, <1>2 DEF TypeInv, Locals, InUse
  <2>3. Copying'
    BY <1>1, <1>2 DEF TypeInv, Copying
  <2>4. Locking'
    BY <1>1, <1>2 DEF TypeInv, Locking
  <2>5. RefsCounted'
    BY <1>1, <1>2, QuietRefs DEF TypeInv, InHand
  <2>6. OffsetStable'
    BY <1>1, <1>2 DEF TypeInv, OffsetStable
  <2>7. QED
    BY <2>1, <2>2, <2>3, <2>4, <2>5, <2>6
<1>3. CASE /\ of_refcount[file[p]] > 1
           /\ of_refcount' = [of_refcount EXCEPT ![file[p]] = @ - 1]
           /\ Return(p)
  <2>1. /\ pc' = [pc EXCEPT ![p] = "user"]
        /\ file' = [file EXCEPT ![p] = NULL]
        /\ fd' = [fd EXCEPT ![p] = 0]
        /\ pos' = [pos EXCEPT ![p] = 0]
    BY <1>3 DEF Return, Goto
  <2>2. of_refcount' \in [Files -> Nat]
    BY <1>1, <1>3 DEF TypeInv
  <2>3. TypeInv'
    BY <1>1, <2>1, <2>2, OpenFileAssumption DEF TypeInv
  <2>4. Locals'
    BY <1>1, <1>3, <2>1 DEF TypeInv, Locals, InUse
  <2>5. Copying'
    BY <1>1, <2>1 DEF TypeInv, Copying
  <2>6. Locking'
    BY <1>1, <2>1 DEF TypeInv, Locking
  <2>7. RefsCounted'
    <3>1. <<p, HAND>> \in Slots
      BY DEF Slots
    <3>2. Holds(p, HAND) = file[p] /\ Holds(p, HAND)' = NULL
      BY <1>1, <2>1 DEF TypeInv, Holds, InHand
    <3>3. \A t \in Slots : t # <<p, HAND>> => Holds(t[1], t[2])' = Holds(t[1], t[2])
      BY <1>1, <2>1 DEF TypeInv, Slots, Holds, InHand
    <3>4. QED
      BY <1>1, <1>3, <3>1, <3>2, <3>3, RefDropped
  <2>8. OffsetStable'
    BY <1>1, <2>1 DEF TypeInv, OffsetStable
  <2>9. QED
    BY <2>3, <2>4, <2>5, <2>6, <2>7, <2>8
<1>4. QED
  BY <1>2, <1>3 DEF Decref, Goto

LEMMA DestroyInv ==
  ASSUME IInv, NEW p \in Procs, Destroy(p)
  PROVE  IInv'
<1> USE DEF IInv
<1>0. pc[p] = "destroy" /\ file[p] \in Files /\ of_refcount[file[p]] = 1
  BY DEF Destroy, Locals
<1>1. /\ pc[p] = "destroy" /\ file[p] \in Files /\ of_refcount[file[p]] = 1
      /\ of_refcount' = [of_refcount EXCEPT ![file[p]] = @ - 1]
      /\ of_offset' = [of_offset EXCEPT ![file[p]] = 0]
      /\ pc' = [pc EXCEPT ![p] = "user"]
      /\ file' = [file EXCEPT ![p] = NULL]
      /\ fd' = [fd EXCEPT ![p] = 0]
      /\ pos' = [pos EXCEPT ![p] = 0]
      /\ UNCHANGED <<ft_openfiles, of_offsetlock, child>>
  BY <1>0 DEF Destroy, Return, Goto
<1>2. of_refcount' \in [Files -> Nat]
  BY <1>1 DEF TypeInv
<1>3. TypeInv'
  BY <1>1, <1>2, OpenFileAssumption DEF TypeInv
<1>4. Locals'
  <2>1. \A q \in Procs : pc[q] = "destroy" /\ q # p => file[q] # file[p]
    BY <1>1, DestroyerIsAlone DEF InHand
  <2>2. QED
    BY <1>1, <2>1 DEF TypeInv, Locals, InUse
<1>5. Copying'
  BY <1>1 DEF TypeInv, Copying
<1>6. Locking'
  BY <1>1 DEF TypeInv, Locking
<1>7. RefsCounted'
  <2>1. <<p, HAND>> \in Slots
    BY DEF Slots
  <2>2. Holds(p, HAND) = file[p] /\ Holds(p, HAND)' = NULL
    BY <1>1 DEF TypeInv, Holds, InHand
  <2>3. \A t \in Slots : t # <<p, HAND>> => Holds(t[1], t[2])' = Holds(t[1], t[2])
    BY <1>1 DEF TypeInv, Slots, Holds, InHand
  <2>4. QED
    BY <1>1, <2>1, <2>2, <2>3, RefDropped
<1>8. OffsetStable'
  <2>1. \A q \in Procs : pc[q] \in {"transfer", "seek_set"} => file[q] # file[p]
    BY <1>1, DestroyerIsAlone DEF InUse
  <2>2. QED
    BY <1>1, <2>1, OpenFileAssumption DEF TypeInv, OffsetStable
<1>9. QED
  BY <1>3, <1>4, <1>5, <1>6, <1>7, <1>8

LEMMA OpenInv ==
  ASSUME IInv, NEW p \in Procs, Open(p)
  PROVE  IInv'
<1> USE DEF IInv
<1>1. PICK f \in Files :
        /\ of_refcount[f] = 0
        /\ of_refcount' = [of_refcount EXCEPT ![f] = 1]
        /\ \/ /\ Empty(p) # {}
              /\ ft_openfiles' = [ft_openfiles EXCEPT ![p][Smallest(Empty(p))] = f]
              /\ UNCHANGED <<pc, file>>
           \/ /\ file' = [file EXCEPT ![p] = f]
              /\ Goto(p, "decref")
              /\ UNCHANGED ft_openfiles
  BY DEF Open
<1>2. pc[p] = "user" /\ UNCHANGED <<of_offset, of_offsetlock, fd, pos, child>>
  BY DEF Open
<1>3. of_refcount' = [of_refcount EXCEPT ![f] = @ + 1] /\ of_refcount' \in [Files -> Nat]
  BY <1>1 DEF TypeInv
<1>4. \A q \in Procs : pc[q] = "destroy" => file[q] # f
  BY <1>1 DEF Locals
<1>5. CASE /\ Empty(p) # {}
           /\ ft_openfiles' = [ft_openfiles EXCEPT ![p][Smallest(Empty(p))] = f]
           /\ UNCHANGED <<pc, file>>
  <2>0. PICK d \in FDs : d = Smallest(Empty(p)) /\ d \in Empty(p)
    BY <1>5, Least DEF Empty
  <2>1. ft_openfiles[p][d] = NULL /\ ft_openfiles' = [ft_openfiles EXCEPT ![p][d] = f]
    BY <1>5, <2>0 DEF Empty
  <2>2. \A q \in Procs, e \in FDs :
          ft_openfiles'[q][e] = IF q = p /\ e = d THEN f ELSE ft_openfiles[q][e]
    BY <2>1 DEF TypeInv
  <2>3. ft_openfiles' \in [Procs -> [FDs -> Files \cup {NULL}]]
    BY <2>1 DEF TypeInv
  <2>4. TypeInv'
    BY <1>2, <1>3, <1>5, <2>3 DEF TypeInv
  <2>5. Locals'
    BY <1>1, <1>2, <1>4, <1>5, <2>2 DEF TypeInv, Locals, InUse
  <2>6. Copying'
    BY <1>2, <1>5, <2>2 DEF Copying
  <2>7. Locking'
    BY <1>2, <1>5 DEF Locking
  <2>8. RefsCounted'
    <3>1. <<p, d>> \in Slots
      BY <2>1 DEF Slots
    <3>2. Holds(p, d) = NULL /\ Holds(p, d)' = f
      BY <2>1, <2>2, HandIsNoFD DEF Holds
    <3>3. \A t \in Slots : t # <<p, d>> => Holds(t[1], t[2])' = Holds(t[1], t[2])
      BY <1>5, <2>2 DEF Slots, Holds, InHand
    <3>4. QED
      BY <1>3, <3>1, <3>2, <3>3, RefAdded
  <2>9. OffsetStable'
    BY <1>2, <1>5 DEF OffsetStable
  <2>10. QED
    BY <2>4, <2>5, <2>6, <2>7, <2>8, <2>9
<1>6. CASE /\ file' = [file EXCEPT ![p] = f]
           /\ pc' = [pc EXCEPT ![p] = "decref"]
           /\ UNCHANGED ft_openfiles
  <2>1. TypeInv'
    BY <1>2, <1>3, <1>6 DEF TypeInv
  <2>2. Locals'
    BY <1>1, <1>2, <1>4, <1>6 DEF TypeInv, Locals, InUse
  <2>3. Copying'
    BY <1>2, <1>6 DEF TypeInv, Copying
  <2>4. Locking'
    BY <1>2, <1>6 DEF TypeInv, Locking
  <2>5. RefsCounted'
    <3>1. <<p, HAND>> \in Slots
      BY DEF Slots
    <3>2. Holds(p, HAND) = NULL /\ Holds(p, HAND)' = f
      BY <1>2, <1>6 DEF TypeInv, Holds, InHand
    <3>3. \A t \in Slots : t # <<p, HAND>> => Holds(t[1], t[2])' = Holds(t[1], t[2])
      BY <1>2, <1>6 DEF TypeInv, Slots, Holds, InHand
    <3>4. QED
      BY <1>3, <3>1, <3>2, <3>3, RefAdded
  <2>6. OffsetStable'
    BY <1>2, <1>6 DEF TypeInv, OffsetStable
  <2>7. QED
    BY <2>1, <2>2, <2>3, <2>4, <2>5, <2>6
<1>7. QED
  BY <1>1, <1>5, <1>6 DEF Goto

LEMMA CloseInv ==
  ASSUME IInv, NEW p \in Procs, Close(p)
  PROVE  IInv'
<1> USE DEF IInv
<1>1. PICK d \in FDs :
        /\ ft_openfiles[p][d] # NULL
        /\ file' = [file EXCEPT ![p] = ft_openfiles[p][d]]
        /\ ft_openfiles' = [ft_openfiles EXCEPT ![p][d] = NULL]
  BY DEF Close
<1>2. /\ pc[p] = "user" /\ pc' = [pc EXCEPT ![p] = "decref"]
      /\ UNCHANGED <<of_refcount, of_offset, of_offsetlock, fd, pos, child>>
  BY DEF Close, Goto
<1>3. ft_openfiles[p][d] \in Files
  BY <1>1 DEF TypeInv
<1>4. \A q \in Procs, e \in FDs :
        ft_openfiles'[q][e] = IF q = p /\ e = d THEN NULL ELSE ft_openfiles[q][e]
  BY <1>1 DEF TypeInv
<1>5. ft_openfiles' \in [Procs -> [FDs -> Files \cup {NULL}]]
  BY <1>1 DEF TypeInv
<1>6. TypeInv'
  BY <1>1, <1>2, <1>3, <1>5 DEF TypeInv
<1>7. Locals'
  BY <1>1, <1>2, <1>3, <1>4 DEF TypeInv, Locals, InUse
<1>8. Copying'
  BY <1>2, <1>4 DEF TypeInv, Copying
<1>9. Locking'
  BY <1>1, <1>2 DEF TypeInv, Locking
<1>10. RefsCounted'
  <2>1. <<p, d>> \in Slots /\ <<p, HAND>> \in Slots /\ d # HAND
    BY HandIsNoFD DEF Slots
  <2>2. Holds(p, d) = ft_openfiles[p][d] /\ Holds(p, HAND)' = ft_openfiles[p][d]
    BY <1>1, <1>2, <2>1 DEF TypeInv, Holds, InHand
  <2>3. Holds(p, HAND) = NULL /\ Holds(p, d)' = NULL
    BY <1>2, <1>4, <2>1 DEF Holds, InHand
  <2>4. \A t \in Slots : t # <<p, d>> /\ t # <<p, HAND>> =>
          Holds(t[1], t[2])' = Holds(t[1], t[2])
    BY <1>1, <1>2, <1>4 DEF TypeInv, Slots, Holds, InHand
  <2>5. QED
    BY <1>2, <2>1, <2>2, <2>3, <2>4, RefsSwapped
<1>11. OffsetStable'
  BY <1>1, <1>2 DEF TypeInv, OffsetStable
<1>12. QED
  BY <1>6, <1>7, <1>8, <1>9, <1>10, <1>11

LEMMA Dup2Inv ==
  ASSUME IInv, NEW p \in Procs, Dup2(p)
  PROVE  IInv'
<1> USE DEF IInv
<1>1. PICK f \in Files, oldfd \in FDs, newfd \in FDs :
        /\ ft_openfiles[p][oldfd] = f
        /\ of_refcount' = [of_refcount EXCEPT ![f] = @ + 1]
        /\ file' = [file EXCEPT ![p] = f]
        /\ fd' = [fd EXCEPT ![p] = newfd]
  <2>1. PICK oldfd \in FDs, newfd \in FDs :
          /\ ft_openfiles[p][oldfd] # NULL
          /\ openfile_incref(ft_openfiles[p][oldfd])
          /\ file' = [file EXCEPT ![p] = ft_openfiles[p][oldfd]]
          /\ fd' = [fd EXCEPT ![p] = newfd]
    BY DEF Dup2
  <2>2. ft_openfiles[p][oldfd] \in Files
    BY <2>1 DEF TypeInv
  <2>3. QED
    BY <2>1, <2>2 DEF openfile_incref
<1>2. /\ pc[p] = "user" /\ pc' = [pc EXCEPT ![p] = "dup2"]
      /\ UNCHANGED <<ft_openfiles, of_offset, of_offsetlock, pos, child>>
  BY DEF Dup2, Goto
<1>3. \A q \in Procs : pc[q] = "destroy" => file[q] # f
  BY <1>1, DestroyerIsAlone
<1>4. of_refcount' \in [Files -> Nat]
  BY <1>1 DEF TypeInv
<1>5. fd' \in [Procs -> 0 .. OPEN_MAX]
  BY <1>1, OpenFileAssumption DEF TypeInv, FDs
<1>6. TypeInv'
  BY <1>1, <1>2, <1>4, <1>5 DEF TypeInv
<1>7. Locals'
  BY <1>1, <1>2, <1>3 DEF TypeInv, Locals, InUse
<1>8. Copying'
  BY <1>1, <1>2 DEF TypeInv, Copying
<1>9. Locking'
  BY <1>1, <1>2 DEF TypeInv, Locking
<1>10. RefsCounted'
  <2>1. <<p, HAND>> \in Slots
    BY DEF Slots
  <2>2. Holds(p, HAND) = NULL /\ Holds(p, HAND)' = f
    BY <1>1, <1>2 DEF TypeInv, Holds, InHand
  <2>3. \A t \in Slots : t # <<p, HAND>> => Holds(t[1], t[2])' = Holds(t[1], t[2])
    BY <1>1, <1>2 DEF TypeInv, Slots, Holds, InHand
  <2>4. QED
    BY <1>1, <2>1, <2>2, <2>3, RefAdded
<1>11. OffsetStable'
  BY <1>1, <1>2 DEF TypeInv, OffsetStable
<1>12. QED
  BY <1>6, <1>7, <1>8, <1>9, <1>10, <1>11

LEMMA Dup2PlaceInv ==
  ASSUME IInv, NEW p \in Procs, Dup2Place(p)
  PROVE  IInv'
<1> USE DEF IInv
<1>1. PICK f \in Files, d \in FDs, old \in Files \cup {NULL} :
        /\ pc[p] = "dup2" /\ file[p] = f /\ fd[p] = d /\ ft_openfiles[p][d] = old
        /\ ft_openfiles' = [ft_openfiles EXCEPT ![p][d] = f]
        /\ UNCHANGED <<of_refcount, of_offset, of_offsetlock, child>>
  <2>1. pc[p] = "dup2" /\ file[p] \in Files /\ fd[p] \in FDs
    BY DEF Dup2Place, Locals
  <2>2. ft_openfiles[p][fd[p]] \in Files \cup {NULL}
    BY <2>1 DEF TypeInv
  <2>3. QED
    BY <2>1, <2>2 DEF Dup2Place
<1>2. PICK l \in {"user", "decref"} :
        /\ pc' = [pc EXCEPT ![p] = l]
        /\ file' = [file EXCEPT ![p] = old]
        /\ l = "decref" <=> old # NULL
        /\ fd' \in [Procs -> 0 .. OPEN_MAX] /\ pos' \in [Procs -> 0 .. MaxOffset]
        /\ \A q \in Procs : q # p => fd'[q] = fd[q] /\ pos'[q] = pos[q]
  <2>1. CASE old = NULL
    <3>1. Return(p)
      BY <1>1, <2>1 DEF Dup2Place
    <3>2. QED
      BY <2>1, <3>1, OpenFileAssumption DEF Return, Goto, TypeInv
  <2>2. CASE old # NULL
    BY <1>1, <2>2 DEF Dup2Place, Goto, TypeInv
  <2>3. QED
    BY <2>1, <2>2
<1>3. \A q \in Procs, e \in FDs :
        ft_openfiles'[q][e] = IF q = p /\ e = d THEN f ELSE ft_openfiles[q][e]
  BY <1>1 DEF TypeInv
<1>4. ft_openfiles' \in [Procs -> [FDs -> Files \cup {NULL}]]
  BY <1>1 DEF TypeInv
<1>5. TypeInv'
  BY <1>1, <1>2, <1>4 DEF TypeInv
<1>6. Locals'
  BY <1>1, <1>2, <1>3 DEF TypeInv, Locals, InUse
<1>7. Copying'
  <2>1. \A q \in Procs : pc'[q] = IF q = p THEN l ELSE pc[q]
    BY <1>2 DEF TypeInv
  <2>2. \A q \in Procs : pc[q] = "copy" => child[q] # p
    BY <1>1 DEF Copying
  <2>3. \A q \in Procs : q # p => \A e \in FDs : ft_openfiles'[q][e] = ft_openfiles[q][e]
    BY <1>3
  <2>4. QED
    BY <1>1, <1>2, <2>1, <2>2, <2>3 DEF Copying
<1>8. Locking'
  BY <1>1, <1>2 DEF TypeInv, Locking
<1>9. RefsCounted'
  <2>1. <<p, d>> \in Slots /\ <<p, HAND>> \in Slots /\ d # HAND
    BY HandIsNoFD DEF Slots
  <2>2. Holds(p, HAND) = f /\ Holds(p, d)' = f
    BY <1>1, <1>3, <2>1 DEF Holds, InHand
  <2>3. Holds(p, d) = old /\ Holds(p, HAND)' = old
    BY <1>1, <1>2, <2>1 DEF TypeInv, Holds, InHand
  <2>4. \A t \in Slots : t # <<p, d>> /\ t # <<p, HAND>> =>
          Holds(t[1], t[2])' = Holds(t[1], t[2])
    BY <1>1, <1>2, <1>3 DEF TypeInv, Slots, Holds, InHand
  <2>5. QED
    BY <1>1, <2>1, <2>2, <2>3, <2>4, RefsSwapped
<1>10. OffsetStable'
  BY <1>1, <1>2 DEF TypeInv, OffsetStable
<1>11. QED
  BY <1>5, <1>6, <1>7, <1>8, <1>9, <1>10

LEMMA CopyEntryInv ==
  ASSUME IInv, NEW p \in Procs, CopyEntry(p)
  PROVE  IInv'
<1> USE DEF IInv
<1>1. PICK c \in Procs, d \in FDs, f \in Files \cup {NULL} :
        /\ pc[p] = "copy" /\ child[p] = c /\ fd[p] = d /\ ft_openfiles[p][d] = f
        /\ pc[c] = "made" /\ ft_openfiles[c][d] = NULL
        /\ ft_openfiles' = [ft_openfiles EXCEPT ![c][d] = f]
        /\ fd' = [fd EXCEPT ![p] = d + 1]
        /\ UNCHANGED <<of_offset, of_offsetlock, pc, file, pos, child>>
  <2>1. pc[p] = "copy" /\ fd[p] < OPEN_MAX /\ child[p] \in Procs /\ pc[child[p]] = "made"
    BY DEF CopyEntry, Copying
  <2>2. fd[p] \in FDs
    BY <2>1, OpenFileAssumption DEF TypeInv, FDs
  <2>3. fd[p] <= fd[p]
    BY <2>2, OpenFileAssumption DEF FDs
  <2>4. ft_openfiles[p][fd[p]] \in Files \cup {NULL} /\ ft_openfiles[child[p]][fd[p]] = NULL
    BY <2>1, <2>2, <2>3 DEF TypeInv, Copying
  <2>5. QED
    BY <2>1, <2>2, <2>4 DEF CopyEntry
<1>2. of_refcount' = IF f = NULL THEN of_refcount ELSE [of_refcount EXCEPT ![f] = @ + 1]
  BY <1>1 DEF CopyEntry, openfile_incref
<1>3. of_refcount' \in [Files -> Nat]
  BY <1>2 DEF TypeInv
<1>4. \A q \in Procs, e \in FDs :
        ft_openfiles'[q][e] = IF q = c /\ e = d THEN f ELSE ft_openfiles[q][e]
  BY <1>1 DEF TypeInv
<1>5. ft_openfiles' \in [Procs -> [FDs -> Files \cup {NULL}]]
  BY <1>1 DEF TypeInv
<1>6. fd' \in [Procs -> 0 .. OPEN_MAX]
  BY <1>1, OpenFileAssumption DEF TypeInv, FDs
<1>7. TypeInv'
  BY <1>1, <1>3, <1>5, <1>6 DEF TypeInv
<1>8. Locals'
  <2>1. \A q \in Procs : pc[q] = "destroy" => file[q] # f
    BY <1>1, DestroyerIsAlone
  <2>2. \A q \in Procs : pc[q] = "destroy" => of_refcount'[file[q]] = of_refcount[file[q]]
    BY <1>2, <2>1 DEF TypeInv, Locals
  <2>3. \A q \in Procs : pc[q] \in InUse \cup {"dup2"} => q # c /\ q # p
    BY <1>1 DEF InUse
  <2>4. QED
    BY <1>1, <1>4, <2>2, <2>3 DEF TypeInv, Locals
<1>9. Copying'
  <2>1. \A q \in Procs : pc[q] = "unborn" => q # c
    BY <1>1
  <2>2. \A q \in Procs : pc[q] = "copy" /\ q # p => child[q] # c
    BY <1>1 DEF Copying
  <2>3. \A e \in FDs : d + 1 <= e => ft_openfiles'[c][e] = NULL
    <3> SUFFICES ASSUME NEW e \in FDs, d + 1 <= e PROVE ft_openfiles'[c][e] = NULL
      OBVIOUS
    <3>1. d <= e /\ d # e
      BY OpenFileAssumption DEF FDs
    <3>2. QED
      BY <1>1, <1>4, <3>1 DEF Copying
  <2>4. \A q \in Procs : fd'[q] = IF q = p THEN d + 1 ELSE fd[q]
    BY <1>1 DEF TypeInv
  <2>5. \A q \in Procs : q # c => \A e \in FDs : ft_openfiles'[q][e] = ft_openfiles[q][e]
    BY <1>4
  <2>6. \A q \in Procs : pc[q] = "copy" => \A e \in FDs : fd'[q] <= e => ft_openfiles'[child[q]][e] = NULL
    BY <1>1, <2>2, <2>3, <2>4, <2>5 DEF Copying
  <2>7. QED
    BY <1>1, <2>1, <2>5, <2>6 DEF Copying
<1>10. Locking'
  BY <1>1 DEF Locking
<1>11. RefsCounted'
  <2>1. <<c, d>> \in Slots /\ d # HAND
    BY HandIsNoFD DEF Slots
  <2>2. Holds(c, d) = NULL /\ Holds(c, d)' = f
    BY <1>1, <1>4, <2>1 DEF Holds
  <2>3. \A t \in Slots : t # <<c, d>> => Holds(t[1], t[2])' = Holds(t[1], t[2])
    BY <1>1, <1>4 DEF Slots, Holds, InHand
  <2>4. CASE f = NULL
    BY <1>2, <2>2, <2>3, <2>4, RefsKept
  <2>5. CASE f # NULL
    BY <1>2, <2>1, <2>2, <2>3, <2>5, RefAdded
  <2>6. QED
    BY <2>4, <2>5
<1>12. OffsetStable'
  BY <1>1 DEF OffsetStable
<1>13. QED
  BY <1>7, <1>8, <1>9, <1>10, <1>11, <1>12

-----------------------------------------------------------------------------
(* The theorems.                                                           *)

LEMMA NextInv == IInv /\ [Next]_vars => IInv'
<1> SUFFICES ASSUME IInv, [Next]_vars PROVE IInv'
  OBVIOUS
<1>1. ASSUME NEW p \in Procs, Kernel(p) PROVE IInv'
  BY <1>1, DecrefInv, DestroyInv, Dup2PlaceInv, LockInv, StoreInv, CopyEntryInv, CopyEndsInv
     DEF Kernel
<1>2. ASSUME NEW p \in Procs, User(p) PROVE IInv'
  BY <1>2, OpenInv, CloseInv, Dup2Inv, ReadWriteInv, ForkInv, ExitInv DEF User
<1>3. CASE UNCHANGED vars
  <2>1. \A s \in Slots : Holds(s[1], s[2])' = Holds(s[1], s[2])
    BY <1>3 DEF vars, Holds, InHand
  <2>2. RefsCounted'
    BY <1>3, <2>1, RefsKept DEF IInv, vars
  <2>3. QED
    BY <1>3, <2>2 DEF vars, IInv, TypeInv, Locals, Copying, Locking, OffsetStable, InUse
<1>4. QED
  BY <1>1, <1>2, <1>3 DEF Next

\* The inductive invariant of descriptor tables and open files holds in every
\* reachable state.
THEOREM Invariance == Spec => []IInv
<1>1. QED
  BY InitInv, NextInv, PTL DEF Spec

\* A reference count never exceeds the places there are for references, and
\* every local of a system call stays in its range.
THEOREM TypeCorrect == Spec => []TypeOK
<1>1. IInv => TypeOK
  <2> SUFFICES ASSUME IInv PROVE TypeOK
    OBVIOUS
  <2>1. ASSUME NEW f \in Files
        PROVE  of_refcount[f] \in 0 .. (OPEN_MAX + 1) * Cardinality(Procs)
    <3>1. 0 \in Int /\ OPEN_MAX - 1 \in Int
      BY OpenFileAssumption
    <3>2. IsFiniteSet(FDs) /\ Cardinality(FDs) = OPEN_MAX
      BY <3>1, FS_Interval, OpenFileAssumption DEF FDs
    <3>3. IsFiniteSet(FDs \cup {HAND}) /\ Cardinality(FDs \cup {HAND}) = OPEN_MAX + 1
      BY <3>2, HandIsNoFD, FS_AddElement
    <3>4. /\ IsFiniteSet(Slots)
          /\ Cardinality(Slots) = Cardinality(Procs) * (OPEN_MAX + 1)
      BY <3>3, OpenFileAssumption, FS_Product DEF Slots
    <3>5. Cardinality(Refs(f)) <= Cardinality(Slots)
      BY <3>4, FS_Subset DEF Refs
    <3>6. Cardinality(Procs) \in Nat
      BY OpenFileAssumption, FS_CardinalityType
    <3>7. Cardinality(Procs) * (OPEN_MAX + 1) = (OPEN_MAX + 1) * Cardinality(Procs)
      BY <3>6, OpenFileAssumption
    <3>8. (OPEN_MAX + 1) * Cardinality(Procs) \in Nat
      BY <3>6, OpenFileAssumption
    <3>9. of_refcount[f] \in Nat /\ of_refcount[f] <= (OPEN_MAX + 1) * Cardinality(Procs)
      BY <3>4, <3>5, <3>7 DEF IInv, TypeInv, RefsCounted
    <3>10. QED
      BY <3>8, <3>9
  <2>2. QED
    BY <2>1 DEF IInv, TypeInv, TypeOK
<1>2. QED
  BY <1>1, Invariance, PTL

\* The count of an open file is the number of references to it: closing,
\* duplicating and forking at once neither frees a file early nor leaks it.
THEOREM RefsAreCounted == Spec => []RefsCounted
<1>1. IInv => RefsCounted
  BY DEF IInv
<1>2. QED
  BY <1>1, Invariance, PTL

\* A process that reads, writes or seeks has a live file in its table.
THEOREM FilesStay == Spec => []FileStays
<1>1. IInv => FileStays
  <2> SUFFICES ASSUME IInv, NEW p \in Procs, pc[p] \in InUse
               PROVE  of_refcount[file[p]] > 0 /\ ft_openfiles[p][fd[p]] = file[p]
    BY DEF FileStays
  <2>1. QED
    BY UserHolds, HeldIsOpen DEF IInv, Locals
<1>2. QED
  BY <1>1, Invariance, PTL

\* Nobody moves a seek position while a transfer or a seek is under way.
THEOREM PositionsStable == Spec => []OffsetStable
<1>1. IInv => OffsetStable
  BY DEF IInv
<1>2. QED
  BY <1>1, Invariance, PTL

\* The lock of a file that is freed is never held.
THEOREM NoHeldLockIsDestroyed == Spec => []NoHeldLockDestroyed
<1>1. IInv => NoHeldLockDestroyed
  <2> SUFFICES ASSUME IInv, NEW f \in Files, of_offsetlock[f] # NULL
               PROVE  of_refcount[f] # 0
    BY DEF NoHeldLockDestroyed
  <2>1. PICK p \in Procs : of_offsetlock[f] = p
    BY DEF IInv, TypeInv
  <2>2. file[p] = f /\ pc[p] \in InUse
    BY <2>1 DEF IInv, Locking, InUse
  <2>3. <<p, fd[p]>> \in Refs(f)
    BY <2>2, UserHolds
  <2>4. of_refcount[f] > 0 /\ of_refcount[f] \in Nat
    BY <2>3, HeldIsOpen DEF IInv, TypeInv
  <2>5. QED
    BY <2>4
<1>2. QED
  BY <1>1, Invariance, PTL

=============================================================================
