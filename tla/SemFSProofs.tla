----------------------------- MODULE SemFSProofs -----------------------------
(***************************************************************************)
(* Proofs about SemFS, for any finite set of threads and any sets of       *)
(* names, semaphores and vnodes: references are counted, the tables agree, *)
(* no semaphore is used after its end or forgotten, and one is destroyed   *)
(* wrongly only where the remove and the last close of it overlap.         *)
(***************************************************************************)
EXTENDS SemFS, FiniteSetTheorems, TLAPS

Slots == DOMAIN semarray

\* What somebody looking a name up goes through; what a creat goes through
\* before others can see its semaphore; what the last close goes through.
Looking == {"getvnode", "getsem", "unlink"}
Private == {"insert", "dent", "newvnode"}
Reclaiming == {"linked?", "cleanup"}
\* Where local sem says nothing.
Blank == {"idle", "getvnode", "getsem", "reclaim", "cleanup"}
\* Where a thread may hold sems_lock.
Locking == {"test", "take", "release", "add", "set", "store", "hasvnode?", "unlock", "empty"}

LocksHeld == \A t \in Threads :
  /\ dirlock = t <=> pc[t] \in Creating \cup Removing \cup Looking
  /\ tablelock = t <=> pc[t] = "linked?"

\* A thread's vnode is in the table until the thread takes it out, which it
\* does only as the last to refer to it.
RefsKnown == \A t \in Threads :
  /\ pc[t] \in Private \cup {"getvnode"} => ref[t] = NULL
  /\ pc[t] \in Using \cup Reclaiming \cup {"link", "reclaim"} => ref[t] # NULL
  /\ ref[t] # NULL => (vnode[ref[t]].table <=> pc[t] \notin Reclaiming)
  /\ pc[t] \in Reclaiming => \A u \in Threads : ref[u] = ref[t] => u = t

TableKnown == \A v \in Vnodes :
  vnode[v].table =>
    vnode[v].live /\ vnode[v].semnum \in Slots /\ semarray[vnode[v].semnum] # NULL

UniqueInTable == \A v, w \in Vnodes :
  vnode[v].table /\ vnode[w].table /\ vnode[v].semnum = vnode[w].semnum => v = w

HasvnodeKnown == \A i \in Slots :
  semarray[i] # NULL => (sem[semarray[i]].hasvnode <=> \E v \in Vnodes : InTable(v, i))

SlotsKnown ==
  /\ \A i, j \in Slots : semarray[i] = semarray[j] /\ semarray[i] # NULL => i = j
  /\ \A i \in Slots : semarray[i] # NULL => sem[semarray[i]].live
  /\ \A s \in Sems : sem[s].linked \/ sem[s].hasvnode => sem[s].live

DentsKnown ==
  /\ \A n, m \in Names : dents[n] = dents[m] /\ dents[n] # 0 => n = m
  /\ \A n \in Names :
       dents[n] # 0 =>
         \/ semarray[dents[n]] # NULL /\ sem[semarray[dents[n]]].linked
         \/ \E t \in Threads : name[t] = n /\ pc[t] \in Creating \cup Removing

Looker(t) ==
  pc[t] \in Looking =>
    /\ name[t] \in Names /\ semnum[t] \in Slots
    /\ dents[name[t]] = semnum[t]
    /\ semarray[semnum[t]] # NULL /\ sem[semarray[semnum[t]]].linked
    /\ pc[t] = "unlink" => cur[t] = semarray[semnum[t]]

Creator(t) ==
  pc[t] \in Creating =>
    /\ name[t] \in Names /\ cur[t] \in Sems
    /\ sem[cur[t]].live /\ ~ sem[cur[t]].linked
    /\ IF pc[t] = "insert" THEN \A i \in Slots : semarray[i] # cur[t]
       ELSE semnum[t] \in Slots /\ semarray[semnum[t]] = cur[t]
    /\ dents[name[t]] = IF pc[t] \in {"insert", "dent"} THEN 0 ELSE semnum[t]
    /\ IF pc[t] = "link" THEN vnode[ref[t]].semnum = semnum[t]
       ELSE ~ sem[cur[t]].hasvnode /\ \A u \in Threads : cur[u] = cur[t] => u = t

Remover(t) ==
  pc[t] \in Removing =>
    /\ name[t] \in Names /\ cur[t] \in Sems /\ semnum[t] \in Slots
    /\ dents[name[t]] = semnum[t]
    /\ ~ sem[cur[t]].linked
    /\ semarray[semnum[t]] = IF pc[t] # "destroy" /\ sem[cur[t]].live THEN cur[t] ELSE NULL
    /\ pc[t] \in {"empty", "destroy"} => ~ sem[cur[t]].hasvnode
    /\ pc[t] = "destroy" => \A i \in Slots : semarray[i] # cur[t]
    /\ pc[t] = "unlock" /\ sem[cur[t]].live =>
         sem[cur[t]].hasvnode \/ \E u \in Threads : pc[u] = "linked?" /\ cur[u] = cur[t]

Reclaimer(t) ==
  pc[t] = "linked?" =>
    /\ cur[t] \in Sems /\ semnum[t] \in Slots
    /\ semarray[semnum[t]] = cur[t]
    /\ ~ sem[cur[t]].hasvnode

User(t) ==
  pc[t] \in Using =>
    /\ cur[t] \in Sems
    /\ sem[cur[t]].live /\ sem[cur[t]].hasvnode
    /\ semarray[vnode[ref[t]].semnum] = cur[t]

ThreadsKnown == \A t \in Threads :
  /\ Looker(t) /\ Creator(t) /\ Remover(t) /\ Reclaimer(t) /\ User(t)
  /\ pc[t] \in Blank => cur[t] = NULL

SemLocks == \A s \in Sems, t \in Threads :
  sem[s].lock = t => cur[t] = s /\ pc[t] \in Locking

SemsKept == \A s \in Sems :
  sem[s].live =>
    \/ (\E i \in Slots : semarray[i] = s) /\ (sem[s].linked \/ sem[s].hasvnode)
    \/ \E t \in Threads : cur[t] = s /\ pc[t] \in Creating \cup Removing \cup {"linked?"}

Counted == \A v \in Vnodes :
  vnode[v].refcount = Cardinality({t \in Threads : ref[t] = v})

RefsLive == \A t \in Threads : ref[t] # NULL => vnode[ref[t]].live

Intact ==
  /\ LocksHeld /\ RefsKnown /\ TableKnown /\ HasvnodeKnown /\ SlotsKnown /\ DentsKnown
  /\ ThreadsKnown /\ SemLocks /\ SemsKept /\ Counted /\ RefsLive

IInv == TypeOK /\ UniqueInTable /\ AssertionsHold /\ (broken = "no" => Intact)

-----------------------------------------------------------------------------
(* Counting references.                                                    *)

Holders(v) == {t \in Threads : ref[t] = v}

LEMMA HoldersFinite ==
  ASSUME NEW v PROVE IsFiniteSet(Holders(v)) /\ Cardinality(Holders(v)) \in Nat
BY SemFSAssumption, FS_Subset, FS_CardinalityType DEF Holders

\* A thread without a reference gets one.
LEMMA Gain ==
  ASSUME NEW t \in Threads, NEW v \in Vnodes, ref \in [Threads -> Vnodes \cup {NULL}],
         ref[t] = NULL, ref' = [ref EXCEPT ![t] = v]
  PROVE  \A w \in Vnodes : Cardinality(Holders(w)') =
                             IF w = v THEN Cardinality(Holders(w)) + 1 ELSE Cardinality(Holders(w))
<1>1. NULL \notin Vnodes
  BY SemFSAssumption
<1>2. ASSUME NEW w \in Vnodes, w # v
      PROVE  Holders(w)' = Holders(w)
  BY <1>1, <1>2 DEF Holders
<1>3. Holders(v)' = Holders(v) \cup {t} /\ t \notin Holders(v)
  BY <1>1 DEF Holders
<1>4. Cardinality(Holders(v)') = Cardinality(Holders(v)) + 1
  BY <1>3, HoldersFinite, FS_AddElement
<1>5. QED
  BY <1>2, <1>4

\* A thread gives its reference up.
LEMMA Lose ==
  ASSUME NEW t \in Threads, NEW v \in Vnodes, ref \in [Threads -> Vnodes \cup {NULL}],
         ref[t] = v, ref' = [ref EXCEPT ![t] = NULL]
  PROVE  \A w \in Vnodes : Cardinality(Holders(w)') =
                             IF w = v THEN Cardinality(Holders(w)) - 1 ELSE Cardinality(Holders(w))
<1>1. NULL \notin Vnodes
  BY SemFSAssumption
<1>2. ASSUME NEW w \in Vnodes, w # v
      PROVE  Holders(w)' = Holders(w)
  BY <1>1, <1>2 DEF Holders
<1>3. Holders(v)' = Holders(v) \ {t} /\ t \in Holders(v)
  BY <1>1 DEF Holders
<1>4. Cardinality(Holders(v)') = Cardinality(Holders(v)) - 1
  <2>1. IsFiniteSet(Holders(v))
    BY HoldersFinite
  <2>2. Cardinality(Holders(v) \ {t}) = Cardinality(Holders(v)) - 1
    BY <1>3, <2>1, FS_RemoveElement
  <2>3. QED
    BY <1>3, <2>2
<1>5. QED
  BY <1>2, <1>4

\* Who shares a vnode with nobody is the only one to refer to it, and the
\* other way round.
LEMMA OneHolder ==
  ASSUME NEW t \in Threads, NEW v \in Vnodes, ref[t] = v
  PROVE  Cardinality(Holders(v)) = 1 <=> \A u \in Threads : ref[u] = v => u = t
<1>1. ASSUME Cardinality(Holders(v)) = 1, NEW u \in Threads, ref[u] = v
      PROVE  u = t
  <2>1. PICK x : Holders(v) = {x}
    BY <1>1, HoldersFinite, FS_Singleton
  <2>2. QED
    BY <1>1, <2>1 DEF Holders
<1>2. ASSUME \A u \in Threads : ref[u] = v => u = t
      PROVE  Cardinality(Holders(v)) = 1
  <2>1. Holders(v) = {t}
    BY <1>2 DEF Holders
  <2>2. QED
    BY <2>1, FS_Singleton
<1>3. QED
  BY <1>1, <1>2

-----------------------------------------------------------------------------

\* What the types say of the indices.
LEMMA Indices ==
  ASSUME TypeOK
  PROVE  /\ Len(semarray) \in Nat /\ Slots = 1 .. Len(semarray)
         /\ \A i \in Slots : semarray[i] \in Sems \cup {NULL}
         /\ \A i \in 0 .. Len(semarray) : i # 0 => i \in Slots
         /\ \A n \in Names : dents[n] # 0 => dents[n] \in Slots
<1>1. semarray \in Seq(Sems \cup {NULL})
  BY DEF TypeOK
<1>2. /\ Len(semarray) \in Nat /\ Slots = 1 .. Len(semarray)
      /\ \A i \in Slots : semarray[i] \in Sems \cup {NULL}
  BY <1>1 DEF Slots
<1>3. \A n \in Names : dents[n] \in 0 .. Len(semarray)
  BY DEF TypeOK
<1>4. QED
  BY <1>2, <1>3

-----------------------------------------------------------------------------
(* Initially; and steps that stop the kernel or change nothing.            *)

LEMMA InitInv == Init => IInv
<1> SUFFICES ASSUME Init PROVE IInv
  OBVIOUS
<1> USE SemFSAssumption DEF Init
<1>1. TypeOK
  <2>1. semarray = <<>> /\ Len(semarray) = 0 /\ semarray \in Seq(Sems \cup {NULL})
    OBVIOUS
  <2>2. NoSem \in [live : BOOLEAN, hasvnode : BOOLEAN, linked : BOOLEAN,
                   lock : Threads \cup {NULL}, count : 0 .. MaxCount]
    BY DEF NoSem
  <2>3. NoVnode \in [live : BOOLEAN, table : BOOLEAN, semnum : 0 .. Len(semarray), refcount : Nat]
    BY <2>1 DEF NoVnode
  <2>4. "idle" \in Labels
    BY DEF Labels
  <2>5. QED
    BY <2>1, <2>2, <2>3, <2>4 DEF TypeOK
<1>2. \A t \in Threads : pc[t] = "idle" /\ ref[t] = NULL /\ cur[t] = NULL
  OBVIOUS
<1>3. Slots = {} /\ \A v \in Vnodes : vnode[v] = NoVnode
  BY DEF Slots
<1>4. UniqueInTable /\ AssertionsHold /\ TableKnown /\ HasvnodeKnown
  BY <1>3 DEF UniqueInTable, AssertionsHold, TableKnown, HasvnodeKnown, NoVnode
<1>5. LocksHeld /\ RefsKnown /\ RefsLive
  BY <1>2 DEF LocksHeld, RefsKnown, RefsLive, Creating, Removing, Looking, Private, Reclaiming, Using
<1>6. SlotsKnown /\ DentsKnown /\ SemLocks /\ SemsKept
  BY <1>3 DEF SlotsKnown, DentsKnown, SemLocks, SemsKept, NoSem
<1>7. ThreadsKnown
  BY <1>2 DEF ThreadsKnown, Looker, Creator, Remover, Reclaimer, User, Looking, Creating, Removing, Using
<1>8. Counted
  <2>1. ASSUME NEW v \in Vnodes
        PROVE  vnode[v].refcount = Cardinality({t \in Threads : ref[t] = v})
    <3>1. {t \in Threads : ref[t] = v} = {}
      BY <1>2
    <3>2. QED
      BY <3>1, <1>3, FS_EmptySet DEF NoVnode
  <2>2. QED
    BY <2>1 DEF Counted
<1>9. QED
  BY <1>1, <1>4, <1>5, <1>6, <1>7, <1>8 DEF IInv, Intact

\* Once the kernel is broken only the types and the tables' shape matter.
LEMMA BrokenInv ==
  ASSUME TypeOK', UniqueInTable', broken' \notin {"no", "assertion"}
  PROVE  IInv'
BY DEF IInv, AssertionsHold

LEMMA StutterInv == ASSUME IInv, UNCHANGED vars PROVE IInv'
<1> USE DEF vars, locks, tables, locals
<1>1. TypeOK' /\ UniqueInTable' /\ AssertionsHold'
  BY DEF IInv, TypeOK, UniqueInTable, AssertionsHold
<1>2. ASSUME Intact
      PROVE  Intact'
  <2>1. LocksHeld' /\ RefsKnown' /\ TableKnown' /\ HasvnodeKnown' /\ SlotsKnown' /\ DentsKnown'
    BY <1>2 DEF Intact, LocksHeld, RefsKnown, TableKnown, HasvnodeKnown, InTable, SlotsKnown,
                DentsKnown, Slots
  <2>2. ThreadsKnown' /\ SemLocks' /\ SemsKept' /\ Counted' /\ RefsLive'
    BY <1>2 DEF Intact, ThreadsKnown, Looker, Creator, Remover, Reclaimer, User, SemLocks,
                SemsKept, Counted, RefsLive, Slots
  <2>3. QED
    BY <2>1, <2>2 DEF Intact
<1>3. QED
  BY <1>1, <1>2 DEF IInv

-----------------------------------------------------------------------------
(* Steps that leave the tables alone: what threads do with what they know, *)
(* and with the lock and the count of a semaphore.                         *)

\* A thread other than t keeps its locals and its place, unless t wakes it.
OthersStay(t) == \A u \in Threads \ {t} :
  /\ name'[u] = name[u] /\ semnum'[u] = semnum[u] /\ cur'[u] = cur[u]
  /\ pc'[u] = pc[u] \/ (pc[u] = "asleep" /\ pc'[u] = "woken")

SameFlags == \A s \in Sems :
  sem'[s].live = sem[s].live /\ sem'[s].hasvnode = sem[s].hasvnode /\ sem'[s].linked = sem[s].linked

SameTables == SameFlags /\ UNCHANGED <<semarray, dents, vnode, ref, tablelock>>

Busy == Creating \cup Reclaiming

\* The semaphore a thread turns to is none, the one it had, or one that others
\* can see.
Visible(s) ==
  s = NULL \/ \E i \in Slots : s = semarray[i] /\ (sem[s].linked \/ sem[s].hasvnode)

\* What thread t alone has to get right.
Mine(t) ==
  /\ pc[t] \notin Busy /\ pc'[t] \notin Busy
  /\ pc[t] \in Removing => pc'[t] \in Removing /\ name'[t] = name[t] /\ cur'[t] = cur[t]
  /\ pc'[t] \in Using \cup {"reclaim"} => ref[t] # NULL
  /\ pc'[t] = "getvnode" => ref[t] = NULL
  /\ cur'[t] = cur[t] \/ Visible(cur'[t])
  /\ Looker(t)' /\ Remover(t)' /\ User(t)'
  /\ pc'[t] \in Blank => cur'[t] = NULL

LEMMA QuietInv ==
  ASSUME IInv, broken = "no", NEW t \in Threads, TypeOK', broken' # "assertion",
         SameTables, OthersStay(t), Mine(t), LocksHeld', SemLocks'
  PROVE  IInv'
<1> USE DEF IInv, Intact, SameTables
<1>1. UniqueInTable' /\ AssertionsHold' /\ TableKnown'
  BY DEF UniqueInTable, AssertionsHold, TableKnown, Slots
<1>2. Slots' = Slots /\ \A i \in Slots : semarray[i] # NULL => semarray[i] \in Sems
  BY Indices, SemFSAssumption DEF Slots
<1>3. HasvnodeKnown' /\ SlotsKnown'
  BY <1>2 DEF HasvnodeKnown, InTable, SlotsKnown, SameFlags
<1>4. \A u \in Threads : /\ pc'[u] \in Reclaiming <=> pc[u] \in Reclaiming
                         /\ pc'[u] \in Creating <=> pc[u] \in Creating
                         /\ pc[u] \in Removing => pc'[u] \in Removing
                         /\ pc[u] \in Creating \cup Removing \cup Reclaiming =>
                              name'[u] = name[u] /\ cur'[u] = cur[u]
  BY DEF OthersStay, Mine, Busy, Reclaiming, Creating, Removing
<1>5. RefsKnown' /\ RefsLive'
  <2>1. ASSUME NEW u \in Threads \ {t}
        PROVE  /\ pc'[u] \in Private \cup {"getvnode"} => pc[u] \in Private \cup {"getvnode"}
               /\ pc'[u] \in Using \cup Reclaiming \cup {"link", "reclaim"} =>
                    pc[u] \in Using \cup Reclaiming \cup {"link", "reclaim"}
    BY DEF OthersStay, Private, Using, Reclaiming
  <2>2. /\ pc'[t] \in Private \cup {"getvnode"} => ref[t] = NULL
        /\ pc'[t] \in Using \cup Reclaiming \cup {"link", "reclaim"} => ref[t] # NULL
    BY DEF Mine, Busy, Private, Creating
  <2>3. QED
    BY <1>4, <2>1, <2>2 DEF RefsKnown, RefsLive
<1>6. DentsKnown'
  <2>1. \A n \in Names : dents[n] # 0 => dents[n] \in Slots
    BY Indices
  <2>2. ASSUME NEW n \in Names, dents[n] # 0, ~ (semarray[dents[n]] # NULL /\ sem[semarray[dents[n]]].linked)
        PROVE  \E u \in Threads : name'[u] = n /\ pc'[u] \in Creating \cup Removing
    <3>1. PICK u \in Threads : name[u] = n /\ pc[u] \in Creating \cup Removing
      BY <2>2 DEF DentsKnown
    <3>2. name'[u] = n /\ pc'[u] \in Creating \cup Removing
      BY <1>4, <3>1
    <3>3. QED
      BY <3>2
  <2>3. QED
    BY <1>2, <2>1, <2>2 DEF DentsKnown, SameFlags
<1>7. SemsKept'
  <2>1. ASSUME NEW s \in Sems, sem'[s].live,
               ~ ((\E i \in Slots : semarray[i] = s) /\ (sem[s].linked \/ sem[s].hasvnode))
        PROVE  \E u \in Threads : cur'[u] = s /\ pc'[u] \in Creating \cup Removing \cup {"linked?"}
    <3>1. PICK u \in Threads : cur[u] = s /\ pc[u] \in Creating \cup Removing \cup {"linked?"}
      BY <2>1 DEF SemsKept, SameFlags
    <3>2. pc[u] = "linked?" => pc'[u] = "linked?"
      BY DEF OthersStay, Mine, Busy, Reclaiming
    <3>3. cur'[u] = s /\ pc'[u] \in Creating \cup Removing \cup {"linked?"}
      BY <1>4, <3>1, <3>2 DEF Reclaiming
    <3>4. QED
      BY <3>3
  <2>2. QED
    BY <1>2, <2>1 DEF SemsKept, SameFlags
<1>8. Counted'
  BY DEF Counted
<1>9. ASSUME NEW u \in Threads
      PROVE  (Looker(u) /\ Creator(u) /\ Remover(u) /\ Reclaimer(u) /\ User(u))'
  <2>1. CASE u = t
    BY <2>1 DEF Mine, Creator, Reclaimer, Busy, Reclaiming
  <2>2. CASE u # t
    <3>1. /\ name'[u] = name[u] /\ semnum'[u] = semnum[u] /\ cur'[u] = cur[u]
          /\ pc'[u] = pc[u] \/ (pc[u] = "asleep" /\ pc'[u] = "woken")
      BY <2>2 DEF OthersStay
    <3>2. Looker(u) /\ Creator(u) /\ Remover(u) /\ Reclaimer(u) /\ User(u)
      BY DEF ThreadsKnown
    <3>3. Looker(u)'
      BY <1>2, <3>1, <3>2 DEF Looker, Looking, SameFlags
    <3>4. Creator(u)'
      <4>1. SUFFICES ASSUME pc'[u] \in Creating PROVE Creator(u)'
        BY DEF Creator
      <4>2. pc'[u] = pc[u]
        BY <3>1, <4>1 DEF Creating
      <4>3. ASSUME pc[u] # "link", NEW w \in Threads, cur'[w] = cur'[u]
            PROVE  w = u
        <5>1. CASE w # t \/ cur'[t] = cur[t]
          BY <3>1, <3>2, <4>1, <4>2, <4>3, <5>1 DEF Creator, OthersStay
        <5>2. CASE w = t /\ Visible(cur'[t])
          BY <1>2, <3>1, <3>2, <4>1, <4>2, <4>3, <5>2, SemFSAssumption DEF Creator, Visible
        <5>3. QED
          BY <5>1, <5>2 DEF Mine
      <4>4. QED
        BY <1>2, <3>1, <3>2, <4>1, <4>2, <4>3 DEF Creator, SameFlags
    <3>5. Remover(u)'
      <4>1. SUFFICES ASSUME pc'[u] \in Removing PROVE Remover(u)'
        BY DEF Remover
      <4>2. pc'[u] = pc[u]
        BY <3>1, <4>1 DEF Removing
      <4>3. \A w \in Threads : pc[w] = "linked?" => pc'[w] = "linked?" /\ cur'[w] = cur[w]
        BY DEF OthersStay, Mine, Busy, Reclaiming
      <4>4. QED
        BY <1>2, <3>1, <3>2, <4>1, <4>2, <4>3 DEF Remover, SameFlags
    <3>6. Reclaimer(u)'
      BY <1>2, <3>1, <3>2 DEF Reclaimer, SameFlags
    <3>7. User(u)'
      BY <3>1, <3>2 DEF User, Using, SameFlags
    <3>8. QED
      BY <3>3, <3>4, <3>5, <3>6, <3>7
  <2>3. QED
    BY <2>1, <2>2
<1>10. ThreadsKnown'
  BY <1>9 DEF ThreadsKnown, OthersStay, Mine, Blank
<1>11. QED
  BY <1>1, <1>3, <1>5, <1>6, <1>7, <1>8, <1>10

\* No lock of a semaphore passes to anybody but t, who is where he may have it.
LEMMA SemLocksKept ==
  ASSUME SemLocks, NEW t \in Threads, OthersStay(t),
         \A s \in Sems : /\ sem'[s].lock \in {sem[s].lock, NULL, t}
                         /\ sem'[s].lock = t => cur'[t] = s /\ pc'[t] \in Locking
  PROVE  SemLocks'
<1>1. SUFFICES ASSUME NEW s \in Sems, NEW u \in Threads, sem'[s].lock = u
               PROVE  cur'[u] = s /\ pc'[u] \in Locking
  BY DEF SemLocks
<1>2. CASE u = t
  BY <1>1, <1>2
<1>3. CASE u # t
  <2>1. sem[s].lock = u
    BY <1>1, <1>3, SemFSAssumption
  <2>2. cur[u] = s /\ pc[u] \in Locking /\ pc[u] # "asleep"
    BY <2>1 DEF SemLocks, Locking
  <2>3. QED
    BY <1>3, <2>2 DEF OthersStay
<1>4. QED
  BY <1>2, <1>3

\* A thread at work on a semaphore that it has open goes on or ends.
UseFrame(t) ==
  /\ SameTables /\ UNCHANGED dirlock /\ OthersStay(t)
  /\ \A s \in Sems : /\ sem'[s].lock \in {sem[s].lock, NULL, t}
                     /\ sem'[s].lock = t => cur'[t] = s /\ pc'[t] \in Locking
  /\ pc[t] \in Using
  /\ \/ pc'[t] \in Using /\ cur'[t] = cur[t]
     \/ pc'[t] = "idle" /\ cur'[t] = NULL

LEMMA UseInv ==
  ASSUME IInv, broken = "no", NEW t \in Threads, TypeOK', broken' # "assertion", UseFrame(t)
  PROVE  IInv'
<1> USE DEF UseFrame
<1>1. SemLocks'
  BY SemLocksKept DEF IInv, Intact
<1>2. LocksHeld'
  <2>1. \A u \in Threads :
          /\ pc'[u] = pc[u] \/ (pc[u] \in Using /\ pc'[u] \in Using \cup {"idle"})
          /\ tablelock' = tablelock /\ dirlock' = dirlock
    BY DEF OthersStay, SameTables, Using
  <2>2. (Using \cup {"idle"}) \cap (Creating \cup Removing \cup Looking \cup {"linked?"}) = {}
    BY DEF Using, Creating, Removing, Looking
  <2>3. QED
    BY <2>1, <2>2 DEF IInv, Intact, LocksHeld
<1>3. Mine(t)
  <2>1. pc'[t] \in Using \cup {"idle"}
    OBVIOUS
  <2>2. (Using \cup {"idle"}) \cap (Busy \cup Removing \cup Looking \cup {"reclaim"}) = {}
    BY DEF Using, Busy, Creating, Reclaiming, Removing, Looking
  <2>3. Looker(t)' /\ Remover(t)'
    BY <2>1, <2>2 DEF Looker, Remover
  <2>4. User(t) /\ ref[t] # NULL
    BY DEF IInv, Intact, ThreadsKnown, RefsKnown
  <2>5. User(t)'
    <3>1. CASE pc'[t] \in Using
      BY <2>4, <3>1 DEF User, SameTables, SameFlags, Using
    <3>2. CASE pc'[t] \notin Using
      BY <3>2 DEF User
    <3>3. QED
      BY <3>1, <3>2
  <2>6. Using \cap Blank = {} /\ "getvnode" \in Looking
    BY DEF Using, Blank, Looking
  <2>7. pc[t] \notin Busy /\ pc[t] \notin Removing /\ pc'[t] \notin Busy /\ pc'[t] # "getvnode"
    BY <2>1, <2>2, <2>6
  <2>8. cur'[t] = cur[t] \/ Visible(cur'[t])
    BY DEF Visible
  <2>9. pc'[t] \in Blank => cur'[t] = NULL
    BY <2>6
  <2>10. QED
    BY <2>3, <2>4, <2>5, <2>7, <2>8, <2>9 DEF Mine
<1>4. QED
  BY <1>1, <1>2, <1>3, QuietInv

\* The semaphores' types survive a change of one field.
SemType == [live : BOOLEAN, hasvnode : BOOLEAN, linked : BOOLEAN,
            lock : Threads \cup {NULL}, count : 0 .. MaxCount]

LEMMA SemFields ==
  ASSUME sem \in [Sems -> SemType], NEW s \in Sems
  PROVE  /\ \A l \in Threads \cup {NULL} :
              /\ [sem EXCEPT ![s].lock = l] \in [Sems -> SemType]
              /\ \A r \in Sems : [sem EXCEPT ![s].lock = l][r] =
                   IF r = s THEN [sem[s] EXCEPT !.lock = l] ELSE sem[r]
         /\ \A c \in 0 .. MaxCount :
              /\ [sem EXCEPT ![s].count = c] \in [Sems -> SemType]
              /\ \A r \in Sems : [sem EXCEPT ![s].count = c][r] =
                   IF r = s THEN [sem[s] EXCEPT !.count = c] ELSE sem[r]
BY DEF SemType

LEMMA TypesKept ==
  ASSUME TypeOK, UNCHANGED <<dirlock, tablelock, semarray, dents, vnode, ref>>,
         sem' \in [Sems -> SemType], pc' \in [Threads -> Labels],
         name' \in [Threads -> Names \cup {NULL}], semnum' \in [Threads -> 0 .. Len(semarray)],
         cur' \in [Threads -> Sems \cup {NULL}], units' \in [Threads -> 0 .. MaxCount],
         broken' \in {"no", "assertion", "destroyed", "no vnode", "cv"}
  PROVE  TypeOK'
BY DEF TypeOK, SemType

\* What a thread at work knows.
LEMMA UserKnows ==
  ASSUME IInv, broken = "no", NEW t \in Threads, pc[t] \in Using
  PROVE  /\ TypeOK /\ sem \in [Sems -> SemType] /\ pc \in [Threads -> Labels]
         /\ cur[t] \in Sems /\ sem[cur[t]].live /\ sem[cur[t]].hasvnode
         /\ units[t] \in 0 .. MaxCount /\ sem[cur[t]].count \in 0 .. MaxCount
         /\ \A s \in Sems : sem[s].lock = t => cur[t] = s /\ pc[t] \in Locking
         /\ \A s \in Sems : sem[s].lock = NULL \/ sem[s].lock \in Threads
<1>1. /\ TypeOK /\ sem \in [Sems -> SemType] /\ pc \in [Threads -> Labels]
      /\ units \in [Threads -> 0 .. MaxCount]
  BY DEF IInv, TypeOK, SemType
<1>2. cur[t] \in Sems /\ sem[cur[t]].live /\ sem[cur[t]].hasvnode
  BY DEF IInv, Intact, ThreadsKnown, User
<1>3. \A s \in Sems : sem[s].lock = t => cur[t] = s /\ pc[t] \in Locking
  BY DEF IInv, Intact, SemLocks
<1>4. \A s \in Sems : sem[s].lock \in Threads \cup {NULL} /\ sem[s].count \in 0 .. MaxCount
  BY <1>1 DEF SemType
<1>5. QED
  BY <1>1, <1>2, <1>3, <1>4

LEMMA LockInv ==
  ASSUME IInv, NEW t \in Threads, NEW label \in {"read", "write", "truncate"},
         NEW next \in {"test", "add", "set"}, Lock(t, label, next)
  PROVE  IInv'
<1> USE DEF Lock, At, Goto
<1>1. pc[t] \in Using /\ next \in Using \cap Locking /\ next \in Labels
  BY DEF Using, Locking, Labels
<1>2. /\ sem' \in [Sems -> SemType]
      /\ \A s \in Sems : sem'[s] = IF s = cur[t] THEN [sem[s] EXCEPT !.lock = t] ELSE sem[s]
  BY <1>1, UserKnows, SemFields
<1>3. TypeOK'
  BY <1>1, <1>2, UserKnows, TypesKept DEF TypeOK, locks, locals
<1>4. UseFrame(t)
  <2>1. SameTables /\ UNCHANGED dirlock
    BY <1>1, <1>2, UserKnows DEF SameTables, SameFlags, locks, locals, SemType
  <2>2. OthersStay(t)
    BY <1>1, UserKnows DEF OthersStay, locals
  <2>3. pc'[t] = next /\ cur'[t] = cur[t]
    BY <1>1, UserKnows DEF locals
  <2>4. \A s \in Sems : /\ sem'[s].lock \in {sem[s].lock, NULL, t}
                        /\ sem'[s].lock = t => cur'[t] = s
    BY <1>1, <1>2, <2>3, UserKnows DEF SemType
  <2>5. QED
    BY <1>1, <2>1, <2>2, <2>3, <2>4 DEF UseFrame
<1>5. QED
  BY <1>3, <1>4, UseInv

\* Steps of one thread that leave the locks alone, or give one up.
LEMMA WorkInv ==
  ASSUME IInv, broken = "no", broken' = "no", NEW t \in Threads, pc[t] \in Using,
         NEW next \in Using \cup {"idle"}, pc' = [pc EXCEPT ![t] = next],
         UNCHANGED <<locks, semarray, dents, vnode, ref>>,
         sem' \in [Sems -> SemType],
         \A s \in Sems : sem'[s].live = sem[s].live /\ sem'[s].hasvnode = sem[s].hasvnode
                           /\ sem'[s].linked = sem[s].linked,
         \A s \in Sems : sem'[s].lock \in {sem[s].lock, NULL},
         next \in Locking \/ \A s \in Sems : sem'[s].lock # t,
         units' \in [Threads -> 0 .. MaxCount],
         \/ next # "idle" /\ UNCHANGED <<name, semnum, cur>>
         \/ next = "idle" /\ Set(t, NULL, 0, NULL)
  PROVE  IInv'
<1>1. pc'[t] = next /\ next \in Labels /\ \A u \in Threads \ {t} : pc'[u] = pc[u]
  BY UserKnows DEF Labels
<1>2. /\ cur'[t] = IF next = "idle" THEN NULL ELSE cur[t]
      /\ \A u \in Threads \ {t} : name'[u] = name[u] /\ semnum'[u] = semnum[u] /\ cur'[u] = cur[u]
      /\ name' \in [Threads -> Names \cup {NULL}] /\ semnum' \in [Threads -> 0 .. Len(semarray)]
      /\ cur' \in [Threads -> Sems \cup {NULL}]
  <2>1. /\ name \in [Threads -> Names \cup {NULL}] /\ semnum \in [Threads -> 0 .. Len(semarray)]
        /\ cur \in [Threads -> Sems \cup {NULL}] /\ 0 \in 0 .. Len(semarray)
    <3>1. TypeOK
      BY DEF IInv
    <3>2. 0 \in 0 .. Len(semarray)
      BY <3>1, Indices
    <3>3. QED
      BY <3>1, <3>2 DEF TypeOK
  <2>2. CASE next # "idle"
    BY <2>1, <2>2
  <2>3. CASE next = "idle"
    BY <2>1, <2>3 DEF Set
  <2>4. QED
    BY <2>2, <2>3
<1>3. TypeOK'
  BY <1>1, <1>2, UserKnows, TypesKept DEF locks
<1>4. UseFrame(t)
  <2>1. SameTables /\ UNCHANGED dirlock
    BY DEF SameTables, SameFlags, locks
  <2>2. OthersStay(t)
    BY <1>1, <1>2 DEF OthersStay
  <2>3. \A s \in Sems : /\ sem'[s].lock \in {sem[s].lock, NULL, t}
                        /\ sem'[s].lock = t => cur'[t] = s /\ pc'[t] \in Locking
    <3>1. ASSUME NEW s \in Sems, sem'[s].lock = t
          PROVE  cur'[t] = s /\ pc'[t] \in Locking
      <4>1. sem[s].lock = t /\ cur[t] = s
        BY <3>1, UserKnows, SemFSAssumption
      <4>2. next \in Locking /\ next # "idle"
        BY <3>1 DEF Locking
      <4>3. QED
        BY <1>1, <1>2, <4>1, <4>2
    <3>2. QED
      BY <3>1
  <2>4. QED
    BY <1>1, <1>2, <2>1, <2>2, <2>3 DEF UseFrame
<1>5. QED
  BY <1>3, <1>4, UseInv

LEMMA ReadInv ==
  ASSUME IInv, NEW t \in Threads,
         ReadTest(t) \/ ReadTake(t) \/ ReadEmpty(t) \/ ReadSleep(t) \/ Store(t)
  PROVE  IInv'
<1> USE DEF At, Goto, Keep
<1>1. pc[t] \in Using /\ broken = "no"
  BY DEF ReadTest, ReadTake, ReadEmpty, ReadSleep, Store, Using
<1>2. /\ sem \in [Sems -> SemType] /\ cur[t] \in Sems
      /\ sem[cur[t]].count \in 0 .. MaxCount /\ units[t] \in 0 .. MaxCount
      /\ units \in [Threads -> 0 .. MaxCount] /\ 0 \in 0 .. MaxCount
      /\ \A s \in Sems : sem[s].lock = t => cur[t] = s /\ pc[t] \in Locking
  BY <1>1, UserKnows, SemFSAssumption DEF IInv, TypeOK
<1>3. {"take", "release", "sleep", "asleep", "read"} \subseteq Using
      /\ {"take", "release"} \subseteq Locking /\ NULL \notin Threads
  BY SemFSAssumption DEF Using, Locking
<1>4. CASE ReadTest(t)
  BY <1>1, <1>2, <1>3, <1>4, WorkInv DEF ReadTest, locks, tables
<1>5. CASE ReadTake(t)
  <2>1. PICK c \in {units[t], sem[cur[t]].count} :
          sem' = [sem EXCEPT ![cur[t]].count = (c + MaxCount) % (MaxCount + 1)]
    BY <1>5 DEF ReadTake
  <2>2. (c + MaxCount) % (MaxCount + 1) \in 0 .. MaxCount
    BY <1>2, SemFSAssumption
  <2>3. /\ sem' \in [Sems -> SemType]
        /\ \A s \in Sems : /\ sem'[s].live = sem[s].live /\ sem'[s].hasvnode = sem[s].hasvnode
                           /\ sem'[s].linked = sem[s].linked /\ sem'[s].lock = sem[s].lock
    BY <1>2, <2>1, <2>2 DEF SemType
  <2>4. QED
    BY <1>1, <1>2, <1>3, <1>5, <2>3, WorkInv DEF ReadTake, locks
<1>6. CASE ReadEmpty(t)
  <2>1. CASE sem[cur[t]].lock = t
    <3>1. /\ sem' \in [Sems -> SemType]
          /\ \A s \in Sems : /\ sem'[s].live = sem[s].live /\ sem'[s].hasvnode = sem[s].hasvnode
                             /\ sem'[s].linked = sem[s].linked
                             /\ sem'[s].lock = IF s = cur[t] THEN NULL ELSE sem[s].lock
      BY <1>2, <1>6, <2>1 DEF ReadEmpty, SemType
    <3>2. \A s \in Sems : sem'[s].lock # t
      BY <1>2, <1>3, <3>1
    <3>3. QED
      BY <1>1, <1>2, <1>3, <1>6, <2>1, <3>1, <3>2, WorkInv DEF ReadEmpty, locks, locals
  <2>2. CASE sem[cur[t]].lock # t
    <3>1. \A s \in Sems : sem[s].lock # t
      BY <1>2, <2>2
    <3>2. QED
      BY <1>1, <1>2, <1>3, <1>6, <2>2, <3>1, WorkInv DEF ReadEmpty, locks, locals
  <2>3. QED
    BY <2>1, <2>2
<1>7. CASE ReadSleep(t)
  <2>1. \A s \in Sems : sem[s].lock # t
    BY <1>2, <1>7 DEF ReadSleep, Locking
  <2>2. QED
    BY <1>1, <1>2, <1>3, <1>7, <2>1, WorkInv DEF ReadSleep, locks, tables, locals
<1>8. CASE Store(t)
  <2>1. /\ sem' \in [Sems -> SemType]
        /\ \A s \in Sems : /\ sem'[s].live = sem[s].live /\ sem'[s].hasvnode = sem[s].hasvnode
                           /\ sem'[s].linked = sem[s].linked /\ sem'[s].lock = sem[s].lock
    BY <1>2, <1>8 DEF Store, SemType
  <2>2. QED
    BY <1>1, <1>2, <1>3, <1>8, <2>1, WorkInv DEF Store, locks
<1>9. QED
  BY <1>4, <1>5, <1>6, <1>7, <1>8

\* lock_release at the end of a read, a write or a truncate.
LEMMA ReleaseInv ==
  ASSUME IInv, NEW t \in Threads, ReadWriteEnds(t) \/ WriteOverflows(t)
  PROVE  IInv'
<1> USE DEF At, Goto
<1>1. pc[t] \in Using /\ broken = "no" /\ Release(t)
  BY DEF ReadWriteEnds, WriteOverflows, Using
<1>2. /\ sem \in [Sems -> SemType] /\ cur[t] \in Sems
      /\ units \in [Threads -> 0 .. MaxCount] /\ 0 \in 0 .. MaxCount
      /\ \A s \in Sems : sem[s].lock = t => cur[t] = s
      /\ NULL \notin Threads
  BY <1>1, UserKnows, SemFSAssumption DEF IInv, TypeOK
<1>3. /\ sem' \in [Sems -> SemType]
      /\ \A s \in Sems : /\ sem'[s].live = sem[s].live /\ sem'[s].hasvnode = sem[s].hasvnode
                         /\ sem'[s].linked = sem[s].linked
                         /\ sem'[s].lock = IF s = cur[t] THEN NULL ELSE sem[s].lock
  BY <1>1, <1>2 DEF Release, SemType
<1>4. \A s \in Sems : sem'[s].lock # t
  BY <1>2, <1>3
<1>5. QED
  BY <1>1, <1>2, <1>3, <1>4, WorkInv DEF Release, Idle, locks

\* semfs_wakeup, before the count is stored.
LEMMA WakeupInv ==
  ASSUME IInv, NEW t \in Threads, pc[t] \in {"add", "set"}, broken = "no",
         NEW new \in 0 .. MaxCount, Wakeup(t, new)
  PROVE  IInv'
<1>1. pc[t] \in Using /\ "store" \in Using \cap Locking
  BY DEF Using, Locking
<1>2. /\ sem \in [Sems -> SemType] /\ cur[t] \in Sems /\ pc \in [Threads -> Labels]
      /\ units' \in [Threads -> 0 .. MaxCount] /\ NULL \notin Threads
      /\ \A s \in Sems : sem[s].lock = t => cur[t] = s
  BY <1>1, UserKnows, SemFSAssumption DEF IInv, TypeOK, Wakeup
<1>3. UNCHANGED <<locks, semarray, dents, vnode, ref, name, semnum, cur>>
  BY DEF Wakeup
<1>4. CASE Goto(t, "store") /\ UNCHANGED <<sem, broken>>
  BY <1>1, <1>2, <1>3, <1>4, WorkInv DEF Goto
<1>5. CASE broken' = "cv" /\ UNCHANGED <<pc, sem>>
  <2>1. TypeOK'
    BY <1>2, <1>3, <1>5, TypesKept DEF IInv, TypeOK, locks
  <2>2. UniqueInTable'
    BY <1>3 DEF IInv, UniqueInTable
  <2>3. QED
    BY <1>5, <2>1, <2>2, BrokenInv
<1>6. CASE /\ sem' = [sem EXCEPT ![cur[t]].lock = NULL] /\ UNCHANGED broken
           /\ IF Sleepers(cur[t]) = {} THEN Goto(t, "store")
              ELSE \E u \in Sleepers(cur[t]) : pc' = [pc EXCEPT ![t] = "store", ![u] = "woken"]
  <2>1. /\ sem' \in [Sems -> SemType]
        /\ \A s \in Sems : /\ sem'[s].live = sem[s].live /\ sem'[s].hasvnode = sem[s].hasvnode
                           /\ sem'[s].linked = sem[s].linked
                           /\ sem'[s].lock = IF s = cur[t] THEN NULL ELSE sem[s].lock
    BY <1>2, <1>6 DEF SemType
  <2>2. /\ pc' \in [Threads -> Labels] /\ pc'[t] = "store"
        /\ \A u \in Threads \ {t} : pc'[u] = pc[u] \/ (pc[u] = "asleep" /\ pc'[u] = "woken")
    <3>1. {"store", "woken"} \subseteq Labels
      BY DEF Labels, Using
    <3>2. CASE Sleepers(cur[t]) = {}
      BY <1>2, <1>6, <3>1, <3>2 DEF Goto
    <3>3. CASE Sleepers(cur[t]) # {}
      <4>1. PICK u \in Sleepers(cur[t]) : pc' = [pc EXCEPT ![t] = "store", ![u] = "woken"]
        BY <1>6, <3>3
      <4>2. u \in Threads /\ u # t /\ pc[u] = "asleep"
        BY <4>1 DEF Sleepers
      <4>3. QED
        BY <1>2, <3>1, <4>1, <4>2
    <3>4. QED
      BY <3>2, <3>3
  <2>3. TypeOK'
    BY <1>2, <1>3, <1>6, <2>1, <2>2, TypesKept DEF IInv, TypeOK, locks
  <2>4. UseFrame(t)
    <3>1. SameTables /\ UNCHANGED dirlock /\ OthersStay(t)
      BY <1>3, <2>1, <2>2 DEF SameTables, SameFlags, OthersStay, locks
    <3>2. \A s \in Sems : /\ sem'[s].lock \in {sem[s].lock, NULL, t}
                          /\ sem'[s].lock = t => cur'[t] = s /\ pc'[t] \in Locking
      BY <1>1, <1>2, <1>3, <2>1, <2>2
    <3>3. QED
      BY <1>1, <1>3, <2>2, <3>1, <3>2 DEF UseFrame
  <2>5. QED
    BY <1>6, <2>3, <2>4, UseInv
<1>7. QED
  BY <1>4, <1>5, <1>6 DEF Wakeup

-----------------------------------------------------------------------------
(* Steps that change nothing but what thread t knows and its hold of the   *)
(* directory.                                                              *)

DirHolding == Creating \cup Removing \cup Looking

LEMMA LocksKept ==
  ASSUME LocksHeld, NEW t \in Threads, \A u \in Threads \ {t} : pc'[u] = pc[u],
         dirlock' = IF pc'[t] \in DirHolding THEN t ELSE IF dirlock = t THEN NULL ELSE dirlock,
         pc'[t] \in DirHolding => dirlock \in {NULL, t},
         tablelock' = IF pc'[t] = "linked?" THEN t ELSE IF tablelock = t THEN NULL ELSE tablelock,
         pc'[t] = "linked?" => tablelock \in {NULL, t}
  PROVE  LocksHeld'
BY SemFSAssumption DEF LocksHeld, DirHolding

\* A vnode that a thread refers to, and has not taken out of the table, stands
\* for a semaphore that is there.
LEMMA RefKnows ==
  ASSUME IInv, broken = "no", NEW t \in Threads, ref[t] # NULL, pc[t] \notin Reclaiming
  PROVE  /\ ref[t] \in Vnodes /\ vnode[ref[t]].live /\ vnode[ref[t]].table
         /\ vnode[ref[t]].semnum \in Slots
         /\ semarray[vnode[ref[t]].semnum] \in Sems
         /\ sem[semarray[vnode[ref[t]].semnum]].hasvnode
         /\ sem[semarray[vnode[ref[t]].semnum]].live
<1> USE DEF IInv, Intact
<1>1. ref[t] \in Vnodes /\ vnode[ref[t]].live /\ vnode[ref[t]].table
  BY DEF TypeOK, RefsKnown, RefsLive
<1>2. vnode[ref[t]].semnum \in Slots /\ semarray[vnode[ref[t]].semnum] # NULL
  BY <1>1 DEF TableKnown
<1>3. semarray[vnode[ref[t]].semnum] \in Sems
  BY <1>2, Indices
<1>4. sem[semarray[vnode[ref[t]].semnum]].hasvnode /\ sem[semarray[vnode[ref[t]].semnum]].live
  BY <1>1, <1>2 DEF HasvnodeKnown, InTable, SlotsKnown
<1>5. QED
  BY <1>1, <1>2, <1>3, <1>4

LEMMA LocalInv ==
  ASSUME IInv, broken = "no", NEW t \in Threads,
         NEW l \in Labels, pc' = [pc EXCEPT ![t] = l],
         name' \in [Threads -> Names \cup {NULL}], semnum' \in [Threads -> 0 .. Len(semarray)],
         cur' \in [Threads -> Sems \cup {NULL}], units' \in [Threads -> 0 .. MaxCount],
         \A u \in Threads \ {t} : name'[u] = name[u] /\ semnum'[u] = semnum[u] /\ cur'[u] = cur[u],
         UNCHANGED <<tables, ref, tablelock, broken>>,
         Mine(t),
         dirlock' = IF l \in DirHolding THEN t ELSE IF dirlock = t THEN NULL ELSE dirlock,
         l \in DirHolding => dirlock \in {NULL, t},
         pc[t] \in Locking => l \in Locking /\ cur'[t] = cur[t]
  PROVE  IInv'
<1> USE DEF tables
<1>1. TypeOK
  BY DEF IInv
<1>2. pc'[t] = l /\ \A u \in Threads \ {t} : pc'[u] = pc[u]
  BY <1>1 DEF TypeOK
<1>3. TypeOK'
  <2>1. {dirlock', tablelock'} \subseteq Threads \cup {NULL}
    BY <1>1 DEF TypeOK
  <2>2. QED
    BY <1>1, <2>1 DEF TypeOK
<1>4. SameTables /\ OthersStay(t)
  BY <1>2 DEF SameTables, SameFlags, OthersStay
<1>5. LocksHeld'
  <2>1. l # "linked?" /\ pc[t] # "linked?"
    BY <1>2 DEF Mine, Busy, Reclaiming
  <2>2. tablelock # t
    BY <2>1 DEF IInv, Intact, LocksHeld
  <2>3. LocksHeld
    BY DEF IInv, Intact
  <2>4. QED
    BY <1>2, <2>1, <2>2, <2>3, LocksKept
<1>6. SemLocks'
  <2>1. \A s \in Sems : /\ sem'[s].lock \in {sem[s].lock, NULL, t}
                        /\ sem'[s].lock = t => cur'[t] = s /\ pc'[t] \in Locking
    BY <1>2 DEF IInv, Intact, SemLocks
  <2>2. QED
    BY <1>4, <2>1, SemLocksKept DEF IInv, Intact
<1>7. broken' # "assertion"
  OBVIOUS
<1>8. QED
  BY <1>3, <1>4, <1>5, <1>6, <1>7, QuietInv

LEMMA GetsemInv ==
  ASSUME IInv, NEW t \in Threads, ReadGetsem(t) \/ WriteGetsem(t) \/ TruncateGetsem(t)
  PROVE  IInv'
<1>1. PICK l \in {"read", "write", "truncate"}, n \in 0 .. MaxCount : Getsem(t, l, n)
  BY SemFSAssumption DEF ReadGetsem, WriteGetsem, TruncateGetsem
<1> USE DEF Getsem, At, Goto
<1> DEFINE s == semarray[vnode[ref[t]].semnum]
<1>2. /\ pc[t] = "idle" /\ ref[t] # NULL /\ broken = "no" /\ TypeOK
      /\ cur' = [cur EXCEPT ![t] = s] /\ pc' = [pc EXCEPT ![t] = l]
      /\ l \in Using /\ l \in Labels /\ l \notin DirHolding /\ "idle" \notin Locking
  BY <1>1 DEF IInv, Using, Labels, DirHolding, Creating, Removing, Looking, Locking
<1>3. s \in Sems /\ sem[s].hasvnode /\ sem[s].live /\ vnode[ref[t]].semnum \in Slots
  BY <1>2, RefKnows DEF Reclaiming
<1>4. Mine(t)
  <2>1. /\ pc'[t] = l /\ cur'[t] = s
        /\ UNCHANGED <<tables, ref>>
    BY <1>1, <1>2 DEF TypeOK
  <2>2. User(t)'
    BY <1>2, <1>3, <2>1 DEF User, tables
  <2>3. Looker(t)' /\ Remover(t)'
    BY <1>2, <2>1 DEF Looker, Remover, DirHolding
  <2>4. /\ l \notin Busy \cup Removing \cup Blank \cup {"getvnode"}
        /\ "idle" \notin Busy \cup Removing
    BY DEF Busy, Creating, Reclaiming, Removing, Blank
  <2>5. Visible(cur'[t])
    BY <1>3, <2>1 DEF Visible
  <2>6. QED
    BY <1>2, <2>1, <2>2, <2>3, <2>4, <2>5 DEF Mine
<1>5. dirlock # t
  BY <1>2 DEF IInv, Intact, LocksHeld, Creating, Removing, Looking
<1>6. /\ cur' \in [Threads -> Sems \cup {NULL}] /\ units' \in [Threads -> 0 .. MaxCount]
      /\ name' \in [Threads -> Names \cup {NULL}] /\ semnum' \in [Threads -> 0 .. Len(semarray)]
      /\ \A u \in Threads \ {t} : name'[u] = name[u] /\ semnum'[u] = semnum[u] /\ cur'[u] = cur[u]
  BY <1>1, <1>2, <1>3 DEF TypeOK
<1>7. UNCHANGED <<tables, ref, tablelock, broken, dirlock>>
  BY <1>1 DEF locks
<1>8. QED
  BY <1>2, <1>4, <1>5, <1>6, <1>7, LocalInv

\* cv_wait's panic.
LEMMA ReadWokenInv ==
  ASSUME IInv, NEW t \in Threads, ReadWoken(t) PROVE IInv'
<1> USE DEF ReadWoken, locks, tables, locals
<1>1. TypeOK' /\ UniqueInTable'
  BY DEF IInv, TypeOK, UniqueInTable
<1>2. QED
  BY <1>1, BrokenInv

LEMMA UseStepInv == ASSUME IInv, NEW t \in Threads, Use(t) PROVE IInv'
<1>1. \/ ReadGetsem(t) \/ WriteGetsem(t) \/ TruncateGetsem(t)
      \/ ReadTest(t) \/ ReadTake(t) \/ ReadEmpty(t) \/ ReadSleep(t) \/ Store(t)
      \/ ReadLock(t) \/ WriteLock(t) \/ TruncateLock(t)
      \/ ReadWriteEnds(t) \/ WriteOverflows(t) \/ ReadWoken(t)
      \/ Write(t) \/ Truncate(t)
  BY DEF Use
<1>2. ASSUME Write(t) \/ Truncate(t) PROVE IInv'
  <2>1. pc[t] \in {"add", "set"} /\ broken = "no" /\ pc[t] \in Using
    BY <1>2 DEF Write, Truncate, At, Using
  <2>2. units[t] \in 0 .. MaxCount /\ sem[cur[t]].count \in 0 .. MaxCount
    BY <2>1, UserKnows
  <2>3. PICK new \in 0 .. MaxCount : Wakeup(t, new)
    BY <1>2, <2>2, SemFSAssumption DEF Write, Truncate
  <2>4. QED
    BY <2>1, <2>3, WakeupInv
<1>3. QED
  BY <1>1, <1>2, GetsemInv, ReadInv, LockInv, ReleaseInv, ReadWokenInv
     DEF ReadLock, WriteLock, TruncateLock

\* One thread at a time is in the directory; with nobody there, an entry
\* stands for a semaphore in the table that is linked.
LEMMA OneInDir ==
  ASSUME IInv, broken = "no"
  PROVE  /\ \A t, u \in Threads : pc[t] \in DirHolding /\ pc[u] \in DirHolding => t = u
         /\ \A t \in Threads : pc[t] \in DirHolding <=> dirlock = t
         /\ dirlock = NULL =>
              \A n \in Names : dents[n] # 0 =>
                /\ dents[n] \in Slots /\ semarray[dents[n]] # NULL
                /\ sem[semarray[dents[n]]].linked
<1>1. \A t \in Threads : pc[t] \in DirHolding <=> dirlock = t
  BY DEF IInv, Intact, LocksHeld, DirHolding
<1>2. ASSUME dirlock = NULL, NEW n \in Names, dents[n] # 0
      PROVE  /\ dents[n] \in Slots /\ semarray[dents[n]] # NULL
             /\ sem[semarray[dents[n]]].linked
  <2>1. \A t \in Threads : pc[t] \notin Creating \cup Removing
    BY <1>1, <1>2, SemFSAssumption DEF DirHolding
  <2>2. semarray[dents[n]] # NULL /\ sem[semarray[dents[n]]].linked
    BY <1>2, <2>1 DEF IInv, Intact, DentsKnown
  <2>3. QED
    BY <1>2, <2>2, Indices DEF IInv
<1>3. QED
  BY <1>1, <1>2

\* A lookup or a remove finds the name.
LEMMA FoundInv ==
  ASSUME IInv, NEW t \in Threads, LookupFound(t) \/ RemoveFound(t)
  PROVE  IInv'
<1> USE DEF At, Goto
<1>1. PICK l \in {"getvnode", "getsem"}, n \in Names :
        /\ pc[t] = "idle" /\ broken = "no" /\ dirlock = NULL
        /\ l = "getvnode" => ref[t] = NULL
        /\ dents[n] # 0 /\ Set(t, n, dents[n], NULL)
        /\ dirlock' = t /\ pc' = [pc EXCEPT ![t] = l]
        /\ UNCHANGED <<tablelock, tables, ref, units, broken>>
  BY DEF LookupFound, RemoveFound
<1>2. TypeOK /\ dents[n] \in 0 .. Len(semarray)
  BY <1>1 DEF IInv, TypeOK
<1>3. /\ dents[n] \in Slots /\ semarray[dents[n]] # NULL /\ sem[semarray[dents[n]]].linked
  BY <1>1, OneInDir
<1>4. /\ name' \in [Threads -> Names \cup {NULL}] /\ semnum' \in [Threads -> 0 .. Len(semarray)]
      /\ cur' \in [Threads -> Sems \cup {NULL}] /\ units' \in [Threads -> 0 .. MaxCount]
      /\ \A u \in Threads \ {t} : name'[u] = name[u] /\ semnum'[u] = semnum[u] /\ cur'[u] = cur[u]
      /\ name'[t] = n /\ semnum'[t] = dents[n] /\ cur'[t] = NULL /\ pc'[t] = l
  BY <1>1, <1>2 DEF Set, TypeOK
<1>5. Mine(t)
  <2>1. Looker(t)'
    BY <1>1, <1>3, <1>4 DEF Looker, tables, Slots
  <2>2. /\ l \notin Busy \cup Removing \cup Using \cup {"reclaim"}
        /\ "idle" \notin Busy \cup Removing
    BY DEF Busy, Creating, Reclaiming, Removing, Using
  <2>3. Remover(t)' /\ User(t)'
    BY <1>4, <2>2 DEF Remover, User
  <2>4. QED
    BY <1>1, <1>4, <2>1, <2>2, <2>3 DEF Mine, Visible
<1>6. l \in Labels /\ l \in DirHolding /\ "idle" \notin Locking
  BY DEF Labels, DirHolding, Looking, Locking
<1>7. QED
  BY <1>1, <1>4, <1>5, <1>6, LocalInv

LEMMA DecrefLastInv == ASSUME IInv, NEW t \in Threads, DecrefLast(t) PROVE IInv'
<1> USE DEF DecrefLast, At, Goto, locals, locks
<1>1. TypeOK /\ pc'[t] = "reclaim"
  BY DEF IInv, TypeOK
<1>2. Mine(t)
  <2>1. /\ {"idle", "reclaim"} \cap (Busy \cup Removing \cup Using \cup Looking) = {}
        /\ "idle" \in Blank
    BY DEF Busy, Creating, Reclaiming, Removing, Using, Looking, Blank
  <2>2. Looker(t)' /\ Remover(t)' /\ User(t)'
    BY <1>1, <2>1 DEF Looker, Remover, User
  <2>3. cur[t] = NULL
    BY <2>1 DEF IInv, Intact, ThreadsKnown
  <2>4. QED
    BY <1>1, <2>1, <2>2, <2>3 DEF Mine
<1>3. "reclaim" \in Labels /\ {"idle", "reclaim"} \cap (Locking \cup DirHolding) = {}
  BY DEF Labels, Locking, DirHolding, Creating, Removing, Looking
<1>4. dirlock # t
  BY <1>3, OneInDir
<1>5. QED
  BY <1>1, <1>2, <1>3, <1>4, LocalInv DEF TypeOK

\* semfs_getsem for a remove.
LEMMA RemoveGetsemInv == ASSUME IInv, NEW t \in Threads, RemoveGetsem(t) PROVE IInv'
<1> USE DEF RemoveGetsem, At, Goto
<1>1. TypeOK /\ pc'[t] = "unlink"
  BY DEF IInv, TypeOK
<1>2. Looker(t) /\ pc[t] \in Looking
  BY DEF IInv, Intact, ThreadsKnown, Looking
<1>3. semarray[semnum[t]] \in Sems
  BY <1>1, <1>2, Indices DEF Looker
<1>4. /\ cur' \in [Threads -> Sems \cup {NULL}] /\ cur'[t] = semarray[semnum[t]]
      /\ \A u \in Threads \ {t} : cur'[u] = cur[u]
  BY <1>1, <1>3 DEF TypeOK
<1>5. Mine(t)
  <2>1. Looker(t)'
    BY <1>1, <1>2, <1>4 DEF Looker, Slots, tables
  <2>2. /\ "unlink" \notin Busy \cup Removing \cup Using \cup Blank
        /\ "getsem" \notin Busy \cup Removing
    BY DEF Busy, Creating, Reclaiming, Removing, Using, Blank
  <2>3. Remover(t)' /\ User(t)'
    BY <1>1, <2>2 DEF Remover, User
  <2>4. Visible(cur'[t])
    BY <1>2, <1>4 DEF Visible, Looker
  <2>5. QED
    BY <1>1, <2>1, <2>2, <2>3, <2>4 DEF Mine
<1>6. "unlink" \in Labels /\ {"getsem", "unlink"} \subseteq DirHolding /\ "getsem" \notin Locking
  BY DEF Labels, DirHolding, Looking, Locking
<1>7. dirlock = t
  BY <1>6, OneInDir
<1>8. QED
  BY <1>1, <1>4, <1>5, <1>6, <1>7, LocalInv DEF TypeOK, locks

\* sems_hasvnode is looked at.
LEMMA RemoveLookInv ==
  ASSUME IInv, NEW t \in Threads, RemoveOpen(t) \/ RemoveClosed(t) PROVE IInv'
<1>1. PICK l \in {"unlock", "empty"} :
        /\ pc[t] = "hasvnode?" /\ broken = "no" /\ pc' = [pc EXCEPT ![t] = l]
        /\ l = "unlock" <=> sem[cur[t]].hasvnode
        /\ UNCHANGED <<locks, tables, locals, broken>>
  BY DEF RemoveOpen, RemoveClosed, At, Goto
<1>2. TypeOK /\ pc'[t] = l
  BY <1>1 DEF IInv, TypeOK
<1>3. Mine(t)
  <2>1. /\ {"hasvnode?", "unlock", "empty"} \subseteq Removing
        /\ {"hasvnode?", "unlock", "empty"} \cap (Busy \cup Using \cup Looking \cup Blank \cup {"reclaim"}) = {}
    BY DEF Removing, Busy, Creating, Reclaiming, Using, Looking, Blank
  <2>2. Looker(t)' /\ User(t)'
    BY <1>2, <2>1 DEF Looker, User
  <2>3. Remover(t)
    BY <1>1 DEF IInv, Intact, ThreadsKnown
  <2>4. Remover(t)'
    BY <1>1, <1>2, <2>1, <2>3 DEF Remover, Slots, tables, locals
  <2>5. QED
    BY <1>1, <1>2, <2>1, <2>2, <2>4 DEF Mine, locals, Blank, Looking
<1>4. l \in Labels /\ {"hasvnode?", "unlock", "empty"} \subseteq DirHolding /\ l \in Locking
  BY DEF Labels, DirHolding, Removing, Locking
<1>5. dirlock = t
  BY <1>1, <1>4, OneInDir
<1>6. QED
  BY <1>1, <1>2, <1>3, <1>4, <1>5, LocalInv DEF TypeOK, locks, locals

-----------------------------------------------------------------------------
(* Steps of the thread in the directory that change one semaphore s, one   *)
(* slot i and one entry n, all three its own.                              *)

OthersKeep(t) == \A u \in Threads \ {t} :
  name'[u] = name[u] /\ semnum'[u] = semnum[u] /\ cur'[u] = cur[u] /\ pc'[u] = pc[u]

DirFrame(t) ==
  /\ UNCHANGED <<vnode, ref, tablelock>> /\ OthersKeep(t)
  /\ pc[t] \in DirHolding \/ (dirlock = NULL /\ pc[t] = "idle")
  /\ pc'[t] \in DirHolding \cup {"idle"}
  /\ dirlock' = IF pc'[t] \in DirHolding THEN t ELSE NULL
  /\ pc'[t] \in Private \cup {"getvnode"} => ref[t] = NULL
  /\ pc'[t] = "link" => ref[t] # NULL

\* The semaphore.
SemFrame(t, s) ==
  /\ s \in Sems
  /\ \A r \in Sems \ {s} : sem'[r] = sem[r]
  /\ sem'[s].hasvnode = sem[s].hasvnode
  /\ sem[s].hasvnode \/ sem'[s].linked => sem'[s].live
  /\ sem'[s].lock \in {sem[s].lock, NULL, t}
  /\ sem'[s].lock = t => cur'[t] = s /\ pc'[t] \in Locking
  /\ pc[t] \in Locking => cur[t] = s
  /\ sem'[s].live =>
       \/ (\E j \in Slots' : semarray'[j] = s) /\ (sem'[s].linked \/ sem'[s].hasvnode)
       \/ cur'[t] = s /\ pc'[t] \in Creating \cup Removing
       \/ \E u \in Threads : cur[u] = s /\ pc[u] = "linked?"
  /\ pc[t] \in Creating \cup Removing => cur[t] = s

\* The slot: unchanged, emptied of s or filled with s.
SlotFrame(s, i) ==
  /\ Slots \subseteq Slots'
  /\ \A j \in Slots' \ {i} : j \in Slots /\ semarray'[j] = semarray[j]
  /\ \A j \in Slots : semarray'[j] = s /\ s # NULL => sem'[s].live
  /\ \/ semarray' = semarray
     \/ /\ tablelock = NULL /\ semarray'[i] = NULL /\ i \in Slots /\ semarray[i] \in {s, NULL}
        /\ semarray[i] = s => ~ sem[s].hasvnode
     \/ /\ tablelock = NULL /\ semarray'[i] = s /\ (i \in Slots => semarray[i] = NULL)
        /\ (\A j \in Slots : semarray[j] # s) /\ sem'[s].live /\ ~ sem[s].hasvnode

\* The entry.
DentFrame(t, s, i, n) ==
  /\ n \in Names /\ \A m \in Names \ {n} : dents'[m] = dents[m]
  /\ \A m \in Names \ {n} : dents[m] # 0 => dents[m] # i /\ semarray[dents[m]] # s /\ dents[m] # dents'[n]
  /\ pc[t] \in Creating \cup Removing => name[t] = n
  /\ dents'[n] # 0 =>
       \/ dents'[n] \in Slots' /\ semarray'[dents'[n]] # NULL /\ sem'[semarray'[dents'[n]]].linked
       \/ name'[t] = n /\ pc'[t] \in Creating \cup Removing

LEMMA DirStepInv ==
  ASSUME IInv, broken = "no", NEW t \in Threads, NEW s, NEW i, NEW n,
         TypeOK', broken' # "assertion",
         DirFrame(t), SemFrame(t, s), SlotFrame(s, i), DentFrame(t, s, i, n),
         Looker(t)', Creator(t)', Remover(t)', pc'[t] \in Blank => cur'[t] = NULL
  PROVE  IInv'
<1> USE DEF IInv, Intact
<1>1. /\ pc'[t] \notin Using \cup Reclaiming \cup {"reclaim"}
      /\ pc[t] \notin Using \cup Reclaiming \cup {"reclaim"}
  BY DEF DirFrame, DirHolding, Creating, Removing, Looking, Using, Reclaiming
<1>2. \A u \in Threads \ {t} : pc'[u] = pc[u] /\ pc[u] \notin DirHolding
  <2>1. \A u \in Threads \ {t} : pc[u] \notin DirHolding
    BY OneInDir, SemFSAssumption DEF DirFrame
  <2>2. QED
    BY <2>1 DEF DirFrame, OthersKeep
<1>3. /\ \A j \in Slots : semarray[j] \in Sems \cup {NULL}
      /\ \A j \in Slots' : semarray'[j] \in Sems \cup {NULL}
      /\ s \in Sems /\ NULL \notin Sems
  <2>1. semarray' \in Seq(Sems \cup {NULL})
    BY DEF TypeOK
  <2>2. \A j \in Slots' : semarray'[j] \in Sems \cup {NULL}
    BY <2>1 DEF Slots
  <2>3. QED
    BY <2>2, Indices, SemFSAssumption DEF SemFrame
<1>4. UniqueInTable' /\ AssertionsHold'
  BY DEF UniqueInTable, AssertionsHold, DirFrame
<1>5. LocksHeld'
  <2>1. pc'[t] # "linked?" /\ pc[t] # "linked?"
    BY <1>1 DEF Reclaiming
  <2>2. tablelock # t
    BY <2>1 DEF LocksHeld
  <2>3. dirlock \in {NULL, t}
    BY OneInDir DEF DirFrame
  <2>4. QED
    BY <1>2, <2>1, <2>2, <2>3, LocksKept DEF DirFrame
<1>6. RefsKnown' /\ RefsLive'
  <2>1. RefsLive'
    BY DEF DirFrame, RefsLive
  <2>2. RefsKnown'
    BY <1>1, <1>2 DEF DirFrame, RefsKnown
  <2>3. QED
    BY <2>1, <2>2
<1>7. Counted'
  BY DEF DirFrame, Counted
<1>8. /\ \A r \in Sems : sem'[r].hasvnode = sem[r].hasvnode /\ (r # s => sem'[r] = sem[r])
      /\ \A j : \A v \in Vnodes : InTable(v, j)' <=> InTable(v, j)
      /\ \A j \in Slots : semarray[j] \notin {s, NULL} => j \in Slots' /\ semarray'[j] = semarray[j]
      /\ \A j \in Slots : semarray[j] # NULL /\ sem[semarray[j]].hasvnode =>
           j \in Slots' /\ semarray'[j] = semarray[j]
  BY DEF SemFrame, SlotFrame, DirFrame, InTable
<1>9. TableKnown' /\ HasvnodeKnown'
  <2>1. TableKnown'
    <3>1. ASSUME NEW v \in Vnodes, vnode[v].table
          PROVE  /\ vnode[v].live /\ vnode[v].semnum \in Slots'
                 /\ semarray'[vnode[v].semnum] # NULL
      <4>1. /\ vnode[v].live /\ vnode[v].semnum \in Slots /\ semarray[vnode[v].semnum] # NULL
            /\ sem[semarray[vnode[v].semnum]].hasvnode
        BY <3>1 DEF TableKnown, HasvnodeKnown, InTable
      <4>2. QED
        BY <1>8, <4>1
    <3>2. QED
      BY <3>1 DEF TableKnown, DirFrame
  <2>2. HasvnodeKnown'
    <3>1. ASSUME NEW j \in Slots', semarray'[j] # NULL
          PROVE  sem'[semarray'[j]].hasvnode <=> \E v \in Vnodes : InTable(v, j)
      <4>1. CASE j \in Slots /\ semarray'[j] = semarray[j]
        BY <1>3, <1>8, <3>1, <4>1 DEF HasvnodeKnown
      <4>2. CASE ~ (j \in Slots /\ semarray'[j] = semarray[j])
        <5>1. semarray'[j] = s /\ (j \in Slots => semarray[j] = NULL) /\ ~ sem[s].hasvnode
          BY <3>1, <4>2 DEF SlotFrame, Slots
        <5>2. \A v \in Vnodes : ~ InTable(v, j)
          BY <5>1 DEF TableKnown, InTable
        <5>3. QED
          BY <1>3, <1>8, <5>1, <5>2
      <4>3. QED
        BY <4>1, <4>2
    <3>2. QED
      BY <1>8, <3>1 DEF HasvnodeKnown
  <2>3. QED
    BY <2>1, <2>2
<1>10. SlotsKnown'
  <2>1. ASSUME NEW j \in Slots', NEW k \in Slots', semarray'[j] = semarray'[k], semarray'[j] # NULL
        PROVE  j = k
    <3>1. CASE semarray' = semarray
      BY <2>1, <3>1 DEF SlotsKnown, Slots
    <3>2. CASE semarray'[i] = NULL
      BY <2>1, <3>2 DEF SlotsKnown, SlotFrame
    <3>3. CASE semarray'[i] = s /\ \A h \in Slots : semarray[h] # s
      BY <2>1, <3>3 DEF SlotsKnown, SlotFrame
    <3>4. QED
      BY <3>1, <3>2, <3>3 DEF SlotFrame
  <2>2. ASSUME NEW j \in Slots', semarray'[j] # NULL
        PROVE  sem'[semarray'[j]].live
    <3>1. CASE j \in Slots /\ semarray'[j] = semarray[j]
      BY <1>3, <1>8, <2>2, <3>1 DEF SlotsKnown, SlotFrame
    <3>2. CASE ~ (j \in Slots /\ semarray'[j] = semarray[j])
      BY <2>2, <3>2 DEF SlotFrame, Slots
    <3>3. QED
      BY <3>1, <3>2
  <2>3. \A r \in Sems : sem'[r].linked \/ sem'[r].hasvnode => sem'[r].live
    BY <1>8 DEF SlotsKnown, SemFrame
  <2>4. QED
    BY <2>1, <2>2, <2>3 DEF SlotsKnown
<1>11. DentsKnown'
  <2>1. ASSUME NEW m \in Names \ {n}, dents[m] # 0
        PROVE  /\ dents'[m] = dents[m] /\ dents[m] # dents'[n]
               /\ semarray'[dents[m]] # NULL /\ sem'[semarray'[dents[m]]].linked
    <3>1. /\ dents[m] \in Slots /\ dents[m] # i /\ semarray[dents[m]] # s
          /\ dents'[m] = dents[m] /\ dents[m] # dents'[n]
      BY <2>1, Indices DEF DentFrame
    <3>2. ~ \E u \in Threads : name[u] = m /\ pc[u] \in Creating \cup Removing
      BY <1>2, <2>1 DEF DentFrame, DirHolding
    <3>3. semarray[dents[m]] # NULL /\ sem[semarray[dents[m]]].linked
      BY <2>1, <3>2 DEF DentsKnown
    <3>4. QED
      BY <1>3, <1>8, <3>1, <3>3
  <2>2. \A m, k \in Names : dents'[m] = dents'[k] /\ dents'[m] # 0 => m = k
    BY <2>1 DEF DentsKnown, DentFrame
  <2>3. ASSUME NEW m \in Names, dents'[m] # 0
        PROVE  \/ semarray'[dents'[m]] # NULL /\ sem'[semarray'[dents'[m]]].linked
               \/ \E u \in Threads : name'[u] = m /\ pc'[u] \in Creating \cup Removing
    BY <2>1, <2>3 DEF DentFrame
  <2>4. QED
    BY <2>2, <2>3 DEF DentsKnown
<1>12. ThreadsKnown'
  <2>1. ASSUME NEW u \in Threads \ {t}
        PROVE  /\ (Looker(u) /\ Creator(u) /\ Remover(u) /\ Reclaimer(u) /\ User(u))'
               /\ pc'[u] \in Blank => cur'[u] = NULL
    <3>1. /\ pc'[u] = pc[u] /\ pc[u] \notin DirHolding
          /\ semnum'[u] = semnum[u] /\ cur'[u] = cur[u] /\ vnode' = vnode /\ ref' = ref
      BY <1>2 DEF DirFrame, OthersKeep
    <3>2. (Looker(u) /\ Creator(u) /\ Remover(u))'
      BY <3>1 DEF Looker, Creator, Remover, DirHolding
    <3>3. Reclaimer(u)'
      <4>1. SUFFICES ASSUME pc[u] = "linked?" PROVE Reclaimer(u)'
        BY <3>1 DEF Reclaimer
      <4>2. semarray' = semarray
        BY <4>1, SemFSAssumption DEF SlotFrame, LocksHeld
      <4>3. QED
        BY <1>8, <3>1, <4>1, <4>2 DEF ThreadsKnown, Reclaimer, Slots
    <3>4. User(u)'
      <4>1. SUFFICES ASSUME pc[u] \in Using PROVE User(u)'
        BY <3>1 DEF User
      <4>2. /\ cur[u] \in Sems /\ sem[cur[u]].live /\ sem[cur[u]].hasvnode
            /\ semarray[vnode[ref[u]].semnum] = cur[u]
        BY <4>1 DEF ThreadsKnown, User
      <4>3. vnode[ref[u]].semnum \in Slots
        BY <4>1, RefKnows DEF RefsKnown, Using, Reclaiming
      <4>4. semarray'[vnode[ref[u]].semnum] = cur[u]
        BY <1>3, <1>8, <4>2, <4>3
      <4>5. sem'[cur[u]].live /\ sem'[cur[u]].hasvnode
        BY <1>8, <4>2 DEF SemFrame
      <4>6. QED
        BY <3>1, <4>2, <4>4, <4>5 DEF User
    <3>5. QED
      BY <3>1, <3>2, <3>3, <3>4 DEF ThreadsKnown
  <2>2. (Reclaimer(t) /\ User(t))'
    BY <1>1 DEF Reclaimer, User, Reclaiming
  <2>3. QED
    BY <2>1, <2>2 DEF ThreadsKnown
<1>13. SemLocks'
  <2>1. OthersStay(t)
    BY DEF DirFrame, OthersKeep, OthersStay
  <2>2. \A r \in Sems : /\ sem'[r].lock \in {sem[r].lock, NULL, t}
                        /\ sem'[r].lock = t => cur'[t] = r /\ pc'[t] \in Locking
    BY DEF SemFrame, SemLocks
  <2>3. QED
    BY <2>1, <2>2, SemLocksKept
<1>14. SemsKept'
  <2>1. ASSUME NEW r \in Sems \ {s}, sem[r].live
        PROVE  \/ (\E j \in Slots' : semarray'[j] = r) /\ (sem[r].linked \/ sem[r].hasvnode)
               \/ \E u \in Threads : cur'[u] = r /\ pc'[u] \in Creating \cup Removing \cup {"linked?"}
    <3>1. CASE (\E j \in Slots : semarray[j] = r) /\ (sem[r].linked \/ sem[r].hasvnode)
      BY <1>3, <1>8, <3>1
    <3>2. CASE \E u \in Threads : cur[u] = r /\ pc[u] \in Creating \cup Removing \cup {"linked?"}
      <4>1. PICK u \in Threads : cur[u] = r /\ pc[u] \in Creating \cup Removing \cup {"linked?"}
        BY <3>2
      <4>2. u # t
        BY <1>1, <4>1 DEF SemFrame, Reclaiming
      <4>3. cur'[u] = r /\ pc'[u] = pc[u]
        BY <4>1, <4>2 DEF DirFrame, OthersKeep
      <4>4. QED
        BY <4>1, <4>3
    <3>3. QED
      BY <2>1, <3>1, <3>2 DEF SemsKept
  <2>2. \A r \in Sems \ {s} : sem'[r] = sem[r]
    BY <1>8
  <2>3. \A u \in Threads : pc[u] = "linked?" => cur'[u] = cur[u] /\ pc'[u] = "linked?"
    BY <1>1 DEF DirFrame, OthersKeep, Reclaiming
  <2>4. QED
    BY <2>1, <2>2, <2>3 DEF SemsKept, SemFrame
<1>15. QED
  BY <1>4, <1>5, <1>6, <1>7, <1>9, <1>10, <1>11, <1>12, <1>13, <1>14

\* The entries of other names stand for other semaphores.
LEMMA OtherEntries ==
  ASSUME IInv, broken = "no", NEW t \in Threads, NEW n,
         pc[t] \in DirHolding \/ dirlock = NULL,
         pc[t] \in Creating \cup Removing => name[t] = n
  PROVE  \A m \in Names \ {n} : dents[m] # 0 =>
           /\ dents[m] \in Slots /\ semarray[dents[m]] \in Sems
           /\ sem[semarray[dents[m]]].linked
<1> USE DEF IInv, Intact
<1>1. SUFFICES ASSUME NEW m \in Names \ {n}, dents[m] # 0
               PROVE  /\ dents[m] \in Slots /\ semarray[dents[m]] \in Sems
                      /\ sem[semarray[dents[m]]].linked
  OBVIOUS
<1>2. ASSUME NEW u \in Threads, pc[u] \in Creating \cup Removing
      PROVE  name[u] # m
  BY <1>1, <1>2, OneInDir, SemFSAssumption DEF DirHolding
<1>3. semarray[dents[m]] # NULL /\ sem[semarray[dents[m]]].linked
  BY <1>1, <1>2 DEF DentsKnown
<1>4. QED
  BY <1>1, <1>3, Indices

\* The table with a slot emptied or filled.
LEMMA Semarray ==
  ASSUME TypeOK
  PROVE  semarray \in Seq(Sems \cup {NULL}) /\ Len(semarray) \in Nat /\ Slots = 1 .. Len(semarray)
<1>1. semarray \in Seq(Sems \cup {NULL})
  BY DEF TypeOK
<1>2. QED
  BY <1>1 DEF Slots

\* One slot is written.
LEMMA SlotSet ==
  ASSUME TypeOK, NEW i \in Slots, NEW x \in Sems \cup {NULL}, semarray' = [semarray EXCEPT ![i] = x]
  PROVE  /\ semarray' \in Seq(Sems \cup {NULL}) /\ Len(semarray') = Len(semarray)
         /\ Slots' = Slots
         /\ semarray'[i] = x /\ \A j \in Slots \ {i} : semarray'[j] = semarray[j]
<1>1. semarray \in Seq(Sems \cup {NULL})
  BY DEF TypeOK
<1>2. QED
  BY <1>1 DEF Slots

\* The types of what a thread in the directory changes.
LEMMA DirTypes ==
  ASSUME TypeOK, NEW t \in Threads,
         dirlock' \in Threads \cup {NULL},
         semarray' \in Seq(Sems \cup {NULL}), 0 .. Len(semarray) \subseteq 0 .. Len(semarray'),
         dents' \in [Names -> 0 .. Len(semarray')],
         sem' \in [Sems -> SemType], pc' \in [Threads -> Labels],
         name' \in [Threads -> Names \cup {NULL}], semnum' \in [Threads -> 0 .. Len(semarray')],
         cur' \in [Threads -> Sems \cup {NULL}],
         UNCHANGED <<tablelock, vnode, ref, units>>,
         broken' \in {"no", "assertion", "destroyed", "no vnode", "cv"}
  PROVE  TypeOK'
<1>1. vnode' \in [Vnodes -> [live : BOOLEAN, table : BOOLEAN,
                             semnum : 0 .. Len(semarray'), refcount : Nat]]
  <2>1. ASSUME NEW N, NEW M, N \subseteq M
        PROVE  [Vnodes -> [live : BOOLEAN, table : BOOLEAN, semnum : N, refcount : Nat]] \subseteq
               [Vnodes -> [live : BOOLEAN, table : BOOLEAN, semnum : M, refcount : Nat]]
    BY <2>1
  <2>2. vnode \in [Vnodes -> [live : BOOLEAN, table : BOOLEAN,
                              semnum : 0 .. Len(semarray), refcount : Nat]]
    BY DEF TypeOK
  <2>3. QED
    BY <2>1, <2>2
<1>2. /\ ref' \in [Threads -> Vnodes \cup {NULL}] /\ units' \in [Threads -> 0 .. MaxCount]
      /\ tablelock' \in Threads \cup {NULL}
  BY DEF TypeOK
<1>3. QED
  BY <1>1, <1>2 DEF TypeOK, SemType

\* The locals of t on a way through the directory.
LEMMA LocalTypes ==
  ASSUME TypeOK, NEW t \in Threads, NEW l \in Labels, Goto(t, l)
  PROVE  /\ pc' \in [Threads -> Labels] /\ pc'[t] = l
         /\ \A u \in Threads \ {t} : pc'[u] = pc[u]
         /\ UNCHANGED <<name, semnum, cur>> =>
              /\ OthersKeep(t)
              /\ name' \in [Threads -> Names \cup {NULL}]
              /\ semnum' \in [Threads -> 0 .. Len(semarray)]
              /\ cur' \in [Threads -> Sems \cup {NULL}]
         /\ \A n \in Names \cup {NULL}, k \in 0 .. Len(semarray), s \in Sems \cup {NULL} :
              Set(t, n, k, s) =>
                /\ OthersKeep(t) /\ name'[t] = n /\ semnum'[t] = k /\ cur'[t] = s
                /\ name' \in [Threads -> Names \cup {NULL}]
                /\ semnum' \in [Threads -> 0 .. Len(semarray)]
                /\ cur' \in [Threads -> Sems \cup {NULL}]
<1>1. /\ pc' \in [Threads -> Labels] /\ pc'[t] = l
      /\ \A u \in Threads \ {t} : pc'[u] = pc[u]
  BY DEF TypeOK, Goto
<1>2. ASSUME UNCHANGED <<name, semnum, cur>>
      PROVE  /\ OthersKeep(t)
             /\ name' \in [Threads -> Names \cup {NULL}]
             /\ semnum' \in [Threads -> 0 .. Len(semarray)]
             /\ cur' \in [Threads -> Sems \cup {NULL}]
  BY <1>1, <1>2 DEF TypeOK, OthersKeep
<1>3. ASSUME NEW n \in Names \cup {NULL}, NEW k \in 0 .. Len(semarray), NEW s \in Sems \cup {NULL},
             Set(t, n, k, s)
      PROVE  /\ OthersKeep(t) /\ name'[t] = n /\ semnum'[t] = k /\ cur'[t] = s
             /\ name' \in [Threads -> Names \cup {NULL}]
             /\ semnum' \in [Threads -> 0 .. Len(semarray)]
             /\ cur' \in [Threads -> Sems \cup {NULL}]
  BY <1>1, <1>3 DEF TypeOK, OthersKeep, Set
<1>4. QED
  BY <1>1, <1>2, <1>3

LEMMA RemoveUnlinkInv == ASSUME IInv, NEW t \in Threads, RemoveUnlink(t) PROVE IInv'
<1>0. PICK s, i, n : s = cur[t] /\ i = semnum[t] /\ n = name[t]
  OBVIOUS
<1>1. /\ TypeOK /\ pc[t] = "unlink" /\ broken = "no" /\ Looker(t) /\ pc[t] \in Looking
      /\ sem \in [Sems -> SemType] /\ NULL \notin Sems \cup Threads
  BY SemFSAssumption DEF RemoveUnlink, At, IInv, Intact, ThreadsKnown, Looking, TypeOK, SemType
<1>2. /\ n \in Names /\ i \in Slots /\ dents[n] = i /\ semarray[i] = s /\ s \in Sems
      /\ sem[s].linked /\ sem[s].live /\ s # NULL
  BY <1>0, <1>1, Indices DEF Looker, IInv, Intact, SlotsKnown
<1>3. /\ sem' = [sem EXCEPT ![s].linked = FALSE, ![s].lock = t] /\ broken' = broken
      /\ Goto(t, "hasvnode?") /\ UNCHANGED <<locks, semarray, dents, vnode, locals>>
  BY <1>0, <1>2 DEF RemoveUnlink
<1>4. /\ sem' \in [Sems -> SemType] /\ \A r \in Sems \ {s} : sem'[r] = sem[r]
      /\ sem'[s] = [sem[s] EXCEPT !.linked = FALSE, !.lock = t]
  <2>1. sem[s] \in SemType
    BY <1>1, <1>2
  <2>2. [sem[s] EXCEPT !.linked = FALSE, !.lock = t] \in SemType
    BY <2>1 DEF SemType
  <2>3. sem' = [sem EXCEPT ![s] = [sem[s] EXCEPT !.linked = FALSE, !.lock = t]]
    BY <1>1, <1>2, <1>3
  <2>4. QED
    BY <1>1, <1>2, <2>2, <2>3
<1>5. sem'[s].live /\ ~ sem'[s].linked /\ sem'[s].lock = t /\ sem'[s].hasvnode = sem[s].hasvnode
  BY <1>1, <1>2, <1>4 DEF SemType
<1>6. /\ pc'[t] = "hasvnode?" /\ pc' \in [Threads -> Labels] /\ OthersKeep(t)
      /\ UNCHANGED <<name, semnum, cur>>
      /\ name' \in [Threads -> Names \cup {NULL}]
      /\ semnum' \in [Threads -> 0 .. Len(semarray)] /\ cur' \in [Threads -> Sems \cup {NULL}]
  BY <1>1, <1>3, LocalTypes DEF Labels, Removing, locals
<1>7. TypeOK'
  <2>1. /\ semarray' \in Seq(Sems \cup {NULL}) /\ dents' \in [Names -> 0 .. Len(semarray')]
        /\ dirlock' \in Threads \cup {NULL} /\ UNCHANGED <<tablelock, vnode, ref, units>>
        /\ 0 .. Len(semarray) \subseteq 0 .. Len(semarray') /\ semnum' \in [Threads -> 0 .. Len(semarray')]
        /\ broken' \in {"no", "assertion", "destroyed", "no vnode", "cv"}
    BY <1>1, <1>3, <1>6, Indices DEF TypeOK, locks, locals
  <2>2. QED
    BY <1>1, <1>4, <1>6, <2>1, DirTypes, Zenon
<1>8. "hasvnode?" \in Removing /\ "hasvnode?" \in Locking
      /\ "hasvnode?" \notin Looking \cup Creating \cup Blank \cup Private \cup {"link", "getvnode"}
      /\ pc[t] \notin Creating \cup Removing \cup Locking /\ "unlink" \in DirHolding
  BY <1>1 DEF Removing, Locking, Looking, Creating, Blank, Private, DirHolding
<1>9. DirFrame(t)
  BY <1>1, <1>3, <1>6, <1>8, OneInDir DEF DirFrame, DirHolding, locks, locals
<1>10. SemFrame(t, s)
  BY <1>0, <1>2, <1>4, <1>5, <1>6, <1>8 DEF SemFrame
<1>11. SlotFrame(s, i)
  BY <1>3, <1>5 DEF SlotFrame, Slots
<1>12. DentFrame(t, s, i, n)
  <2>1. \A m \in Names \ {n} : dents[m] # 0 => dents[m] # i /\ semarray[dents[m]] # s
    <3>1. \A m \in Names \ {n} : dents[m] # 0 => dents[m] # i /\ dents[m] \in Slots
      BY <1>1, <1>2, Indices DEF IInv, Intact, DentsKnown
    <3>2. QED
      BY <1>1, <1>2, <3>1 DEF IInv, Intact, SlotsKnown
  <2>2. QED
    BY <1>0, <1>1, <1>2, <1>3, <1>6, <1>8, <2>1 DEF DentFrame
<1>13. (Looker(t) /\ Creator(t) /\ Remover(t))'
  BY <1>0, <1>2, <1>3, <1>5, <1>6, <1>8 DEF Looker, Creator, Remover, Slots
<1>14. QED
  BY <1>1, <1>3, <1>6, <1>7, <1>8, <1>9, <1>10, <1>11, <1>12, <1>13, DirStepInv

\* A semaphore replaced by another value of its type.
LEMMA SemPut ==
  ASSUME sem \in [Sems -> SemType], NEW s \in Sems, NEW x \in SemType,
         sem' = [sem EXCEPT ![s] = x]
  PROVE  /\ sem' \in [Sems -> SemType] /\ sem'[s] = x
         /\ \A r \in Sems \ {s} : sem'[r] = sem[r]
OBVIOUS

Fresh == [NoSem EXCEPT !.live = TRUE]

LEMMA NewSems ==
  /\ NoSem \in SemType /\ Fresh \in SemType
  /\ NoSem.live = FALSE /\ NoSem.hasvnode = FALSE /\ NoSem.linked = FALSE /\ NoSem.lock = NULL
  /\ Fresh.live = TRUE /\ Fresh.hasvnode = FALSE /\ Fresh.linked = FALSE /\ Fresh.lock = NULL
<1>1. 0 \in 0 .. MaxCount
  BY SemFSAssumption
<1>2. /\ NoSem \in SemType
      /\ NoSem.live = FALSE /\ NoSem.hasvnode = FALSE /\ NoSem.linked = FALSE /\ NoSem.lock = NULL
  BY <1>1 DEF NoSem, SemType
<1>3. ASSUME NEW x \in SemType
      PROVE  LET y == [x EXCEPT !.live = TRUE]
             IN  /\ y \in SemType /\ y.live = TRUE
                 /\ y.hasvnode = x.hasvnode /\ y.linked = x.linked /\ y.lock = x.lock
  BY DEF SemType
<1>4. QED
  BY <1>2, <1>3 DEF Fresh

\* The semaphore, the slot and the entry that a thread in the directory works
\* on are in no other entry.
LEMMA OthersApart ==
  ASSUME IInv, broken = "no", NEW t \in Threads, NEW s \in Sems, NEW i, NEW n \in Names,
         pc[t] \in DirHolding \/ dirlock = NULL,
         pc[t] \in Creating \cup Removing => name[t] = n,
         i \in Slots => semarray[i] \in {s, NULL},
         ~ sem[s].linked \/ (i \in Slots /\ semarray[i] = s /\ dents[n] = i)
  PROVE  \A m \in Names \ {n} : dents[m] # 0 => dents[m] # i /\ semarray[dents[m]] # s
<1> SUFFICES ASSUME NEW m \in Names \ {n}, dents[m] # 0
             PROVE  dents[m] # i /\ semarray[dents[m]] # s
  OBVIOUS
<1>1. dents[m] \in Slots /\ semarray[dents[m]] \in Sems /\ sem[semarray[dents[m]]].linked
  BY OtherEntries
<1>2. NULL \notin Sems
  BY SemFSAssumption
<1>3. CASE ~ sem[s].linked
  BY <1>1, <1>2, <1>3
<1>4. CASE i \in Slots /\ semarray[i] = s /\ dents[n] = i
  <2>1. dents[m] # i
    BY <1>4 DEF IInv, Intact, DentsKnown
  <2>2. QED
    BY <1>1, <1>2, <1>4, <2>1 DEF IInv, Intact, SlotsKnown
<1>5. QED
  BY <1>3, <1>4

\* What a remove knows once it has taken the semaphore out of the directory.
RemoverFacts(t, s, n, i) ==
  /\ s = cur[t] /\ i = semnum[t] /\ n = name[t]
  /\ s # NULL /\ i # 0 /\ dents[n] = i /\ ~ sem[s].linked
  /\ pc[t] # "destroy" /\ sem[s].live => semarray[i] = s
  /\ pc[t] = "destroy" \/ ~ sem[s].live => semarray[i] = NULL /\ \A j \in Slots : semarray[j] # s
  /\ pc[t] \in {"empty", "destroy"} => ~ sem[s].hasvnode
  /\ \A m \in Names \ {n} : dents[m] # 0 => dents[m] # i /\ semarray[dents[m]] # s
  /\ \A j \in Slots \ {i} : semarray[j] # s
  /\ pc[t] \in DirHolding /\ dirlock = t

LEMMA RemoverKnows ==
  ASSUME IInv, broken = "no", NEW t \in Threads, pc[t] \in Removing
  PROVE  \E s \in Sems, n \in Names, i \in Slots : RemoverFacts(t, s, n, i)
<1>1. PICK s, i, n : s = cur[t] /\ i = semnum[t] /\ n = name[t]
  OBVIOUS
<1>2. /\ n \in Names /\ s \in Sems /\ i \in Slots /\ dents[n] = i /\ ~ sem[s].linked
      /\ semarray[i] = IF pc[t] # "destroy" /\ sem[s].live THEN s ELSE NULL
      /\ pc[t] \in {"empty", "destroy"} => ~ sem[s].hasvnode
      /\ pc[t] = "destroy" => \A j \in Slots : semarray[j] # s
  BY <1>1 DEF IInv, Intact, ThreadsKnown, Remover
<1>3. s # NULL /\ i # 0
  BY <1>2, SemFSAssumption, Indices DEF IInv
<1>4. ~ sem[s].live => \A j \in Slots : semarray[j] # s
  BY <1>3 DEF IInv, Intact, SlotsKnown
<1>5. pc[t] # "destroy" /\ sem[s].live => \A j \in Slots \ {i} : semarray[j] # s
  BY <1>2, <1>3 DEF IInv, Intact, SlotsKnown
<1>6. pc[t] \in DirHolding
  BY DEF DirHolding
<1>7. \A m \in Names \ {n} : dents[m] # 0 => dents[m] # i /\ semarray[dents[m]] # s
  BY <1>1, <1>2, <1>6, OthersApart
<1>8. dirlock = t
  BY <1>6, OneInDir
<1>9. QED
  BY <1>1, <1>2, <1>3, <1>4, <1>5, <1>6, <1>7, <1>8 DEF RemoverFacts

LEMMA RemoveSlotInv == ASSUME IInv, NEW t \in Threads, RemoveSlot(t) PROVE IInv'
<1>0. pc[t] = "empty" /\ broken = "no" /\ "empty" \in Removing
  BY DEF RemoveSlot, At, Removing
<1>1. PICK s \in Sems, n \in Names, i \in Slots : RemoverFacts(t, s, n, i)
  BY <1>0, RemoverKnows
<1>2. /\ tablelock = NULL /\ semarray' = [semarray EXCEPT ![i] = NULL]
      /\ sem' = [sem EXCEPT ![s].lock = NULL] /\ Goto(t, "destroy")
      /\ UNCHANGED <<locks, dents, vnode, locals, broken>>
  BY <1>1 DEF RemoveSlot, RemoverFacts
<1>3. TypeOK /\ sem \in [Sems -> SemType] /\ NULL \notin Sems \cup Threads
  BY SemFSAssumption DEF IInv, TypeOK, SemType
<1>4. /\ semarray' \in Seq(Sems \cup {NULL}) /\ Len(semarray') = Len(semarray) /\ Slots' = Slots
      /\ semarray'[i] = NULL /\ \A j \in Slots \ {i} : semarray'[j] = semarray[j]
  BY <1>2, <1>3, SlotSet
<1>5. /\ sem' \in [Sems -> SemType] /\ \A r \in Sems \ {s} : sem'[r] = sem[r]
      /\ sem'[s] = [sem[s] EXCEPT !.lock = NULL]
  BY <1>2, <1>3, SemFields
<1>6. /\ sem'[s].live = sem[s].live /\ sem'[s].linked = sem[s].linked
      /\ sem'[s].hasvnode = sem[s].hasvnode /\ sem'[s].lock = NULL
  BY <1>3, <1>5 DEF SemType
<1>7. /\ pc'[t] = "destroy" /\ pc' \in [Threads -> Labels] /\ OthersKeep(t)
      /\ UNCHANGED <<name, semnum, cur>>
      /\ name' \in [Threads -> Names \cup {NULL}]
      /\ semnum' \in [Threads -> 0 .. Len(semarray)] /\ cur' \in [Threads -> Sems \cup {NULL}]
  BY <1>2, <1>3, LocalTypes DEF Labels, Removing, locals
<1>8. TypeOK'
  <2>1. /\ dents' \in [Names -> 0 .. Len(semarray')]
        /\ dirlock' \in Threads \cup {NULL} /\ UNCHANGED <<tablelock, vnode, ref, units>>
        /\ 0 .. Len(semarray) \subseteq 0 .. Len(semarray') /\ semnum' \in [Threads -> 0 .. Len(semarray')]
        /\ broken' \in {"no", "assertion", "destroyed", "no vnode", "cv"}
    BY <1>2, <1>3, <1>4, <1>7 DEF TypeOK, locks, locals
  <2>2. QED
    BY <1>3, <1>4, <1>5, <1>7, <2>1, DirTypes, Zenon
<1>9. "destroy" \in Removing /\ "destroy" \notin Looking \cup Creating \cup Blank \cup Private \cup {"link", "getvnode"}
      /\ Removing \subseteq DirHolding
  BY DEF Removing, Looking, Creating, Blank, Private, DirHolding
<1>10. DirFrame(t)
  BY <1>1, <1>2, <1>3, <1>7, <1>9 DEF DirFrame, locks, locals, RemoverFacts
<1>11. SemFrame(t, s)
  BY <1>0, <1>1, <1>3, <1>5, <1>6, <1>7, <1>9 DEF SemFrame, RemoverFacts
<1>12. SlotFrame(s, i)
  BY <1>0, <1>1, <1>2, <1>4, <1>6 DEF SlotFrame, RemoverFacts
<1>13. DentFrame(t, s, i, n)
  BY <1>1, <1>2, <1>7, <1>9 DEF DentFrame, RemoverFacts
<1>14. (Looker(t) /\ Creator(t) /\ Remover(t))'
  BY <1>0, <1>1, <1>2, <1>4, <1>6, <1>7, <1>9 DEF Looker, Creator, Remover, RemoverFacts
<1>15. QED
  BY <1>0, <1>2, <1>7, <1>8, <1>9, <1>10, <1>11, <1>12, <1>13, <1>14, DirStepInv

\* Where a remove ends: the entry goes and the directory is unlocked.
LEMMA RemoveEndInv ==
  ASSUME IInv, NEW t \in Threads, RemoveDestroy(t) \/ RemoveUnlock(t) PROVE IInv'
<1>0. pc[t] \in {"destroy", "unlock"} /\ broken = "no" /\ {"destroy", "unlock"} \subseteq Removing
  BY DEF RemoveDestroy, RemoveUnlock, At, Removing
<1>1. PICK s \in Sems, n \in Names, i \in Slots : RemoverFacts(t, s, n, i)
  BY <1>0, RemoverKnows
<1>2. /\ dents' = [dents EXCEPT ![n] = 0] /\ dirlock' = NULL
      /\ Goto(t, "idle") /\ Set(t, NULL, 0, NULL)
      /\ UNCHANGED <<semarray, tablelock, vnode, ref, units>>
  BY <1>1 DEF RemoveDestroy, RemoveUnlock, RemoveDent, Idle, RemoverFacts
<1>3. TypeOK /\ sem \in [Sems -> SemType] /\ NULL \notin Sems \cup Threads /\ 0 \in 0 .. Len(semarray)
  <2>1. TypeOK
    BY DEF IInv
  <2>2. 0 \in 0 .. Len(semarray)
    BY <2>1, Indices
  <2>3. QED
    BY <2>1, <2>2, SemFSAssumption DEF TypeOK, SemType
<1>4. \/ sem' = sem /\ broken' = "destroyed"
      \/ /\ broken' = broken /\ pc[t] = "destroy" /\ sem' = [sem EXCEPT ![s] = NoSem]
      \/ /\ broken' = broken /\ pc[t] = "unlock" /\ sem[s].live
         /\ sem' = [sem EXCEPT ![s].lock = NULL]
  BY <1>1 DEF RemoveDestroy, RemoveUnlock, Destroy, At, RemoverFacts
<1>5. /\ sem' \in [Sems -> SemType] /\ \A r \in Sems \ {s} : sem'[r] = sem[r]
      /\ broken' = broken =>
           /\ sem'[s].hasvnode = sem[s].hasvnode /\ sem'[s].linked = FALSE /\ sem'[s].lock = NULL
           /\ sem'[s].live <=> pc[t] = "unlock"
  <2>1. CASE sem' = sem /\ broken' = "destroyed"
    <3>1. broken' # broken
      BY <1>0, <2>1
    <3>2. QED
      BY <1>3, <2>1, <3>1
  <2>2. CASE pc[t] = "destroy" /\ sem' = [sem EXCEPT ![s] = NoSem]
    <3>1. sem[s].hasvnode = FALSE
      BY <1>1, <1>3, <2>2 DEF SemType, RemoverFacts
    <3>2. QED
      BY <1>3, <2>2, <3>1, SemPut, NewSems
  <2>3. CASE pc[t] = "unlock" /\ sem[s].live /\ sem' = [sem EXCEPT ![s].lock = NULL]
    <3>1. /\ sem' \in [Sems -> SemType] /\ \A r \in Sems \ {s} : sem'[r] = sem[r]
          /\ sem'[s] = [sem[s] EXCEPT !.lock = NULL]
      BY <1>3, <2>3, SemFields
    <3>2. QED
      BY <1>1, <1>3, <2>3, <3>1 DEF SemType, RemoverFacts
  <2>4. QED
    BY <1>4, <2>1, <2>2, <2>3
<1>6. /\ pc'[t] = "idle" /\ pc' \in [Threads -> Labels] /\ OthersKeep(t)
      /\ name' \in [Threads -> Names \cup {NULL}] /\ cur'[t] = NULL
      /\ semnum' \in [Threads -> 0 .. Len(semarray)] /\ cur' \in [Threads -> Sems \cup {NULL}]
  BY <1>2, <1>3, LocalTypes DEF Labels
<1>7. /\ dents' \in [Names -> 0 .. Len(semarray)] /\ dents'[n] = 0
      /\ \A m \in Names \ {n} : dents'[m] = dents[m]
  BY <1>2, <1>3 DEF TypeOK
<1>8. TypeOK'
  <2>1. /\ semarray' \in Seq(Sems \cup {NULL}) /\ dents' \in [Names -> 0 .. Len(semarray')]
        /\ dirlock' \in Threads \cup {NULL} /\ UNCHANGED <<tablelock, vnode, ref, units>>
        /\ 0 .. Len(semarray) \subseteq 0 .. Len(semarray') /\ semnum' \in [Threads -> 0 .. Len(semarray')]
        /\ broken' \in {"no", "assertion", "destroyed", "no vnode", "cv"}
    BY <1>2, <1>3, <1>4, <1>6, <1>7 DEF TypeOK
  <2>2. QED
    BY <1>3, <1>5, <1>6, <2>1, DirTypes, Zenon
<1>9. CASE broken' = "destroyed"
  <2>1. UniqueInTable'
    BY <1>2 DEF IInv, UniqueInTable
  <2>2. QED
    BY <1>8, <1>9, <2>1, BrokenInv
<1>10. CASE broken' = broken
  <2>1. "idle" \notin Looking \cup Creating \cup Removing \cup Private \cup {"link", "getvnode"} \cup DirHolding
    BY DEF Removing, Looking, Creating, Private, DirHolding
  <2>2. DirFrame(t)
    BY <1>1, <1>2, <1>6, <2>1 DEF DirFrame, RemoverFacts
  <2>3. SemFrame(t, s)
    <3>1. sem'[s].live =>
            \/ (\E j \in Slots' : semarray'[j] = s) /\ sem'[s].hasvnode
            \/ \E u \in Threads : cur[u] = s /\ pc[u] = "linked?"
      <4>1. SUFFICES ASSUME sem'[s].live
                     PROVE  \/ (\E j \in Slots' : semarray'[j] = s) /\ sem'[s].hasvnode
                            \/ \E u \in Threads : cur[u] = s /\ pc[u] = "linked?"
        OBVIOUS
      <4>2. pc[t] = "unlock" /\ sem[s].live
        BY <1>4, <1>5, <1>10, <1>0, <4>1
      <4>3. sem[s].hasvnode \/ \E u \in Threads : pc[u] = "linked?" /\ cur[u] = s
        BY <1>0, <1>1, <4>2 DEF IInv, Intact, ThreadsKnown, Remover, RemoverFacts
      <4>4. QED
        BY <1>1, <1>2, <1>5, <1>10, <4>2, <4>3 DEF Slots, RemoverFacts
    <3>2. QED
      BY <1>1, <1>3, <1>5, <1>6, <1>0, <1>10, <3>1 DEF SemFrame, RemoverFacts
  <2>4. SlotFrame(s, i)
    BY <1>0, <1>1, <1>2, <1>5, <1>10 DEF SlotFrame, Slots, RemoverFacts
  <2>5. DentFrame(t, s, i, n)
    BY <1>1, <1>7 DEF DentFrame, RemoverFacts
  <2>6. (Looker(t) /\ Creator(t) /\ Remover(t))'
    BY <1>6, <2>1 DEF Looker, Creator, Remover
  <2>7. QED
    BY <1>0, <1>6, <1>8, <1>10, <2>2, <2>3, <2>4, <2>5, <2>6, DirStepInv
<1>11. QED
  BY <1>4, <1>9, <1>10

-----------------------------------------------------------------------------
(* creat *)

\* What a creat knows.
CreatorFacts(t, s, n, i) ==
  /\ s = cur[t] /\ i = semnum[t] /\ n = name[t]
  /\ s # NULL /\ sem[s].live = TRUE /\ sem[s].linked = FALSE
  /\ pc[t] = "insert" => \A j \in Slots : semarray[j] # s
  /\ pc[t] # "insert" =>
       /\ i \in Slots /\ i # 0 /\ semarray[i] = s
       /\ \A j \in Slots \ {i} : semarray[j] # s
       /\ \A m \in Names \ {n} : dents[m] # 0 => dents[m] # i
  /\ dents[n] = IF pc[t] \in {"insert", "dent"} THEN 0 ELSE i
  /\ pc[t] \in Private =>
       sem[s].hasvnode = FALSE /\ ref[t] = NULL /\ \A u \in Threads : cur[u] = s => u = t
  /\ pc[t] = "link" => ref[t] # NULL /\ vnode[ref[t]].semnum = i
  /\ \A m \in Names \ {n} : dents[m] # 0 => semarray[dents[m]] # s
  /\ pc[t] \in DirHolding /\ dirlock = t

LEMMA CreatorKnows ==
  ASSUME IInv, broken = "no", NEW t \in Threads, pc[t] \in Creating
  PROVE  \E s \in Sems, n \in Names, i \in 0 .. Len(semarray) : CreatorFacts(t, s, n, i)
<1>1. PICK s, i, n : s = cur[t] /\ i = semnum[t] /\ n = name[t]
  OBVIOUS
<1>2. /\ i \in 0 .. Len(semarray)
      /\ \A r \in Sems : sem[r].live \in BOOLEAN /\ sem[r].linked \in BOOLEAN /\ sem[r].hasvnode \in BOOLEAN
  BY <1>1 DEF IInv, TypeOK
<1>3. /\ n \in Names /\ s \in Sems /\ sem[s].live = TRUE /\ sem[s].linked = FALSE
      /\ pc[t] = "insert" => \A j \in Slots : semarray[j] # s
      /\ pc[t] # "insert" => i \in Slots /\ semarray[i] = s
      /\ dents[n] = IF pc[t] \in {"insert", "dent"} THEN 0 ELSE i
      /\ pc[t] # "link" => sem[s].hasvnode = FALSE /\ \A u \in Threads : cur[u] = s => u = t
      /\ pc[t] = "link" => vnode[ref[t]].semnum = i
  BY <1>1, <1>2 DEF IInv, Intact, ThreadsKnown, Creator
<1>4. s # NULL /\ (pc[t] # "insert" => i # 0)
  BY <1>3, SemFSAssumption, Indices DEF IInv
<1>5. pc[t] # "insert" => \A j \in Slots \ {i} : semarray[j] # s
  BY <1>3, <1>4 DEF IInv, Intact, SlotsKnown
<1>6. /\ pc[t] = "link" => ref[t] # NULL
      /\ pc[t] \in Private => pc[t] # "link" /\ ref[t] = NULL
  BY DEF IInv, Intact, RefsKnown, Private
<1>7. pc[t] \in DirHolding
  BY DEF DirHolding
<1>8. dirlock = t
  BY <1>7, OneInDir
<1>9. /\ \A m \in Names \ {n} : dents[m] # 0 => semarray[dents[m]] # s
      /\ pc[t] # "insert" => \A m \in Names \ {n} : dents[m] # 0 => dents[m] # i
  <2>1. CASE pc[t] # "insert"
    BY <1>1, <1>3, <1>7, <2>1, OthersApart
  <2>2. CASE pc[t] = "insert"
    <3>1. 0 \notin Slots
      BY Indices DEF IInv
    <3>2. QED
      BY <1>1, <1>3, <1>7, <2>2, <3>1, OthersApart
  <2>3. QED
    BY <2>1, <2>2
<1>10. QED
  BY <1>1, <1>2, <1>3, <1>4, <1>5, <1>6, <1>7, <1>8, <1>9 DEF CreatorFacts

\* A creat that fails takes everything back.
LEMMA CreatFailsInv ==
  ASSUME IInv, NEW t \in Threads,
         SemInsertFails(t) \/ CreatDentFails(t) \/ CreatDentNull(t) \/ CreatVnodeFails(t)
  PROVE  IInv'
<1>0. /\ pc[t] \in Private /\ broken = "no" /\ Private \subseteq Creating
      /\ Creating \cap (Locking \cup {"idle"}) = {}
  BY DEF SemInsertFails, CreatDentFails, CreatDentNull, CreatVnodeFails, At, Private, Creating, Locking
<1>a. PICK s \in Sems, n \in Names, i \in 0 .. Len(semarray) : CreatorFacts(t, s, n, i)
  BY <1>0, CreatorKnows
<1>1. /\ s = cur[t] /\ i = semnum[t] /\ n = name[t]
      /\ s # NULL /\ sem[s].live = TRUE /\ sem[s].linked = FALSE
      /\ pc[t] = "insert" => dents[n] = 0 /\ \A j \in Slots : semarray[j] # s
      /\ pc[t] # "insert" =>
           /\ i \in Slots /\ i # 0 /\ semarray[i] = s
           /\ \A j \in Slots \ {i} : semarray[j] # s
           /\ \A m \in Names \ {n} : dents[m] # 0 => dents[m] # i
      /\ sem[s].hasvnode = FALSE
      /\ \A m \in Names \ {n} : dents[m] # 0 => semarray[dents[m]] # s
      /\ pc[t] \in DirHolding /\ dirlock = t
  BY <1>0, <1>a DEF CreatorFacts
<1>2. /\ tablelock = NULL /\ dirlock' = NULL /\ sem' = [sem EXCEPT ![s] = NoSem]
      /\ \/ pc[t] = "insert" /\ UNCHANGED <<dents, semarray>>
         \/ /\ pc[t] # "insert" /\ dents' = [dents EXCEPT ![n] = 0]
            /\ semarray' = [semarray EXCEPT ![i] = NULL]
      /\ Goto(t, "idle") /\ Set(t, NULL, 0, NULL)
      /\ UNCHANGED <<tablelock, vnode, ref, units>>
      /\ broken' \in {broken, "no vnode"}
  BY <1>1 DEF SemInsertFails, CreatDentFails, CreatDentNull, CreatVnodeFails, Undo, Idle, At
<1>3. TypeOK /\ sem \in [Sems -> SemType] /\ NULL \notin Sems \cup Threads /\ 0 \in 0 .. Len(semarray)
  <2>1. TypeOK
    BY DEF IInv
  <2>2. 0 \in 0 .. Len(semarray)
    BY <2>1, Indices
  <2>3. QED
    BY <2>1, <2>2, SemFSAssumption DEF TypeOK, SemType
<1>4. /\ sem' \in [Sems -> SemType] /\ \A r \in Sems \ {s} : sem'[r] = sem[r]
      /\ sem'[s].live = FALSE /\ sem'[s].hasvnode = FALSE /\ sem'[s].linked = FALSE
      /\ sem'[s].lock = NULL
  BY <1>2, <1>3, SemPut, NewSems
<1>5. /\ semarray' \in Seq(Sems \cup {NULL}) /\ Len(semarray') = Len(semarray) /\ Slots' = Slots
      /\ \A j \in Slots : semarray'[j] # s
      /\ \/ semarray' = semarray
         \/ /\ i \in Slots /\ semarray[i] = s /\ semarray'[i] = NULL
            /\ \A j \in Slots \ {i} : semarray'[j] = semarray[j]
  <2>1. CASE pc[t] = "insert"
    BY <1>1, <1>2, <1>3, <2>1 DEF TypeOK, Slots
  <2>2. CASE pc[t] # "insert"
    <3>1. /\ semarray' \in Seq(Sems \cup {NULL}) /\ Len(semarray') = Len(semarray) /\ Slots' = Slots
          /\ semarray'[i] = NULL /\ \A j \in Slots \ {i} : semarray'[j] = semarray[j]
      <4>1. i \in Slots /\ semarray' = [semarray EXCEPT ![i] = NULL]
        BY <1>1, <1>2, <2>2
      <4>2. NULL \in Sems \cup {NULL}
        OBVIOUS
      <4>3. QED
        BY <1>3, <4>1, <4>2, SlotSet
    <3>2. QED
      BY <1>1, <2>2, <3>1
  <2>3. QED
    BY <2>1, <2>2
<1>6. /\ pc'[t] = "idle" /\ pc' \in [Threads -> Labels] /\ OthersKeep(t)
      /\ name' \in [Threads -> Names \cup {NULL}] /\ cur'[t] = NULL
      /\ semnum' \in [Threads -> 0 .. Len(semarray)] /\ cur' \in [Threads -> Sems \cup {NULL}]
  <2>1. "idle" \in Labels /\ NULL \in Names \cup {NULL} /\ NULL \in Sems \cup {NULL}
    BY DEF Labels
  <2>2. TypeOK /\ 0 \in 0 .. Len(semarray) /\ Goto(t, "idle") /\ Set(t, NULL, 0, NULL)
    BY <1>2, <1>3
  <2>3. PICK k \in 0 .. Len(semarray) : k = 0
    BY <2>2
  <2>4. Set(t, NULL, k, NULL)
    BY <2>2, <2>3
  <2>5. QED
    BY <2>1, <2>2, <2>4, LocalTypes
<1>7. /\ dents' \in [Names -> 0 .. Len(semarray)] /\ dents'[n] = 0
      /\ \A m \in Names \ {n} : dents'[m] = dents[m]
  <2>1. dents \in [Names -> 0 .. Len(semarray)]
    BY <1>3 DEF TypeOK
  <2>2. CASE pc[t] = "insert"
    <3>1. dents' = dents /\ dents[n] = 0
      BY <1>1, <1>2, <2>2
    <3>2. QED
      BY <2>1, <3>1
  <2>3. CASE pc[t] # "insert"
    <3>1. dents' = [dents EXCEPT ![n] = 0]
      BY <1>2, <2>3
    <3>2. QED
      BY <1>3, <2>1, <3>1
  <2>4. QED
    BY <2>2, <2>3
<1>8. TypeOK'
  <2>1. /\ dents' \in [Names -> 0 .. Len(semarray')]
        /\ dirlock' \in Threads \cup {NULL} /\ UNCHANGED <<tablelock, vnode, ref, units>>
        /\ 0 .. Len(semarray) \subseteq 0 .. Len(semarray') /\ semnum' \in [Threads -> 0 .. Len(semarray')]
        /\ broken' \in {"no", "assertion", "destroyed", "no vnode", "cv"}
    BY <1>0, <1>2, <1>5, <1>6, <1>7
  <2>2. QED
    BY <1>3, <1>4, <1>5, <1>6, <2>1, DirTypes, Zenon
<1>9. "idle" \notin Looking \cup Creating \cup Removing \cup Private \cup {"link", "getvnode"} \cup DirHolding
  BY DEF Removing, Looking, Creating, Private, DirHolding
<1>10. DirFrame(t)
  BY <1>1, <1>2, <1>6, <1>9 DEF DirFrame
<1>11. SemFrame(t, s)
  BY <1>0, <1>1, <1>3, <1>4, <1>6 DEF SemFrame
<1> PICK k : k = IF pc[t] = "insert" THEN 0 ELSE i
  OBVIOUS
<1>12. SlotFrame(s, k)
  BY <1>1, <1>2, <1>5 DEF SlotFrame, Slots
<1>13. DentFrame(t, s, k, n)
  BY <1>1, <1>7 DEF DentFrame
<1>14. (Looker(t) /\ Creator(t) /\ Remover(t))'
  BY <1>6, <1>9 DEF Looker, Creator, Remover
<1>15. broken' # "assertion"
  BY <1>0, <1>2
<1>16. QED
  BY <1>0, <1>6, <1>8, <1>10, <1>11, <1>12, <1>13, <1>14, <1>15, DirStepInv

\* A semaphore comes into the table: into a free slot, or behind the last one.
LEMMA SlotFilled ==
  ASSUME TypeOK, NEW s \in Sems, NEW k,
         \/ k \in Slots /\ semarray[k] = NULL /\ semarray' = [semarray EXCEPT ![k] = s]
         \/ k = Len(semarray) + 1 /\ semarray' = Append(semarray, s)
  PROVE  /\ semarray' \in Seq(Sems \cup {NULL}) /\ 0 .. Len(semarray) \subseteq 0 .. Len(semarray')
         /\ k \in 0 .. Len(semarray') /\ Slots' = Slots \cup {k}
         /\ semarray'[k] = s /\ \A j \in Slots \ {k} : semarray'[j] = semarray[j]
         /\ k \in Slots => semarray[k] = NULL
<1>1. semarray \in Seq(Sems \cup {NULL}) /\ Len(semarray) \in Nat /\ Slots = 1 .. Len(semarray)
  BY Semarray, Zenon
<1>2. CASE k \in Slots /\ semarray[k] = NULL /\ semarray' = [semarray EXCEPT ![k] = s]
  <2>1. semarray' \in Seq(Sems \cup {NULL}) /\ Len(semarray') = Len(semarray) /\ Slots' = Slots
    BY <1>2, SlotSet
  <2>2. semarray'[k] = s /\ \A j \in Slots \ {k} : semarray'[j] = semarray[j]
    BY <1>2, SlotSet
  <2>3. k \in 0 .. Len(semarray)
    BY <1>1, <1>2
  <2>4. 0 .. Len(semarray) \subseteq 0 .. Len(semarray') /\ k \in 0 .. Len(semarray')
    BY <2>1, <2>3
  <2>5. Slots' = Slots \cup {k} /\ (k \in Slots => semarray[k] = NULL)
    <3>1. k \in Slots /\ semarray[k] = NULL
      BY <1>2
    <3>2. Slots = Slots \cup {k}
      BY <3>1, Zenon
    <3>3. QED
      BY <2>1, <3>1, <3>2, Zenon
  <2>6. QED
    BY <2>1, <2>2, <2>4, <2>5, Zenon
<1>3. CASE k = Len(semarray) + 1 /\ semarray' = Append(semarray, s)
  <2>1. /\ semarray' \in Seq(Sems \cup {NULL}) /\ Len(semarray') = Len(semarray) + 1
        /\ Slots' = 1 .. (Len(semarray) + 1)
    BY <1>1, <1>3 DEF Slots
  <2>2. \A j \in Slots : semarray'[j] = semarray[j]
    BY <1>1, <1>3
  <2>3. semarray'[k] = s
    BY <1>1, <1>3
  <2>4. 0 .. Len(semarray) \subseteq 0 .. (Len(semarray) + 1) /\ k \in 0 .. (Len(semarray) + 1)
        /\ 1 .. (Len(semarray) + 1) = 1 .. Len(semarray) \cup {k} /\ k \notin 1 .. Len(semarray)
    BY <1>1, <1>3
  <2>5. QED
    BY <1>1, <2>1, <2>2, <2>3, <2>4
<1>4. QED
  BY <1>2, <1>3

\* semfs_sem_insert
LEMMA SemInsertInv == ASSUME IInv, NEW t \in Threads, SemInsert(t) PROVE IInv'
<1>0. pc[t] = "insert" /\ broken = "no" /\ tablelock = NULL /\ "insert" \in Private \cap Creating
      /\ Creating \cap Locking = {}
  BY DEF SemInsert, At, Private, Creating, Locking
<1>1. PICK s \in Sems, n \in Names, i \in 0 .. Len(semarray) : CreatorFacts(t, s, n, i)
  BY <1>0, CreatorKnows
<1>2. PICK k :
        /\ \/ k \in Slots /\ semarray[k] = NULL /\ semarray' = [semarray EXCEPT ![k] = s]
           \/ k = Len(semarray) + 1 /\ semarray' = Append(semarray, s)
        /\ semnum' = [semnum EXCEPT ![t] = k] /\ Goto(t, "dent")
        /\ UNCHANGED <<locks, dents, sem, vnode, ref, name, cur, units, broken>>
  BY <1>1 DEF SemInsert, CreatorFacts, FreeSlots, Slots
<1>3. TypeOK /\ sem \in [Sems -> SemType] /\ NULL \notin Sems \cup Threads
  BY SemFSAssumption DEF IInv, TypeOK, SemType
<1>4. /\ semarray' \in Seq(Sems \cup {NULL}) /\ 0 .. Len(semarray) \subseteq 0 .. Len(semarray')
      /\ k \in 0 .. Len(semarray') /\ Slots' = Slots \cup {k}
      /\ semarray'[k] = s /\ \A j \in Slots \ {k} : semarray'[j] = semarray[j]
      /\ k \in Slots => semarray[k] = NULL
  BY <1>2, <1>3, SlotFilled
<1>5. /\ pc'[t] = "dent" /\ pc' \in [Threads -> Labels] /\ \A u \in Threads \ {t} : pc'[u] = pc[u]
  BY <1>2, <1>3, LocalTypes DEF Labels, Creating
<1>6. /\ name' = name /\ cur' = cur /\ semnum'[t] = k /\ OthersKeep(t)
      /\ name' \in [Threads -> Names \cup {NULL}] /\ cur' \in [Threads -> Sems \cup {NULL}]
      /\ semnum' \in [Threads -> 0 .. Len(semarray')]
  <2>1. semnum \in [Threads -> 0 .. Len(semarray)]
    BY <1>3 DEF TypeOK
  <2>2. semnum \in [Threads -> 0 .. Len(semarray')]
    BY <1>4, <2>1
  <2>3. name \in [Threads -> Names \cup {NULL}] /\ cur \in [Threads -> Sems \cup {NULL}]
    BY <1>3 DEF TypeOK
  <2>4. QED
    BY <1>2, <1>4, <1>5, <2>2, <2>3 DEF OthersKeep
<1>7. TypeOK'
  <2>1. dents \in [Names -> 0 .. Len(semarray)] /\ dirlock \in Threads \cup {NULL}
    BY <1>3 DEF TypeOK
  <2>2. dents \in [Names -> 0 .. Len(semarray')]
    BY <1>4, <2>1
  <2>3. dents' = dents /\ dirlock' = dirlock /\ sem' = sem /\ UNCHANGED <<tablelock, vnode, ref, units>>
        /\ broken' \in {"no", "assertion", "destroyed", "no vnode", "cv"}
    BY <1>0, <1>2 DEF locks
  <2>4. /\ dents' \in [Names -> 0 .. Len(semarray')] /\ dirlock' \in Threads \cup {NULL}
        /\ sem' \in [Sems -> SemType]
    BY <1>3, <2>1, <2>2, <2>3
  <2>5. QED
    BY <1>3, <1>4, <1>5, <1>6, <2>3, <2>4, DirTypes, Zenon
<1>8. /\ "dent" \in Creating \cap Private \cap DirHolding
      /\ "dent" \notin Looking \cup Removing \cup Blank \cup Locking \cup {"link", "getvnode"}
  BY DEF Removing, Looking, Creating, Private, DirHolding, Blank, Locking
<1>9. DirFrame(t)
  BY <1>0, <1>1, <1>2, <1>5, <1>6, <1>8 DEF DirFrame, CreatorFacts, locks
<1>10. SemFrame(t, s)
  <2>1. sem[s].lock # t
    BY <1>0 DEF IInv, Intact, SemLocks
  <2>2. QED
    BY <1>0, <1>1, <1>2, <1>3, <1>5, <1>6, <1>8, <2>1 DEF SemFrame, CreatorFacts
<1>11. SlotFrame(s, k)
  BY <1>0, <1>1, <1>2, <1>4 DEF SlotFrame, CreatorFacts
<1>12. DentFrame(t, s, k, n)
  <2>1. \A m \in Names \ {n} : dents[m] # 0 =>
          dents[m] \in Slots /\ semarray[dents[m]] # NULL /\ semarray[dents[m]] # s
    BY <1>0, <1>1, <1>3, OtherEntries DEF CreatorFacts
  <2>2. QED
    BY <1>0, <1>1, <1>2, <1>4, <2>1 DEF DentFrame, CreatorFacts
<1>13. Creator(t)'
  <2>1. \A u \in Threads : cur'[u] = s => u = t
    BY <1>0, <1>1, <1>6 DEF CreatorFacts
  <2>2. QED
    BY <1>0, <1>1, <1>2, <1>4, <1>5, <1>6, <2>1 DEF Creator, CreatorFacts
<1>14. (Looker(t) /\ Remover(t))'
  BY <1>5, <1>8 DEF Looker, Remover
<1>15. QED
  BY <1>0, <1>2, <1>5, <1>7, <1>8, <1>9, <1>10, <1>11, <1>12, <1>13, <1>14, DirStepInv

\* semfs_direntry_create
LEMMA CreatDentInv == ASSUME IInv, NEW t \in Threads, CreatDent(t) PROVE IInv'
<1>0. pc[t] = "dent" /\ broken = "no" /\ "dent" \in Private \cap Creating
      /\ Creating \cap Locking = {}
  BY DEF CreatDent, At, Private, Creating, Locking
<1>1. PICK s \in Sems, n \in Names, i \in 0 .. Len(semarray) : CreatorFacts(t, s, n, i)
  BY <1>0, CreatorKnows
<1>2. /\ dents' = [dents EXCEPT ![n] = i] /\ Goto(t, "newvnode")
      /\ UNCHANGED <<locks, semarray, sem, vnode, locals, broken>>
  BY <1>1 DEF CreatDent, CreatorFacts
<1>3. TypeOK /\ sem \in [Sems -> SemType] /\ NULL \notin Sems \cup Threads
  BY SemFSAssumption DEF IInv, TypeOK, SemType
<1>4. /\ dents' \in [Names -> 0 .. Len(semarray)] /\ dents'[n] = i
      /\ \A m \in Names \ {n} : dents'[m] = dents[m]
  BY <1>2, <1>3 DEF TypeOK
<1>5. /\ pc'[t] = "newvnode" /\ pc' \in [Threads -> Labels] /\ OthersKeep(t)
      /\ UNCHANGED <<name, semnum, cur>>
      /\ name' \in [Threads -> Names \cup {NULL}]
      /\ semnum' \in [Threads -> 0 .. Len(semarray)] /\ cur' \in [Threads -> Sems \cup {NULL}]
  BY <1>2, <1>3, LocalTypes DEF Labels, Creating, locals
<1>6. TypeOK'
  <2>1. /\ semarray' \in Seq(Sems \cup {NULL}) /\ dents' \in [Names -> 0 .. Len(semarray')]
        /\ dirlock' \in Threads \cup {NULL} /\ sem' \in [Sems -> SemType]
        /\ UNCHANGED <<tablelock, vnode, ref, units>>
        /\ 0 .. Len(semarray) \subseteq 0 .. Len(semarray') /\ semnum' \in [Threads -> 0 .. Len(semarray')]
        /\ broken' \in {"no", "assertion", "destroyed", "no vnode", "cv"}
    BY <1>2, <1>3, <1>4, <1>5 DEF TypeOK, locks, locals
  <2>2. QED
    BY <1>3, <1>5, <2>1, DirTypes, Zenon
<1>7. /\ "newvnode" \in Creating \cap Private \cap DirHolding
      /\ "newvnode" \notin Looking \cup Removing \cup Blank \cup Locking \cup {"link", "getvnode"}
  BY DEF Removing, Looking, Creating, Private, DirHolding, Blank, Locking
<1>8. DirFrame(t)
  BY <1>0, <1>1, <1>2, <1>5, <1>7 DEF DirFrame, CreatorFacts, locks, locals
<1>9. SemFrame(t, s)
  <2>1. sem[s].lock # t
    BY <1>0 DEF IInv, Intact, SemLocks
  <2>2. QED
    BY <1>0, <1>1, <1>2, <1>3, <1>5, <1>7, <2>1 DEF SemFrame, CreatorFacts
<1>10. SlotFrame(s, i)
  BY <1>0, <1>1, <1>2 DEF SlotFrame, CreatorFacts, Slots
<1>11. DentFrame(t, s, i, n)
  BY <1>0, <1>1, <1>2, <1>4, <1>5, <1>7 DEF DentFrame, CreatorFacts
<1>12. Creator(t)'
  BY <1>0, <1>1, <1>2, <1>4, <1>5, <1>7 DEF Creator, CreatorFacts, Slots
<1>13. (Looker(t) /\ Remover(t))'
  BY <1>5, <1>7 DEF Looker, Remover
<1>14. QED
  BY <1>0, <1>2, <1>5, <1>6, <1>7, <1>8, <1>9, <1>10, <1>11, <1>12, <1>13, DirStepInv

\* sems_linked is set and the directory unlocked.
LEMMA CreatLinkInv == ASSUME IInv, NEW t \in Threads, CreatLink(t) PROVE IInv'
<1>0. /\ pc[t] = "link" /\ broken = "no" /\ "link" \in Creating /\ "link" \notin {"insert", "dent"}
      /\ Creating \cap Locking = {}
  BY DEF CreatLink, At, Creating, Locking
<1>1. PICK s \in Sems, n \in Names, i \in 0 .. Len(semarray) : CreatorFacts(t, s, n, i)
  BY <1>0, CreatorKnows
<1>2. /\ sem' = [sem EXCEPT ![s].linked = TRUE] /\ dirlock' = NULL
      /\ Goto(t, "idle") /\ Set(t, NULL, 0, NULL)
      /\ UNCHANGED <<tablelock, semarray, dents, vnode, ref, units, broken>>
  BY <1>1 DEF CreatLink, CreatorFacts, Idle
<1>3. TypeOK /\ sem \in [Sems -> SemType] /\ NULL \notin Sems \cup Threads /\ 0 \in 0 .. Len(semarray)
  <2>1. TypeOK
    BY DEF IInv
  <2>2. 0 \in 0 .. Len(semarray)
    BY <2>1, Indices
  <2>3. QED
    BY <2>1, <2>2, SemFSAssumption DEF TypeOK, SemType
<1>4. /\ sem' \in [Sems -> SemType] /\ \A r \in Sems \ {s} : sem'[r] = sem[r]
      /\ sem'[s].live /\ sem'[s].linked
      /\ sem'[s].hasvnode = sem[s].hasvnode /\ sem'[s].lock = sem[s].lock
  <2>1. sem' = [sem EXCEPT ![s].linked = TRUE] /\ sem[s].live
    BY <1>1, <1>2 DEF CreatorFacts
  <2>2. sem[s] \in SemType
    BY <1>3
  <2>3. PICK x \in SemType : x = [sem[s] EXCEPT !.linked = TRUE]
    BY <2>2 DEF SemType
  <2>4. x.live /\ x.linked /\ x.hasvnode = sem[s].hasvnode /\ x.lock = sem[s].lock
    BY <2>1, <2>2, <2>3 DEF SemType
  <2>5. sem' = [sem EXCEPT ![s] = x]
    BY <2>1, <2>3
  <2>6. QED
    BY <1>3, <2>4, <2>5
<1>5. /\ pc'[t] = "idle" /\ pc' \in [Threads -> Labels] /\ OthersKeep(t)
      /\ name' \in [Threads -> Names \cup {NULL}] /\ cur'[t] = NULL
      /\ semnum' \in [Threads -> 0 .. Len(semarray)] /\ cur' \in [Threads -> Sems \cup {NULL}]
  BY <1>2, <1>3, LocalTypes DEF Labels
<1>6. TypeOK'
  <2>1. /\ semarray' \in Seq(Sems \cup {NULL}) /\ dents' \in [Names -> 0 .. Len(semarray')]
        /\ dirlock' \in Threads \cup {NULL} /\ UNCHANGED <<tablelock, vnode, ref, units>>
        /\ 0 .. Len(semarray) \subseteq 0 .. Len(semarray') /\ semnum' \in [Threads -> 0 .. Len(semarray')]
        /\ broken' \in {"no", "assertion", "destroyed", "no vnode", "cv"}
    BY <1>2, <1>3, <1>5 DEF TypeOK
  <2>2. QED
    BY <1>3, <1>4, <1>5, <2>1, DirTypes, Zenon
<1>7. "idle" \notin Looking \cup Creating \cup Removing \cup Private \cup {"link", "getvnode"} \cup DirHolding
  BY DEF Removing, Looking, Creating, Private, DirHolding
<1>8. DirFrame(t)
  BY <1>1, <1>2, <1>5, <1>7 DEF DirFrame, CreatorFacts
<1>9. SemFrame(t, s)
  <2>1. sem[s].lock # t
    BY <1>0 DEF IInv, Intact, SemLocks
  <2>2. \E j \in Slots' : semarray'[j] = s
    BY <1>0, <1>1, <1>2 DEF CreatorFacts, Slots
  <2>3. QED
    BY <1>0, <1>1, <1>3, <1>4, <1>5, <1>7, <2>1, <2>2 DEF SemFrame, CreatorFacts
<1>10. SlotFrame(s, i)
  BY <1>1, <1>2, <1>4 DEF SlotFrame, Slots
<1>11. DentFrame(t, s, i, n)
  BY <1>0, <1>1, <1>2, <1>4 DEF DentFrame, CreatorFacts, Slots
<1>12. (Looker(t) /\ Creator(t) /\ Remover(t))'
  BY <1>5, <1>7 DEF Looker, Creator, Remover
<1>13. QED
  BY <1>0, <1>2, <1>5, <1>6, <1>8, <1>9, <1>10, <1>11, <1>12, DirStepInv

\* semfs_sem_create: the semaphore is nobody's.
LEMMA CreatSemInv == ASSUME IInv, NEW t \in Threads, CreatSem(t) PROVE IInv'
<1>0. pc[t] = "idle" /\ broken = "no" /\ dirlock = NULL /\ ref[t] = NULL
      /\ "idle" \notin Creating \cup Removing \cup Locking
  BY DEF CreatSem, At, Creating, Removing, Locking
<1>1. PICK s \in Sems, n \in Names :
        /\ dents[n] = 0 /\ ~ sem[s].live /\ Set(t, n, 0, s)
        /\ sem' = [sem EXCEPT ![s] = Fresh] /\ dirlock' = t /\ Goto(t, "insert")
        /\ UNCHANGED <<tablelock, semarray, dents, vnode, ref, units, broken>>
  BY DEF CreatSem, Fresh
<1>2. TypeOK /\ sem \in [Sems -> SemType] /\ NULL \notin Sems \cup Threads /\ 0 \in 0 .. Len(semarray)
  <2>1. TypeOK
    BY DEF IInv
  <2>2. 0 \in 0 .. Len(semarray)
    BY <2>1, Indices
  <2>3. QED
    BY <2>1, <2>2, SemFSAssumption DEF TypeOK, SemType
<1>3. /\ sem[s].hasvnode = FALSE /\ sem[s].linked = FALSE
      /\ \A j \in Slots : semarray[j] # s
      /\ \A m \in Names \ {n} : dents[m] # 0 => semarray[dents[m]] # s
      /\ \A u \in Threads : cur[u] # s
  <2>1. sem[s].hasvnode = FALSE /\ sem[s].linked = FALSE /\ \A j \in Slots : semarray[j] # s
    BY <1>0, <1>1, <1>2 DEF IInv, Intact, SlotsKnown, SemType
  <2>2. \A m \in Names \ {n} : dents[m] # 0 => semarray[dents[m]] # s
    BY <1>0, <2>1, OneInDir
  <2>3. ASSUME NEW u \in Threads, cur[u] = s
        PROVE  FALSE
    <3>1. pc[u] \notin DirHolding
      BY <1>0, <1>2, OneInDir
    <3>2. pc[u] # "linked?"
      BY <1>0, <1>2, <2>1, <2>3, SemFSAssumption DEF IInv, Intact, ThreadsKnown, Reclaimer
    <3>3. pc[u] \notin Using
      BY <1>0, <1>1, <2>3 DEF IInv, Intact, ThreadsKnown, User
    <3>4. pc[u] \notin Blank
      BY <1>0, <1>2, <2>3 DEF IInv, Intact, ThreadsKnown
    <3>5. pc[u] \in Labels
      BY <1>2 DEF TypeOK
    <3>6. QED
      BY <3>1, <3>2, <3>3, <3>4, <3>5 DEF Labels, Blank, DirHolding, Looking
  <2>4. QED
    BY <2>1, <2>2, <2>3
<1>4. /\ sem' \in [Sems -> SemType] /\ sem'[s] = Fresh /\ \A r \in Sems \ {s} : sem'[r] = sem[r]
  BY <1>1, <1>2, SemPut, NewSems
<1>5. /\ pc'[t] = "insert" /\ pc' \in [Threads -> Labels] /\ OthersKeep(t)
      /\ name' \in [Threads -> Names \cup {NULL}] /\ name'[t] = n /\ cur'[t] = s
      /\ semnum' \in [Threads -> 0 .. Len(semarray)] /\ cur' \in [Threads -> Sems \cup {NULL}]
  BY <1>1, <1>2, LocalTypes DEF Labels, Creating
<1>6. TypeOK'
  <2>1. /\ semarray' \in Seq(Sems \cup {NULL}) /\ dents' \in [Names -> 0 .. Len(semarray')]
        /\ dirlock' \in Threads \cup {NULL} /\ UNCHANGED <<tablelock, vnode, ref, units>>
        /\ 0 .. Len(semarray) \subseteq 0 .. Len(semarray') /\ semnum' \in [Threads -> 0 .. Len(semarray')]
        /\ broken' \in {"no", "assertion", "destroyed", "no vnode", "cv"}
    BY <1>1, <1>2, <1>5 DEF TypeOK
  <2>2. QED
    BY <1>2, <1>4, <1>5, <2>1, DirTypes, Zenon
<1>7. /\ "insert" \in Creating \cap Private \cap DirHolding
      /\ "insert" \notin Looking \cup Removing \cup Blank \cup Locking \cup {"link", "getvnode"}
  BY DEF Removing, Looking, Creating, Private, DirHolding, Blank, Locking
<1>8. DirFrame(t)
  BY <1>0, <1>1, <1>5, <1>7 DEF DirFrame
<1>9. SemFrame(t, s)
  BY <1>0, <1>2, <1>3, <1>4, <1>5, <1>7, NewSems DEF SemFrame
<1>10. SlotFrame(s, 0)
  BY <1>1, <1>3 DEF SlotFrame, Slots
<1>11. DentFrame(t, s, 0, n)
  BY <1>0, <1>1, <1>3 DEF DentFrame
<1>12. Creator(t)'
  <2>1. \A u \in Threads : cur'[u] = s => u = t
    BY <1>3, <1>5 DEF OthersKeep
  <2>2. QED
    BY <1>1, <1>3, <1>4, <1>5, <2>1, NewSems DEF Creator, Slots
<1>13. (Looker(t) /\ Remover(t))'
  BY <1>5, <1>7 DEF Looker, Remover
<1>14. QED
  BY <1>0, <1>1, <1>5, <1>6, <1>7, <1>8, <1>9, <1>10, <1>11, <1>12, <1>13, DirStepInv

-----------------------------------------------------------------------------
(* semfs_getvnode *)

\* Thread t comes to hold vnode v, found in the table or new there, of the
\* semaphore s with number i.
GainFrame(t, v, s, i) ==
  /\ v \in Vnodes /\ s \in Sems /\ i \in Slots /\ semarray[i] = s
  /\ tablelock = NULL /\ UNCHANGED <<semarray, dents, tablelock, broken>> /\ OthersKeep(t)
  /\ ref[t] = NULL /\ ref' = [ref EXCEPT ![t] = v]
  /\ \A w \in Vnodes \ {v} : vnode'[w] = vnode[w]
  /\ vnode'[v].live /\ vnode'[v].table /\ vnode'[v].semnum = i
  /\ vnode'[v].refcount = Cardinality(Holders(v)) + 1
  /\ InTable(v, i) \/ (~ vnode[v].live /\ \A w \in Vnodes : ~ InTable(w, i))
  /\ \A r \in Sems \ {s} : sem'[r] = sem[r]
  /\ sem'[s].hasvnode
  /\ sem'[s].live = sem[s].live /\ sem'[s].linked = sem[s].linked /\ sem'[s].lock = sem[s].lock
  /\ \/ pc[t] = "getvnode" /\ pc'[t] = "idle" /\ cur'[t] = NULL /\ dirlock' = NULL
     \/ /\ pc[t] = "newvnode" /\ pc'[t] = "link" /\ i = semnum[t] /\ dirlock' = dirlock
        /\ cur'[t] = cur[t] /\ name'[t] = name[t] /\ semnum'[t] = semnum[t]

LEMMA GainInv ==
  ASSUME IInv, broken = "no", NEW t \in Threads, NEW v, NEW s, NEW i, TypeOK', GainFrame(t, v, s, i)
  PROVE  IInv'
<1> USE DEF IInv, Intact
<1>1. /\ v \in Vnodes /\ s \in Sems /\ i \in Slots /\ semarray[i] = s /\ sem[s].live /\ s # NULL
      /\ NULL \notin Vnodes \cup Sems \cup Threads /\ Slots' = Slots
      /\ \A j \in Slots : semarray[j] \in Sems \cup {NULL}
      /\ UNCHANGED <<semarray, dents, tablelock, broken>>
  BY SemFSAssumption, Indices DEF GainFrame, SlotsKnown, Slots
<1>2. /\ {"getvnode", "newvnode"} \subseteq DirHolding
      /\ {"getvnode", "newvnode"} \cap (Using \cup Reclaiming \cup Removing \cup Locking \cup {"link", "reclaim"}) = {}
      /\ {"idle", "link"} \cap (Using \cup Reclaiming \cup Removing \cup Locking \cup Private
                                 \cup Looking \cup {"reclaim"}) = {}
      /\ {"newvnode", "link"} \subseteq Creating /\ {"idle", "getvnode"} \cap Creating = {}
      /\ "link" \in DirHolding /\ "idle" \notin DirHolding /\ "link" \notin Blank
      /\ "getvnode" \in Private \cup {"getvnode"}
  BY DEF DirHolding, Using, Reclaiming, Removing, Locking, Private, Looking, Creating, Blank
<1>3. pc[t] \in {"getvnode", "newvnode"} /\ pc'[t] \in {"idle", "link"}
  BY DEF GainFrame
<1>4. /\ dirlock = t /\ \A u \in Threads \ {t} : pc'[u] = pc[u] /\ pc[u] \notin DirHolding
      /\ \A u \in Threads : pc[u] # "linked?" /\ pc'[u] # "linked?"
  <2>1. dirlock = t /\ \A u \in Threads \ {t} : pc'[u] = pc[u] /\ pc[u] \notin DirHolding
    BY <1>2, <1>3, OneInDir DEF GainFrame, OthersKeep
  <2>2. \A u \in Threads : pc[u] # "linked?"
    BY <1>1 DEF LocksHeld, GainFrame
  <2>3. QED
    BY <1>2, <1>3, <2>1, <2>2
<1>5. /\ ref'[t] = v /\ \A u \in Threads \ {t} : ref'[u] = ref[u]
      /\ \A u \in Threads : ref[u] # NULL =>
           ref[u] \in Vnodes /\ vnode'[ref[u]].live /\ vnode'[ref[u]].table = vnode[ref[u]].table
           /\ vnode'[ref[u]].semnum = vnode[ref[u]].semnum
  <2>1. ref'[t] = v /\ \A u \in Threads \ {t} : ref'[u] = ref[u]
    BY DEF GainFrame, TypeOK
  <2>2. ASSUME NEW u \in Threads, ref[u] # NULL
        PROVE  /\ ref[u] \in Vnodes /\ vnode'[ref[u]].live /\ vnode'[ref[u]].table = vnode[ref[u]].table
               /\ vnode'[ref[u]].semnum = vnode[ref[u]].semnum
    <3>1. ref[u] \in Vnodes /\ vnode[ref[u]].live
      BY <2>2 DEF RefsLive, TypeOK
    <3>2. /\ vnode[ref[u]].table \in BOOLEAN /\ vnode'[ref[u]].table \in BOOLEAN
      BY <3>1 DEF TypeOK
    <3>3. QED
      BY <3>1, <3>2 DEF GainFrame, InTable
  <2>3. QED
    BY <2>1, <2>2
<1>6. UniqueInTable' /\ AssertionsHold'
  BY DEF UniqueInTable, AssertionsHold, GainFrame, InTable
<1>7. LocksHeld'
  BY <1>2, <1>3, <1>4, LocksKept DEF GainFrame
<1>8. RefsKnown'
  <2>1. ASSUME NEW u \in Threads \ {t}
        PROVE  /\ pc'[u] \in Private \cup {"getvnode"} => ref'[u] = NULL
               /\ pc'[u] \in Using \cup Reclaiming \cup {"link", "reclaim"} => ref'[u] # NULL
               /\ ref'[u] # NULL => (vnode'[ref'[u]].table <=> pc'[u] \notin Reclaiming)
               /\ pc'[u] \in Reclaiming => ref'[u] # v /\ \A x \in Threads \ {t} : ref[x] = ref[u] => x = u
    <3>1. pc'[u] \in Reclaiming => ref'[u] # v
      <4>1. SUFFICES ASSUME pc[u] \in Reclaiming, ref[u] = v PROVE FALSE
        BY <1>4, <1>5
      <4>2. vnode[v].live /\ ~ vnode[v].table
        BY <1>1, <4>1 DEF RefsKnown, RefsLive
      <4>3. QED
        BY <4>2 DEF GainFrame, InTable
    <3>2. QED
      BY <1>4, <1>5, <3>1 DEF RefsKnown
  <2>2. /\ pc'[t] \notin Private \cup {"getvnode"} \cup Reclaiming
        /\ ref'[t] # NULL /\ vnode'[ref'[t]].table
    BY <1>1, <1>2, <1>3, <1>5 DEF GainFrame
  <2>3. QED
    BY <1>5, <2>1, <2>2 DEF RefsKnown
<1>9. TableKnown'
  BY <1>1 DEF TableKnown, GainFrame
<1>10. HasvnodeKnown'
  <2>1. ASSUME NEW j \in Slots, semarray[j] # NULL
        PROVE  sem'[semarray[j]].hasvnode <=> \E w \in Vnodes : InTable(w, j)'
    <3>1. CASE j = i
      BY <1>1, <3>1 DEF GainFrame, InTable
    <3>2. CASE j # i
      <4>1. semarray[j] \in Sems \ {s}
        BY <1>1, <2>1, <3>2 DEF SlotsKnown
      <4>2. \A w \in Vnodes : InTable(w, j)' <=> InTable(w, j)
        BY <3>2 DEF GainFrame, InTable, TableKnown
      <4>3. QED
        BY <2>1, <4>1, <4>2 DEF HasvnodeKnown, GainFrame
    <3>3. QED
      BY <3>1, <3>2
  <2>2. QED
    BY <1>1, <2>1 DEF HasvnodeKnown
<1>11. SlotsKnown'
  <2>1. \A r \in Sems : /\ sem'[r].live = sem[r].live /\ sem'[r].linked = sem[r].linked
                        /\ r # s => sem'[r].hasvnode = sem[r].hasvnode
    BY DEF GainFrame
  <2>2. \A j \in Slots : semarray[j] # NULL => sem'[semarray[j]].live
    BY <1>1, <2>1 DEF SlotsKnown
  <2>3. \A r \in Sems : sem'[r].linked \/ sem'[r].hasvnode => sem'[r].live
    BY <1>1, <2>1 DEF SlotsKnown
  <2>4. QED
    BY <1>1, <2>2, <2>3 DEF SlotsKnown
<1>12. DentsKnown'
  <2>1. ASSUME NEW n \in Names, dents[n] # 0
        PROVE  \/ semarray[dents[n]] # NULL /\ sem'[semarray[dents[n]]].linked
               \/ \E u \in Threads : name'[u] = n /\ pc'[u] \in Creating \cup Removing
    <3>1. dents[n] \in Slots
      BY <2>1, Indices
    <3>2. CASE semarray[dents[n]] # NULL /\ sem[semarray[dents[n]]].linked
      BY <1>1, <3>1, <3>2 DEF GainFrame
    <3>3. CASE \E u \in Threads : name[u] = n /\ pc[u] \in Creating \cup Removing
      BY <1>2, <1>4, <3>3 DEF GainFrame, OthersKeep
    <3>4. QED
      BY <2>1, <3>2, <3>3 DEF DentsKnown
  <2>2. QED
    BY <1>1, <2>1 DEF DentsKnown
<1>13. ThreadsKnown'
  <2>1. ASSUME NEW u \in Threads \ {t}
        PROVE  /\ (Looker(u) /\ Creator(u) /\ Remover(u) /\ Reclaimer(u) /\ User(u))'
               /\ pc'[u] \in Blank => cur'[u] = NULL
    <3>1. /\ pc'[u] = pc[u] /\ pc[u] \notin DirHolding /\ cur'[u] = cur[u]
      BY <1>4 DEF GainFrame, OthersKeep
    <3>2. (Looker(u) /\ Creator(u) /\ Remover(u))'
      BY <3>1 DEF Looker, Creator, Remover, DirHolding
    <3>3. Reclaimer(u)'
      BY <1>4 DEF Reclaimer
    <3>4. User(u)'
      <4>1. SUFFICES ASSUME pc[u] \in Using PROVE User(u)'
        BY <3>1 DEF User
      <4>2. /\ cur[u] \in Sems /\ sem[cur[u]].live /\ sem[cur[u]].hasvnode
            /\ semarray[vnode[ref[u]].semnum] = cur[u] /\ ref[u] # NULL
        BY <4>1 DEF ThreadsKnown, User, RefsKnown
      <4>3. sem'[cur[u]].live /\ sem'[cur[u]].hasvnode
        BY <4>2 DEF GainFrame
      <4>4. QED
        BY <1>1, <1>5, <3>1, <4>2, <4>3 DEF User
    <3>5. QED
      BY <3>1, <3>2, <3>3, <3>4 DEF ThreadsKnown
  <2>2. (Looker(t) /\ Remover(t) /\ Reclaimer(t) /\ User(t))'
    BY <1>2, <1>3, <1>4 DEF Looker, Remover, Reclaimer, User
  <2>3. Creator(t)'
    <3>1. CASE pc'[t] = "idle"
      BY <1>2, <3>1 DEF Creator
    <3>2. CASE pc'[t] = "link"
      <4>1. /\ pc[t] = "newvnode" /\ i = semnum[t]
            /\ cur'[t] = cur[t] /\ name'[t] = name[t] /\ semnum'[t] = semnum[t]
        BY <3>2 DEF GainFrame
      <4>2. /\ name[t] \in Names /\ cur[t] \in Sems
            /\ sem[cur[t]].live /\ ~ sem[cur[t]].linked
            /\ semnum[t] \in Slots /\ semarray[semnum[t]] = cur[t]
            /\ dents[name[t]] = semnum[t]
        BY <1>2, <4>1 DEF ThreadsKnown, Creator
      <4>3. /\ cur'[t] = s /\ name'[t] = name[t] /\ semnum'[t] = i /\ dents'[name'[t]] = i
            /\ sem'[s].live /\ ~ sem'[s].linked /\ vnode'[ref'[t]].semnum = i
        BY <1>1, <1>5, <4>1, <4>2 DEF GainFrame
      <4>4. QED
        BY <1>1, <3>2, <4>2, <4>3 DEF Creator
    <3>3. QED
      BY <1>3, <3>1, <3>2
  <2>4. pc'[t] \in Blank => cur'[t] = NULL
    BY <1>2 DEF GainFrame
  <2>5. QED
    BY <2>1, <2>2, <2>3, <2>4 DEF ThreadsKnown
<1>14. SemLocks'
  BY <1>2, <1>3, <1>4 DEF SemLocks, GainFrame, OthersKeep
<1>15. SemsKept'
  <2>1. ASSUME NEW r \in Sems, sem'[r].live
        PROVE  \/ (\E j \in Slots : semarray[j] = r) /\ (sem'[r].linked \/ sem'[r].hasvnode)
               \/ \E u \in Threads : cur'[u] = r /\ pc'[u] \in Creating \cup Removing \cup {"linked?"}
    <3>1. CASE r = s
      BY <1>1, <3>1 DEF GainFrame
    <3>2. CASE r # s
      <4>1. sem'[r] = sem[r]
        BY <3>2 DEF GainFrame
      <4>2. CASE \E u \in Threads : cur[u] = r /\ pc[u] \in Creating \cup Removing \cup {"linked?"}
        BY <1>2, <1>4, <4>2 DEF GainFrame, OthersKeep
      <4>3. QED
        BY <2>1, <4>1, <4>2 DEF SemsKept
    <3>3. QED
      BY <3>1, <3>2
  <2>2. QED
    BY <1>1, <2>1 DEF SemsKept
<1>16. Counted'
  <2>1. ref \in [Threads -> Vnodes \cup {NULL}]
    BY DEF TypeOK
  <2>2. \A w \in Vnodes : Cardinality(Holders(w)') =
                            IF w = v THEN Cardinality(Holders(w)) + 1 ELSE Cardinality(Holders(w))
    BY <1>1, <2>1, Gain DEF GainFrame
  <2>3. \A w \in Vnodes : vnode[w].refcount = Cardinality(Holders(w))
    BY DEF Counted, Holders
  <2>4. \A w \in Vnodes : vnode'[w].refcount = Cardinality(Holders(w)')
    BY <2>2, <2>3 DEF GainFrame
  <2>5. QED
    BY <2>4 DEF Counted, Holders
<1>17. RefsLive'
  BY <1>5 DEF RefsLive, GainFrame
<1>18. QED
  BY <1>6, <1>7, <1>8, <1>9, <1>10, <1>11, <1>12, <1>13, <1>14, <1>15, <1>16, <1>17

VnodeType == [live : BOOLEAN, table : BOOLEAN, semnum : 0 .. Len(semarray), refcount : Nat]

\* What semfs_getvnode does to the vnodes and the semaphores.
Gains(t, v, s, i) ==
  /\ v \in Vnodes /\ tablelock = NULL /\ broken' = broken
  /\ ref' = [ref EXCEPT ![t] = v]
  /\ vnode' \in [Vnodes -> VnodeType] /\ sem' \in [Sems -> SemType]
  /\ \A w \in Vnodes \ {v} : vnode'[w] = vnode[w]
  /\ vnode'[v].live /\ vnode'[v].table /\ vnode'[v].semnum = i
  /\ vnode'[v].refcount = Cardinality(Holders(v)) + 1
  /\ InTable(v, i) \/ (~ vnode[v].live /\ \A w \in Vnodes : ~ InTable(w, i))
  /\ \A r \in Sems \ {s} : sem'[r] = sem[r]
  /\ sem'[s].hasvnode
  /\ sem'[s].live = sem[s].live /\ sem'[s].linked = sem[s].linked /\ sem'[s].lock = sem[s].lock

LEMMA GetvnodeGains ==
  ASSUME IInv, broken = "no", NEW t \in Threads, NEW i \in Slots, NEW s \in Sems, semarray[i] = s,
         Getvnode(t, i)
  PROVE  \E v \in Vnodes : Gains(t, v, s, i)
<1>1. /\ i \in 0 .. Len(semarray) /\ s # NULL
      /\ vnode \in [Vnodes -> VnodeType] /\ sem \in [Sems -> SemType]
  <2>1. TypeOK
    BY DEF IInv
  <2>2. i \in 0 .. Len(semarray) /\ s # NULL
    BY <2>1, Indices, SemFSAssumption
  <2>3. vnode \in [Vnodes -> VnodeType] /\ sem \in [Sems -> SemType]
    BY <2>1 DEF TypeOK, VnodeType, SemType
  <2>4. QED
    BY <2>2, <2>3
<1>2. /\ \A v \in Vnodes : vnode[v].refcount = Cardinality(Holders(v)) /\ Cardinality(Holders(v)) \in Nat
      /\ sem[s].hasvnode <=> \E v \in Vnodes : InTable(v, i)
      /\ \A v \in Vnodes : vnode[v].table => vnode[v].live
      /\ \A u \in Threads : ref[u] # NULL => vnode[ref[u]].live
  BY <1>1, HoldersFinite DEF IInv, Intact, Counted, Holders, HasvnodeKnown, TableKnown, RefsLive
<1>3. ASSUME Found(t, i)
      PROVE  \E v \in Vnodes : Gains(t, v, s, i)
  <2>1. PICK v \in Vnodes :
          /\ InTable(v, i) /\ tablelock = NULL
          /\ vnode' = [vnode EXCEPT ![v].refcount = @ + 1]
          /\ ref' = [ref EXCEPT ![t] = v] /\ sem' = sem /\ broken' = broken
    BY <1>3 DEF Found
  <2>2. /\ vnode[v] \in VnodeType /\ vnode[v].refcount \in Nat
        /\ \A c \in Nat : /\ [vnode[v] EXCEPT !.refcount = c] \in VnodeType
                          /\ [vnode[v] EXCEPT !.refcount = c].refcount = c
                          /\ [vnode[v] EXCEPT !.refcount = c].live = vnode[v].live
                          /\ [vnode[v] EXCEPT !.refcount = c].table = vnode[v].table
                          /\ [vnode[v] EXCEPT !.refcount = c].semnum = vnode[v].semnum
    BY <1>1 DEF VnodeType
  <2>3. /\ vnode'[v] = [vnode[v] EXCEPT !.refcount = vnode[v].refcount + 1]
        /\ \A w \in Vnodes \ {v} : vnode'[w] = vnode[w]
        /\ vnode' \in [Vnodes -> VnodeType]
    <3>1. PICK c \in Nat : c = vnode[v].refcount + 1
      BY <2>2
    <3>2. PICK x \in VnodeType : x = [vnode[v] EXCEPT !.refcount = c]
      BY <2>2
    <3>3. vnode' = [vnode EXCEPT ![v] = x]
      BY <2>1, <3>1, <3>2
    <3>4. vnode'[v] = x /\ (\A w \in Vnodes \ {v} : vnode'[w] = vnode[w]) /\ vnode' \in [Vnodes -> VnodeType]
      BY <1>1, <3>3
    <3>5. QED
      BY <3>1, <3>2, <3>4
  <2>4. /\ vnode'[v].live /\ vnode'[v].table /\ vnode'[v].semnum = i
        /\ vnode'[v].refcount = Cardinality(Holders(v)) + 1
    BY <1>2, <2>1, <2>2, <2>3 DEF InTable
  <2>5. sem[s].hasvnode
    BY <1>2, <2>1
  <2>6. Gains(t, v, s, i)
    BY <1>1, <2>1, <2>3, <2>4, <2>5 DEF Gains
  <2>7. QED
    BY <2>6
<1>4. ASSUME Made(t, i)
      PROVE  \E v \in Vnodes : Gains(t, v, s, i)
  <2>1. PICK v \in Vnodes :
          /\ ~ vnode[v].live /\ tablelock = NULL /\ \A w \in Vnodes : ~ InTable(w, i)
          /\ vnode' = [vnode EXCEPT ![v] = [live |-> TRUE, table |-> TRUE, semnum |-> i, refcount |-> 1]]
          /\ ref' = [ref EXCEPT ![t] = v]
    BY <1>4 DEF Made
  <2>2. sem' = [sem EXCEPT ![s].hasvnode = TRUE] /\ broken' = broken
    BY <1>1, <1>2, <1>4, <2>1 DEF Made
  <2>3. [live |-> TRUE, table |-> TRUE, semnum |-> i, refcount |-> 1] \in VnodeType
    BY <1>1 DEF VnodeType
  <2>4. /\ vnode'[v] = [live |-> TRUE, table |-> TRUE, semnum |-> i, refcount |-> 1]
        /\ \A w \in Vnodes \ {v} : vnode'[w] = vnode[w]
        /\ vnode' \in [Vnodes -> VnodeType]
    BY <1>1, <2>1, <2>3
  <2>5. Cardinality(Holders(v)) = 0
    <3>1. Holders(v) = {}
      BY <1>2, <2>1, SemFSAssumption DEF Holders
    <3>2. QED
      BY <3>1, FS_EmptySet
  <2>6. /\ sem' \in [Sems -> SemType] /\ \A r \in Sems \ {s} : sem'[r] = sem[r]
        /\ sem'[s].hasvnode
        /\ sem'[s].live = sem[s].live /\ sem'[s].linked = sem[s].linked /\ sem'[s].lock = sem[s].lock
    <3>1. /\ sem[s] \in SemType
          /\ [sem[s] EXCEPT !.hasvnode = TRUE] \in SemType
      BY <1>1 DEF SemType
    <3>2. /\ sem'[s] = [sem[s] EXCEPT !.hasvnode = TRUE] /\ \A r \in Sems \ {s} : sem'[r] = sem[r]
          /\ sem' \in [Sems -> SemType]
      BY <1>1, <2>2, <3>1
    <3>3. QED
      BY <3>1, <3>2 DEF SemType
  <2>7. /\ vnode'[v].live /\ vnode'[v].table /\ vnode'[v].semnum = i
        /\ vnode'[v].refcount = Cardinality(Holders(v)) + 1
    BY <2>4, <2>5
  <2>8. Gains(t, v, s, i)
    BY <2>1, <2>2, <2>4, <2>6, <2>7 DEF Gains
  <2>9. QED
    BY <2>8
<1>5. QED
  BY <1>3, <1>4 DEF Getvnode

\* semfs_getvnode for a lookup, with or without success.
LEMMA LookupVnodeInv == ASSUME IInv, NEW t \in Threads, LookupVnode(t) PROVE IInv'
<1>0. /\ pc[t] = "getvnode" /\ broken = "no" /\ dirlock' = NULL
      /\ Goto(t, "idle") /\ Set(t, NULL, 0, NULL)
      /\ UNCHANGED <<tablelock, semarray, dents, units>>
  BY DEF LookupVnode, At, Idle
<1>1. PICK s, i : i = semnum[t] /\ s = semarray[i]
  OBVIOUS
<1>2. TypeOK /\ NULL \notin Sems \cup Threads /\ 0 \in 0 .. Len(semarray)
  <2>1. TypeOK
    BY DEF IInv
  <2>2. QED
    BY <2>1, Indices, SemFSAssumption
<1>3. i \in Slots /\ s \in Sems /\ ref[t] = NULL
  <2>1. i \in Slots /\ s # NULL /\ ref[t] = NULL
    BY <1>0, <1>1 DEF IInv, Intact, ThreadsKnown, Looker, Looking, RefsKnown
  <2>2. QED
    BY <1>1, <1>2, <2>1, Indices
<1>4. /\ pc'[t] = "idle" /\ pc' \in [Threads -> Labels] /\ OthersKeep(t)
      /\ name' \in [Threads -> Names \cup {NULL}] /\ cur'[t] = NULL
      /\ semnum' \in [Threads -> 0 .. Len(semarray)] /\ cur' \in [Threads -> Sems \cup {NULL}]
  BY <1>0, <1>2, LocalTypes DEF Labels
<1>5. CASE Getvnode(t, i)
  <2>1. PICK v \in Vnodes : Gains(t, v, s, i)
    BY <1>0, <1>1, <1>3, <1>5, GetvnodeGains
  <2>2. TypeOK'
    <3>1. ref' \in [Threads -> Vnodes \cup {NULL}] /\ vnode' \in [Vnodes -> VnodeType] /\ sem' \in [Sems -> SemType]
      BY <1>2, <2>1 DEF TypeOK, Gains
    <3>2. QED
      BY <1>0, <1>2, <1>4, <2>1, <3>1 DEF TypeOK, VnodeType, SemType, Gains
  <2>3. GainFrame(t, v, s, i)
    BY <1>0, <1>1, <1>3, <1>4, <2>1 DEF GainFrame, Gains
  <2>4. QED
    BY <1>0, <2>2, <2>3, GainInv
<1>6. CASE NotMade(i)
  <2>1. UNCHANGED <<tables, ref, tablelock, broken>>
    BY <1>0, <1>6 DEF NotMade, tables
  <2>2. "idle" \in Labels /\ "getvnode" \in DirHolding /\ "idle" \notin DirHolding /\ "getvnode" \notin Locking
    BY DEF Labels, DirHolding, Looking, Creating, Removing, Locking
  <2>3. dirlock = t
    BY <1>0, <2>2, OneInDir
  <2>4. Mine(t)
    <3>1. {"idle", "getvnode"} \cap (Busy \cup Removing \cup Using \cup {"reclaim"}) = {} /\ "idle" \notin Looking
      BY DEF Busy, Creating, Reclaiming, Removing, Using, Looking
    <3>2. (Looker(t) /\ Remover(t) /\ User(t))'
      BY <1>4, <3>1 DEF Looker, Remover, User
    <3>3. QED
      BY <1>0, <1>4, <3>1, <3>2 DEF Mine, Visible
  <2>5. units' \in [Threads -> 0 .. MaxCount]
    BY <1>0, <1>2 DEF TypeOK
  <2>6. QED
    BY <1>0, <1>4, <2>1, <2>2, <2>3, <2>4, <2>5, LocalInv DEF Goto, OthersKeep
<1>7. QED
  BY <1>1, <1>5, <1>6 DEF LookupVnode

\* semfs_getvnode for a creat.
LEMMA CreatVnodeInv == ASSUME IInv, NEW t \in Threads, CreatVnode(t) PROVE IInv'
<1>0. /\ pc[t] = "newvnode" /\ broken = "no" /\ Goto(t, "link")
      /\ Getvnode(t, semnum[t]) /\ UNCHANGED <<name, semnum, cur, locks, semarray, dents, units>>
      /\ "newvnode" \in Creating /\ "newvnode" \in Private
  BY DEF CreatVnode, At, Keep, Creating, Private
<1>1. PICK s \in Sems, n \in Names, i \in 0 .. Len(semarray) : CreatorFacts(t, s, n, i)
  BY <1>0, CreatorKnows
<1>2. i = semnum[t] /\ i \in Slots /\ semarray[i] = s /\ ref[t] = NULL
  BY <1>0, <1>1 DEF CreatorFacts
<1>3. TypeOK
  BY DEF IInv
<1>4. /\ pc'[t] = "link" /\ pc' \in [Threads -> Labels] /\ OthersKeep(t)
      /\ name' \in [Threads -> Names \cup {NULL}]
      /\ semnum' \in [Threads -> 0 .. Len(semarray)] /\ cur' \in [Threads -> Sems \cup {NULL}]
  BY <1>0, <1>3, LocalTypes DEF Labels, Creating
<1>5. PICK v \in Vnodes : Gains(t, v, s, i)
  BY <1>0, <1>2, GetvnodeGains
<1>6. TypeOK'
  <2>1. ref' \in [Threads -> Vnodes \cup {NULL}] /\ vnode' \in [Vnodes -> VnodeType] /\ sem' \in [Sems -> SemType]
    BY <1>3, <1>5 DEF TypeOK, Gains
  <2>2. QED
    BY <1>0, <1>3, <1>4, <1>5, <2>1 DEF TypeOK, VnodeType, SemType, Gains, locks
<1>7. GainFrame(t, v, s, i)
  BY <1>0, <1>2, <1>4, <1>5 DEF GainFrame, Gains, locks
<1>8. QED
  BY <1>0, <1>6, <1>7, GainInv

-----------------------------------------------------------------------------
(* vnode_decref and the end of semfs_reclaim: a reference goes.            *)

LoseFrame(t, v) ==
  /\ v \in Vnodes /\ ref[t] = v /\ ref' = [ref EXCEPT ![t] = NULL]
  /\ UNCHANGED <<dirlock, tablelock, semarray, dents, sem, name, semnum, cur, broken>>
  /\ \A w \in Vnodes \ {v} : vnode'[w] = vnode[w]
  /\ vnode'[v].refcount = Cardinality(Holders(v)) - 1
  /\ vnode'[v].table <=> vnode[v].table
  /\ \/ (vnode'[v].live <=> vnode[v].live) /\ vnode'[v].semnum = vnode[v].semnum
     \/ ~ vnode[v].table /\ \A u \in Threads \ {t} : ref[u] # v
  /\ pc[t] \in {"idle", "reclaim", "cleanup"} /\ pc'[t] = "idle"
  /\ \A u \in Threads \ {t} : pc'[u] = pc[u]

LEMMA LoseInv ==
  ASSUME IInv, broken = "no", NEW t \in Threads, NEW v, TypeOK', LoseFrame(t, v)
  PROVE  IInv'
<1> USE DEF IInv, Intact
<1>1. Slots' = Slots /\ UNCHANGED <<dirlock, tablelock, semarray, dents, sem, name, semnum, cur, broken>>
  BY DEF LoseFrame, Slots
<1>2. /\ {"idle", "reclaim", "cleanup"} \cap (DirHolding \cup Using \cup Locking \cup Creating \cup Removing
                                               \cup Private \cup Looking) = {}
      /\ "idle" \notin Reclaiming
  BY DEF DirHolding, Using, Locking, Creating, Removing, Private, Looking, Reclaiming
<1>3. /\ ref'[t] = NULL /\ \A u \in Threads \ {t} : ref'[u] = ref[u] /\ pc'[u] = pc[u]
      /\ pc[t] \in {"idle", "reclaim", "cleanup"} /\ pc'[t] = "idle" /\ ref[t] = v
      /\ NULL \notin Vnodes /\ v # NULL
  BY SemFSAssumption DEF LoseFrame, TypeOK
<1>4. /\ \A w \in Vnodes : /\ vnode'[w].table <=> vnode[w].table
                           /\ vnode[w].table =>
                                vnode'[w].semnum = vnode[w].semnum /\ (vnode'[w].live <=> vnode[w].live)
      /\ \A u \in Threads \ {t} : ref[u] # NULL =>
           /\ ref[u] \in Vnodes /\ (vnode'[ref[u]].table <=> vnode[ref[u]].table)
           /\ vnode'[ref[u]].semnum = vnode[ref[u]].semnum /\ (vnode'[ref[u]].live <=> vnode[ref[u]].live)
  <2>1. \A u \in Threads : ref[u] # NULL => ref[u] \in Vnodes
    BY DEF TypeOK
  <2>2. QED
    BY <2>1 DEF LoseFrame
<1>5. \A w \in Vnodes, j \in Slots : InTable(w, j)' <=> InTable(w, j)
  BY <1>4 DEF InTable
<1>6. UniqueInTable' /\ AssertionsHold' /\ TableKnown'
  BY <1>1, <1>4 DEF UniqueInTable, AssertionsHold, TableKnown
<1>7. HasvnodeKnown' /\ SlotsKnown'
  BY <1>1, <1>5 DEF HasvnodeKnown, SlotsKnown
<1>8. LocksHeld'
  BY <1>1, <1>2, <1>3 DEF LocksHeld, DirHolding
<1>9. RefsKnown' /\ RefsLive'
  <2>1. RefsLive'
    BY <1>3, <1>4 DEF RefsLive
  <2>2. ASSUME NEW u \in Threads \ {t}
        PROVE  /\ pc'[u] \in Private \cup {"getvnode"} => ref'[u] = NULL
               /\ pc'[u] \in Using \cup Reclaiming \cup {"link", "reclaim"} => ref'[u] # NULL
               /\ ref'[u] # NULL => (vnode'[ref'[u]].table <=> pc'[u] \notin Reclaiming)
               /\ pc'[u] \in Reclaiming => \A x \in Threads : ref'[x] = ref'[u] => x = u
    BY <1>3, <1>4 DEF RefsKnown
  <2>3. /\ pc'[t] \notin Using \cup Reclaiming \cup {"link", "reclaim"} /\ ref'[t] = NULL
    BY <1>2, <1>3
  <2>4. QED
    BY <2>1, <2>2, <2>3 DEF RefsKnown
<1>10. DentsKnown'
  <2>1. \A u \in Threads : pc[u] \in Creating \cup Removing => pc'[u] = pc[u]
    BY <1>2, <1>3
  <2>2. QED
    BY <1>1, <2>1 DEF DentsKnown
<1>11. ThreadsKnown'
  <2>1. ASSUME NEW u \in Threads \ {t}
        PROVE  /\ (Looker(u) /\ Creator(u) /\ Remover(u) /\ Reclaimer(u) /\ User(u))'
               /\ pc'[u] \in Blank => cur'[u] = NULL
    <3>1. Looker(u) /\ Creator(u) /\ Remover(u) /\ Reclaimer(u) /\ User(u)
          /\ (pc[u] \in Blank => cur[u] = NULL)
      BY DEF ThreadsKnown
    <3>2. pc'[u] = pc[u] /\ ref'[u] = ref[u]
      BY <1>3
    <3>3. (Looker(u) /\ Reclaimer(u))' /\ (pc'[u] \in Blank => cur'[u] = NULL)
      BY <1>1, <3>1, <3>2 DEF Looker, Reclaimer
    <3>4. Remover(u)'
      <4>1. \A x \in Threads : pc[x] = "linked?" => pc'[x] = "linked?"
        BY <1>3
      <4>2. QED
        BY <1>1, <3>1, <3>2, <4>1 DEF Remover
    <3>5. pc[u] \in Using \cup {"link"} => vnode'[ref[u]].semnum = vnode[ref[u]].semnum
      BY <1>4 DEF RefsKnown
    <3>6. Creator(u)' /\ User(u)'
      BY <1>1, <3>1, <3>2, <3>5 DEF Creator, User
    <3>7. QED
      BY <3>3, <3>4, <3>6
  <2>2. (Looker(t) /\ Creator(t) /\ Remover(t) /\ Reclaimer(t) /\ User(t))'
    BY <1>2, <1>3 DEF Looker, Creator, Remover, Reclaimer, User
  <2>3. cur[t] = NULL
    BY <1>3 DEF ThreadsKnown, Blank
  <2>4. QED
    BY <1>1, <2>1, <2>2, <2>3 DEF ThreadsKnown
<1>12. SemLocks'
  BY <1>1, <1>2, <1>3 DEF SemLocks
<1>13. SemsKept'
  <2>1. \A u \in Threads : pc[u] \in Creating \cup Removing \cup {"linked?"} => pc'[u] = pc[u]
    BY <1>2, <1>3
  <2>2. QED
    BY <1>1, <2>1 DEF SemsKept
<1>14. Counted'
  <2>1. ref \in [Threads -> Vnodes \cup {NULL}]
    BY DEF TypeOK
  <2>2. \A w \in Vnodes : Cardinality(Holders(w)') =
                            IF w = v THEN Cardinality(Holders(w)) - 1 ELSE Cardinality(Holders(w))
    BY <2>1, Lose DEF LoseFrame
  <2>3. \A w \in Vnodes : vnode[w].refcount = Cardinality(Holders(w))
    BY DEF Counted, Holders
  <2>4. \A w \in Vnodes : vnode'[w].refcount = Cardinality(Holders(w)')
    BY <2>2, <2>3 DEF LoseFrame
  <2>5. QED
    BY <2>4 DEF Counted, Holders
<1>15. QED
  BY <1>6, <1>7, <1>8, <1>9, <1>10, <1>11, <1>12, <1>13, <1>14

\* The types of what a close changes.
LEMMA CloseTypes ==
  ASSUME TypeOK, NEW t \in Threads, UNCHANGED <<dirlock, dents, name, semnum, cur, units>>,
         tablelock' \in Threads \cup {NULL}, semarray' = semarray, sem' = sem,
         vnode' \in [Vnodes -> VnodeType], ref' \in [Threads -> Vnodes \cup {NULL}],
         pc' \in [Threads -> Labels], broken' = broken
  PROVE  TypeOK'
BY DEF TypeOK, VnodeType

\* A reference of several is dropped.
LEMMA SharedInv == ASSUME IInv, NEW t \in Threads, DecrefShared(t) \/ ReclaimBusy(t) PROVE IInv'
<1>1. /\ pc[t] \in {"idle", "reclaim"} /\ broken = "no" /\ ref[t] # NULL /\ vnode[ref[t]].refcount > 1
      /\ vnode' = [vnode EXCEPT ![ref[t]].refcount = @ - 1]
      /\ ref' = [ref EXCEPT ![t] = NULL]
      /\ pc' = [pc EXCEPT ![t] = "idle"] \/ (pc' = pc /\ pc[t] = "idle")
      /\ UNCHANGED <<dirlock, tablelock, semarray, dents, sem, name, semnum, cur, units, broken>>
  <2>1. pc[t] = "reclaim" => ref[t] # NULL
    BY DEF DecrefShared, ReclaimBusy, At, IInv, Intact, RefsKnown
  <2>2. QED
    BY <2>1 DEF DecrefShared, ReclaimBusy, At, Goto, Keep, locks
<1>2. PICK v : v = ref[t]
  OBVIOUS
<1>3. /\ TypeOK /\ v \in Vnodes /\ vnode \in [Vnodes -> VnodeType] /\ vnode[v].refcount \in Nat
      /\ vnode[v].refcount = Cardinality(Holders(v))
  <2>1. TypeOK /\ Counted
    BY <1>1 DEF IInv, Intact
  <2>2. v \in Vnodes /\ vnode \in [Vnodes -> VnodeType]
    BY <1>1, <1>2, <2>1 DEF TypeOK, VnodeType
  <2>3. vnode[v].refcount \in Nat
    BY <2>2 DEF VnodeType
  <2>4. QED
    BY <2>1, <2>2, <2>3 DEF Counted, Holders
<1>4. PICK c \in Nat : c = vnode[v].refcount - 1
  BY <1>1, <1>2, <1>3
<1>5. /\ vnode[v] \in VnodeType
      /\ [vnode[v] EXCEPT !.refcount = c] \in VnodeType
      /\ vnode' = [vnode EXCEPT ![v] = [vnode[v] EXCEPT !.refcount = c]]
  <2>1. vnode[v] \in VnodeType
    BY <1>3
  <2>2. [vnode[v] EXCEPT !.refcount = c] \in VnodeType
    BY <2>1 DEF VnodeType
  <2>3. QED
    BY <1>1, <1>2, <1>3, <1>4, <2>1, <2>2
<1>6. /\ vnode' \in [Vnodes -> VnodeType] /\ \A w \in Vnodes \ {v} : vnode'[w] = vnode[w]
      /\ vnode'[v] = [vnode[v] EXCEPT !.refcount = c]
  BY <1>3, <1>5
<1>7. /\ vnode'[v].refcount = Cardinality(Holders(v)) - 1
      /\ vnode'[v].table = vnode[v].table /\ vnode'[v].live = vnode[v].live
      /\ vnode'[v].semnum = vnode[v].semnum
  BY <1>3, <1>4, <1>5, <1>6 DEF VnodeType
<1>8. pc' \in [Threads -> Labels] /\ pc'[t] = "idle" /\ \A u \in Threads \ {t} : pc'[u] = pc[u]
  BY <1>1, <1>3 DEF TypeOK, Labels
<1>9. TypeOK'
  <2>1. tablelock' \in Threads \cup {NULL} /\ ref' \in [Threads -> Vnodes \cup {NULL}]
    BY <1>1, <1>3 DEF TypeOK
  <2>2. QED
    BY <1>1, <1>3, <1>6, <1>8, <2>1, CloseTypes
<1>10. LoseFrame(t, v)
  BY <1>1, <1>2, <1>3, <1>6, <1>7, <1>8 DEF LoseFrame
<1>11. QED
  BY <1>1, <1>9, <1>10, LoseInv

\* semfs_vnode_destroy
LEMMA ReclaimVnodeInv == ASSUME IInv, NEW t \in Threads, ReclaimVnode(t) PROVE IInv'
<1>1. /\ pc[t] = "cleanup" /\ broken = "no"
      /\ ref' = [ref EXCEPT ![t] = NULL] /\ pc' = [pc EXCEPT ![t] = "idle"]
      /\ UNCHANGED <<dirlock, tablelock, semarray, dents, sem, name, semnum, cur, units>>
      /\ "cleanup" \in Reclaiming
  BY DEF ReclaimVnode, At, Goto, Keep, locks, Reclaiming
<1>2. PICK v : v = ref[t]
  OBVIOUS
<1>3. /\ TypeOK /\ v \in Vnodes /\ vnode \in [Vnodes -> VnodeType]
      /\ ~ vnode[v].table /\ \A u \in Threads : ref[u] = v => u = t
      /\ vnode[v].refcount = Cardinality(Holders(v))
  <2>1. TypeOK /\ RefsKnown /\ Counted
    BY <1>1 DEF IInv, Intact
  <2>2. ref[t] # NULL /\ ~ vnode[v].table /\ \A u \in Threads : ref[u] = v => u = t
    BY <1>1, <1>2, <2>1 DEF RefsKnown
  <2>3. v \in Vnodes /\ vnode \in [Vnodes -> VnodeType]
    BY <1>2, <2>1, <2>2 DEF TypeOK, VnodeType
  <2>4. QED
    BY <2>1, <2>2, <2>3 DEF Counted, Holders
<1>4. Cardinality(Holders(v)) = 1
  BY <1>2, <1>3, OneHolder
<1>5. vnode' = [vnode EXCEPT ![v] = NoVnode] /\ broken' = broken
  BY <1>2, <1>3, <1>4 DEF ReclaimVnode
<1>6. NoVnode \in VnodeType /\ ~ NoVnode.table /\ NoVnode.refcount = 0
  <2>1. 0 \in 0 .. Len(semarray)
    BY <1>3, Indices
  <2>2. QED
    BY <2>1 DEF NoVnode, VnodeType
<1>7. /\ vnode' \in [Vnodes -> VnodeType] /\ \A w \in Vnodes \ {v} : vnode'[w] = vnode[w]
      /\ vnode'[v] = NoVnode
  BY <1>3, <1>5, <1>6
<1>8. pc' \in [Threads -> Labels] /\ pc'[t] = "idle" /\ \A u \in Threads \ {t} : pc'[u] = pc[u]
  BY <1>1, <1>3 DEF TypeOK, Labels
<1>9. TypeOK'
  <2>1. tablelock' \in Threads \cup {NULL} /\ ref' \in [Threads -> Vnodes \cup {NULL}]
    BY <1>1, <1>3 DEF TypeOK
  <2>2. QED
    BY <1>1, <1>3, <1>5, <1>7, <1>8, <2>1, CloseTypes
<1>10. LoseFrame(t, v)
  BY <1>1, <1>2, <1>3, <1>4, <1>5, <1>6, <1>7, <1>8 DEF LoseFrame
<1>11. QED
  BY <1>1, <1>9, <1>10, LoseInv

-----------------------------------------------------------------------------
(* semfs_reclaim under the table lock                                      *)

\* What the last to refer to a vnode knows.
LastFacts(t, v, s, i) ==
  /\ v = ref[t] /\ i = vnode[v].semnum /\ semarray[i] = s
  /\ vnode[v].live /\ vnode[v].table /\ sem[s].live /\ sem[s].hasvnode
  /\ \A u \in Threads : ref[u] = v => u = t
  /\ \A w \in Vnodes : InTable(w, i) => w = v
  /\ \A j \in Slots : semarray[j] = s => j = i
  /\ \A u \in Threads : pc[u] \in Using => cur[u] # s
  /\ \A u \in Threads : pc[u] # "linked?"

LEMMA LastKnows ==
  ASSUME IInv, broken = "no", NEW t \in Threads, pc[t] = "reclaim", tablelock = NULL,
         vnode[ref[t]].refcount = 1
  PROVE  \E v \in Vnodes, s \in Sems, i \in Slots : LastFacts(t, v, s, i)
<1>1. PICK v, s, i : v = ref[t] /\ i = vnode[v].semnum /\ s = semarray[i]
  OBVIOUS
<1>2. RefsKnown /\ ThreadsKnown /\ Counted /\ SlotsKnown /\ LocksHeld /\ UniqueInTable
  BY DEF IInv, Intact
<1>3. ref[t] # NULL /\ pc[t] \notin Reclaiming /\ pc[t] \notin Using
  BY <1>2 DEF RefsKnown, Reclaiming, Using
<1>4. /\ v \in Vnodes /\ i \in Slots /\ s \in Sems
      /\ vnode[v].live /\ vnode[v].table /\ sem[s].live /\ sem[s].hasvnode
  BY <1>1, <1>3, RefKnows
<1>5. \A u \in Threads : ref[u] = v => u = t
  <2>1. vnode[v].refcount = Cardinality(Holders(v))
    BY <1>2, <1>4 DEF Counted, Holders
  <2>2. QED
    BY <1>1, <1>4, <2>1, OneHolder
<1>6. \A w \in Vnodes : InTable(w, i) => w = v
  BY <1>1, <1>2, <1>4 DEF UniqueInTable, InTable
<1>7. \A j \in Slots : semarray[j] = s => j = i
  BY <1>1, <1>2, <1>4, SemFSAssumption DEF SlotsKnown
<1>8. ASSUME NEW u \in Threads, pc[u] \in Using, cur[u] = s
      PROVE  FALSE
  <2>1. ref[u] # NULL /\ pc[u] \notin Reclaiming
    BY <1>2, <1>8 DEF RefsKnown, Using, Reclaiming
  <2>2. ref[u] \in Vnodes /\ vnode[ref[u]].table /\ vnode[ref[u]].semnum \in Slots
    BY <2>1, RefKnows
  <2>3. semarray[vnode[ref[u]].semnum] = s
    BY <1>2, <1>8 DEF ThreadsKnown, User
  <2>4. ref[u] = v
    BY <1>6, <1>7, <2>2, <2>3 DEF InTable
  <2>5. QED
    BY <1>3, <1>5, <1>8, <2>4
<1>9. \A u \in Threads : pc[u] # "linked?"
  BY <1>2, SemFSAssumption DEF LocksHeld
<1>10. QED
  BY <1>1, <1>4, <1>5, <1>6, <1>7, <1>8, <1>9 DEF LastFacts

\* The vnode leaves the table.
LEMMA ReclaimLastInv == ASSUME IInv, NEW t \in Threads, ReclaimLast(t) PROVE IInv'
<1> USE DEF Intact
<1>0. /\ pc[t] = "reclaim" /\ broken = "no" /\ tablelock = NULL /\ vnode[ref[t]].refcount = 1
      /\ TypeOK /\ Intact /\ UniqueInTable
      /\ sem \in [Sems -> SemType] /\ vnode \in [Vnodes -> VnodeType]
      /\ NULL \notin Vnodes \cup Sems \cup Threads
  BY SemFSAssumption DEF ReclaimLast, At, IInv, TypeOK, SemType, VnodeType
<1>1. PICK v \in Vnodes, s \in Sems, i \in Slots : LastFacts(t, v, s, i)
  BY <1>0, LastKnows
<1>2. /\ vnode' = [vnode EXCEPT ![v].table = FALSE] /\ sem' = [sem EXCEPT ![s].hasvnode = FALSE]
      /\ Set(t, NULL, i, s) /\ tablelock' = t /\ Goto(t, "linked?")
      /\ UNCHANGED <<dirlock, semarray, dents, ref, units, broken>>
  BY <1>0, <1>1 DEF ReclaimLast, Unlist, LastFacts
<1>3. /\ sem' \in [Sems -> SemType] /\ \A r \in Sems \ {s} : sem'[r] = sem[r]
      /\ sem'[s].hasvnode = FALSE
      /\ sem'[s].live = sem[s].live /\ sem'[s].linked = sem[s].linked /\ sem'[s].lock = sem[s].lock
  <2>1. sem[s] \in SemType /\ [sem[s] EXCEPT !.hasvnode = FALSE] \in SemType
    BY <1>0 DEF SemType
  <2>2. /\ sem' \in [Sems -> SemType] /\ \A r \in Sems \ {s} : sem'[r] = sem[r]
        /\ sem'[s] = [sem[s] EXCEPT !.hasvnode = FALSE]
    BY <1>0, <1>2, <2>1
  <2>3. QED
    BY <2>1, <2>2 DEF SemType
<1>4. /\ vnode' \in [Vnodes -> VnodeType] /\ \A w \in Vnodes \ {v} : vnode'[w] = vnode[w]
      /\ vnode'[v].table = FALSE
      /\ vnode'[v].live = vnode[v].live /\ vnode'[v].semnum = vnode[v].semnum
      /\ vnode'[v].refcount = vnode[v].refcount
  <2>1. vnode[v] \in VnodeType /\ [vnode[v] EXCEPT !.table = FALSE] \in VnodeType
    BY <1>0 DEF VnodeType
  <2>2. /\ vnode' \in [Vnodes -> VnodeType] /\ \A w \in Vnodes \ {v} : vnode'[w] = vnode[w]
        /\ vnode'[v] = [vnode[v] EXCEPT !.table = FALSE]
    BY <1>0, <1>2, <2>1
  <2>3. QED
    BY <2>1, <2>2 DEF VnodeType
<1>5. /\ pc'[t] = "linked?" /\ pc' \in [Threads -> Labels] /\ OthersKeep(t)
      /\ name' \in [Threads -> Names \cup {NULL}] /\ cur'[t] = s /\ semnum'[t] = i
      /\ semnum' \in [Threads -> 0 .. Len(semarray)] /\ cur' \in [Threads -> Sems \cup {NULL}]
      /\ \A u \in Threads \ {t} : pc'[u] = pc[u] /\ cur'[u] = cur[u]
  <2>1. i \in 0 .. Len(semarray)
    BY <1>0, <1>1, Indices
  <2>2. "linked?" \in Labels /\ NULL \in Names \cup {NULL} /\ s \in Sems \cup {NULL}
    BY DEF Labels
  <2>3. /\ pc'[t] = "linked?" /\ pc' \in [Threads -> Labels] /\ OthersKeep(t)
        /\ name' \in [Threads -> Names \cup {NULL}] /\ cur'[t] = s /\ semnum'[t] = i
        /\ semnum' \in [Threads -> 0 .. Len(semarray)] /\ cur' \in [Threads -> Sems \cup {NULL}]
    <3>1. TypeOK /\ Goto(t, "linked?") /\ Set(t, NULL, i, s)
      BY <1>0, <1>2
    <3>2. QED
      BY <2>1, <2>2, <3>1, LocalTypes
  <2>4. QED
    BY <2>3 DEF OthersKeep
<1>6. TypeOK'
  <2>1. /\ dirlock' \in Threads \cup {NULL} /\ tablelock' \in Threads \cup {NULL}
        /\ semarray' \in Seq(Sems \cup {NULL}) /\ dents' \in [Names -> 0 .. Len(semarray')]
        /\ ref' \in [Threads -> Vnodes \cup {NULL}] /\ units' \in [Threads -> 0 .. MaxCount]
        /\ broken' \in {"no", "assertion", "destroyed", "no vnode", "cv"}
    BY <1>0, <1>2 DEF TypeOK
  <2>2. Len(semarray') = Len(semarray)
    BY <1>2
  <2>3. sem' \in [Sems -> [live : BOOLEAN, hasvnode : BOOLEAN, linked : BOOLEAN,
                           lock : Threads \cup {NULL}, count : 0 .. MaxCount]]
    BY <1>3 DEF SemType
  <2>4. vnode' \in [Vnodes -> [live : BOOLEAN, table : BOOLEAN,
                               semnum : 0 .. Len(semarray'), refcount : Nat]]
    BY <1>4, <2>2 DEF VnodeType
  <2>5. /\ pc' \in [Threads -> Labels] /\ name' \in [Threads -> Names \cup {NULL}]
        /\ semnum' \in [Threads -> 0 .. Len(semarray')] /\ cur' \in [Threads -> Sems \cup {NULL}]
    BY <1>5, <2>2
  <2>6. QED
    BY <2>1, <2>3, <2>4, <2>5 DEF TypeOK
<1>7. /\ Slots' = Slots /\ semarray' = semarray /\ dents' = dents /\ ref' = ref
      /\ ref[t] = v /\ semarray[i] = s /\ vnode[v].table /\ s # NULL /\ v # NULL
      /\ \A j \in Slots : semarray[j] \in Sems \cup {NULL}
      /\ \A j \in Slots \ {i} : semarray[j] # s
  BY <1>0, <1>1, <1>2, Indices DEF Slots, LastFacts
<1>8. /\ {"reclaim", "linked?"} \cap (DirHolding \cup Using \cup Locking \cup Creating \cup Removing
                                       \cup Private \cup Looking) = {}
      /\ "linked?" \in Reclaiming /\ "linked?" \notin Blank \cup {"getvnode"}
      /\ "reclaim" \notin Reclaiming
  BY DEF DirHolding, Using, Locking, Creating, Removing, Private, Looking, Reclaiming, Blank
<1>9. UniqueInTable' /\ AssertionsHold'
  BY <1>0, <1>2, <1>4 DEF UniqueInTable, AssertionsHold
<1>10. TableKnown' /\ RefsLive'
  <2>1. \A w \in Vnodes : /\ vnode'[w].table => vnode[w].table
                          /\ vnode'[w].live = vnode[w].live /\ vnode'[w].semnum = vnode[w].semnum
    BY <1>4
  <2>2. TableKnown'
    BY <1>0, <1>7, <2>1 DEF TableKnown
  <2>3. \A u \in Threads : ref[u] # NULL => ref[u] \in Vnodes
    BY <1>0 DEF TypeOK
  <2>4. QED
    BY <1>0, <1>7, <2>1, <2>2, <2>3 DEF RefsLive
<1>11. HasvnodeKnown'
  <2>1. \A j \in Slots \ {i} : \A w \in Vnodes : InTable(w, j)' <=> InTable(w, j)
    BY <1>1, <1>4 DEF InTable, LastFacts
  <2>2. \A w \in Vnodes : ~ InTable(w, i)'
    BY <1>1, <1>4 DEF InTable, LastFacts
  <2>3. \A j \in Slots \ {i} : semarray[j] # NULL => sem'[semarray[j]] = sem[semarray[j]]
    BY <1>3, <1>7
  <2>4. QED
    BY <1>0, <1>3, <1>7, <2>1, <2>2, <2>3 DEF HasvnodeKnown
<1>12. \A r \in Sems : /\ sem'[r].live = sem[r].live /\ sem'[r].linked = sem[r].linked
                       /\ sem'[r].lock = sem[r].lock
                       /\ sem'[r].hasvnode => sem[r].hasvnode
                       /\ r # s => sem'[r].hasvnode = sem[r].hasvnode
  BY <1>3
<1>13. SlotsKnown'
  <2>1. \A j \in Slots : semarray[j] # NULL => sem'[semarray[j]].live
    BY <1>0, <1>7, <1>12 DEF SlotsKnown
  <2>2. \A r \in Sems : sem'[r].linked \/ sem'[r].hasvnode => sem'[r].live
    BY <1>0, <1>12 DEF SlotsKnown
  <2>3. QED
    BY <1>0, <1>7, <2>1, <2>2 DEF SlotsKnown
<1>14. DentsKnown'
  <2>1. \A n \in Names : dents[n] # 0 => dents[n] \in Slots
    BY <1>0, Indices
  <2>2. \A u \in Threads : pc[u] \in Creating \cup Removing => name'[u] = name[u] /\ pc'[u] = pc[u]
    BY <1>0, <1>5, <1>8 DEF OthersKeep
  <2>3. QED
    BY <1>0, <1>7, <1>12, <2>1, <2>2 DEF DentsKnown
<1>15. LocksHeld'
  BY <1>0, <1>1, <1>2, <1>5, <1>8 DEF LocksHeld, DirHolding, LastFacts
<1>16. RefsKnown'
  <2>1. ASSUME NEW u \in Threads \ {t}
        PROVE  /\ pc[u] \in Private \cup {"getvnode"} => ref[u] = NULL
               /\ pc[u] \in Using \cup Reclaiming \cup {"link", "reclaim"} => ref[u] # NULL
               /\ ref[u] # NULL => (vnode'[ref[u]].table <=> pc[u] \notin Reclaiming)
               /\ pc[u] \in Reclaiming => \A x \in Threads : ref[x] = ref[u] => x = u
    <3>1. ref[u] # v /\ (ref[u] # NULL => ref[u] \in Vnodes)
      BY <1>0, <1>1 DEF LastFacts, TypeOK
    <3>2. QED
      BY <1>0, <1>4, <3>1 DEF RefsKnown
  <2>2. \A x \in Threads : ref[x] = ref[t] => x = t
    BY <1>1 DEF LastFacts
  <2>3. QED
    BY <1>4, <1>5, <1>7, <1>8, <2>1, <2>2 DEF RefsKnown
<1>17. ThreadsKnown'
  <2>1. ASSUME NEW u \in Threads \ {t}
        PROVE  /\ (Looker(u) /\ Creator(u) /\ Remover(u) /\ Reclaimer(u) /\ User(u))'
               /\ pc'[u] \in Blank => cur'[u] = NULL
    <3>1. /\ Looker(u) /\ Creator(u) /\ Remover(u) /\ User(u)
          /\ pc[u] \in Blank => cur[u] = NULL
      BY <1>0 DEF ThreadsKnown
    <3>2. pc'[u] = pc[u] /\ cur'[u] = cur[u] /\ semnum'[u] = semnum[u] /\ name'[u] = name[u]
      BY <1>5 DEF OthersKeep
    <3>3. ref[u] # NULL => vnode'[ref[u]].semnum = vnode[ref[u]].semnum
      BY <1>0, <1>4 DEF TypeOK
    <3>4. Looker(u)' /\ (pc'[u] \in Blank => cur'[u] = NULL)
      <4>1. pc[u] \in Looking => semarray[semnum[u]] \in Sems
        BY <1>7, <3>1 DEF Looker
      <4>2. QED
        BY <1>7, <1>12, <3>1, <3>2, <4>1 DEF Looker
    <3>5. Creator(u)'
      <4>1. SUFFICES ASSUME pc[u] \in Creating PROVE Creator(u)'
        BY <3>2 DEF Creator
      <4>2. pc[u] # "link" => cur[u] # s /\ \A x \in Threads : cur'[x] = cur[u] => x = u
        <5>1. pc[u] # "link" => cur[u] # s
          BY <1>1, <3>1, <4>1 DEF Creator, LastFacts
        <5>2. pc[u] # "link" => \A x \in Threads : cur[x] = cur[u] => x = u
          BY <3>1, <4>1 DEF Creator
        <5>3. ASSUME pc[u] # "link", NEW x \in Threads, cur'[x] = cur[u] PROVE x = u
          BY <1>5, <5>1, <5>2, <5>3
        <5>4. QED
          BY <5>1, <5>3
      <4>3. pc[u] = "link" => ref[u] # NULL
        BY <1>0 DEF RefsKnown
      <4>4. QED
        BY <1>7, <1>12, <3>1, <3>2, <3>3, <4>1, <4>2, <4>3 DEF Creator
    <3>6. Remover(u)'
      <4>1. SUFFICES ASSUME pc[u] \in Removing PROVE Remover(u)'
        BY <3>2 DEF Remover
      <4>2. pc[u] = "unlock" /\ sem[cur[u]].live =>
              sem'[cur[u]].hasvnode \/ \E x \in Threads : pc'[x] = "linked?" /\ cur'[x] = cur[u]
        BY <1>1, <1>5, <1>12, <3>1, <4>1 DEF Remover, LastFacts
      <4>3. QED
        BY <1>7, <1>12, <3>1, <3>2, <4>1, <4>2 DEF Remover
    <3>7. Reclaimer(u)'
      BY <1>1, <3>2 DEF Reclaimer, LastFacts
    <3>8. User(u)'
      <4>1. pc[u] \in Using => cur[u] # s /\ ref[u] # NULL
        BY <1>0, <1>1 DEF LastFacts, RefsKnown
      <4>2. QED
        BY <1>7, <1>12, <3>1, <3>2, <3>3, <4>1 DEF User
    <3>9. QED
      BY <3>4, <3>5, <3>6, <3>7, <3>8
  <2>2. (Looker(t) /\ Creator(t) /\ Remover(t) /\ User(t))'
    BY <1>5, <1>8 DEF Looker, Creator, Remover, User
  <2>3. Reclaimer(t)'
    BY <1>3, <1>5, <1>7 DEF Reclaimer
  <2>4. QED
    BY <1>5, <1>8, <2>1, <2>2, <2>3 DEF ThreadsKnown
<1>18. SemLocks'
  <2>1. ASSUME NEW r \in Sems, NEW u \in Threads, sem'[r].lock = u
        PROVE  cur'[u] = r /\ pc'[u] \in Locking
    <3>1. cur[u] = r /\ pc[u] \in Locking
      BY <1>0, <1>12, <2>1 DEF SemLocks
    <3>2. u # t
      BY <1>0, <1>8, <3>1
    <3>3. QED
      BY <1>5, <3>1, <3>2
  <2>2. QED
    BY <2>1 DEF SemLocks
<1>19. SemsKept'
  <2>1. \A u \in Threads : pc[u] \in Creating \cup Removing \cup {"linked?"} =>
          pc'[u] = pc[u] /\ cur'[u] = cur[u]
    BY <1>0, <1>5, <1>8
  <2>2. ASSUME NEW r \in Sems, sem'[r].live
        PROVE  \/ (\E j \in Slots : semarray[j] = r) /\ (sem'[r].linked \/ sem'[r].hasvnode)
               \/ \E u \in Threads : cur'[u] = r /\ pc'[u] \in Creating \cup Removing \cup {"linked?"}
    <3>1. CASE r = s
      BY <1>5, <3>1
    <3>2. CASE r # s
      BY <1>0, <1>12, <2>1, <2>2, <3>2 DEF SemsKept
    <3>3. QED
      BY <3>1, <3>2
  <2>3. QED
    BY <1>7, <2>2 DEF SemsKept
<1>20. Counted'
  BY <1>0, <1>4, <1>7 DEF Counted
<1>21. QED
  BY <1>6, <1>9, <1>10, <1>11, <1>13, <1>14, <1>15, <1>16, <1>17, <1>18, <1>19, <1>20 DEF IInv

\* sems_linked is looked at: the semaphore stays, or goes too.
LEMMA ReclaimSemInv == ASSUME IInv, NEW t \in Threads, ReclaimSem(t) PROVE IInv'
<1> USE DEF Intact
<1>0. /\ pc[t] = "linked?" /\ broken = "no" /\ TypeOK /\ Intact /\ UniqueInTable
      /\ sem \in [Sems -> SemType] /\ NULL \notin Vnodes \cup Sems \cup Threads
      /\ 0 \in 0 .. Len(semarray)
  <2>1. pc[t] = "linked?" /\ broken = "no" /\ TypeOK /\ Intact /\ UniqueInTable
    BY DEF ReclaimSem, At, IInv
  <2>2. QED
    <3>1. sem \in [Sems -> SemType]
      BY <2>1 DEF TypeOK, SemType
    <3>2. 0 \in 0 .. Len(semarray) /\ NULL \notin Vnodes \cup Sems \cup Threads
      BY <2>1, SemFSAssumption, Indices
    <3>3. QED
      BY <2>1, <3>1, <3>2
<1>1. PICK s \in Sems, i \in Slots :
        /\ s = cur[t] /\ i = semnum[t] /\ semarray[i] = s /\ sem[s].hasvnode = FALSE
        /\ \A j \in Slots \ {i} : semarray[j] # s
        /\ tablelock = t /\ \A u \in Threads \ {t} : pc[u] # "linked?"
  <2>1. /\ cur[t] \in Sems /\ semnum[t] \in Slots /\ semarray[semnum[t]] = cur[t]
        /\ ~ sem[cur[t]].hasvnode
    BY <1>0 DEF ThreadsKnown, Reclaimer
  <2>2. PICK s, i : s = cur[t] /\ i = semnum[t]
    OBVIOUS
  <2>3. sem[s].hasvnode = FALSE
    BY <1>0, <2>1, <2>2 DEF SemType
  <2>4. \A j \in Slots \ {i} : semarray[j] # s
    BY <1>0, <2>1, <2>2 DEF SlotsKnown
  <2>5. tablelock = t /\ \A u \in Threads \ {t} : pc[u] # "linked?"
    BY <1>0 DEF LocksHeld
  <2>6. QED
    BY <2>1, <2>2, <2>3, <2>4, <2>5
<1>2. /\ tablelock' = NULL /\ Goto(t, "cleanup") /\ Set(t, NULL, 0, NULL)
      /\ UNCHANGED <<dirlock, dents, vnode, ref, units>>
  BY DEF ReclaimSem
<1>3. \/ /\ sem[s].linked /\ sem' = sem /\ semarray' = semarray /\ broken' = broken
      \/ /\ ~ sem[s].linked /\ sem' = [sem EXCEPT ![s] = NoSem] /\ broken' = broken
         /\ semarray' = [semarray EXCEPT ![i] = NULL]
      \/ sem' = sem /\ broken' = "destroyed" /\ semarray' = [semarray EXCEPT ![i] = NULL]
  BY <1>1 DEF ReclaimSem, Destroy
<1>4. /\ semarray' \in Seq(Sems \cup {NULL}) /\ Len(semarray') = Len(semarray) /\ Slots' = Slots
      /\ \A j \in Slots \ {i} : semarray'[j] = semarray[j]
      /\ \/ semarray' = semarray
         \/ semarray'[i] = NULL
  <2>1. CASE semarray' = semarray
    BY <1>0, <2>1 DEF Slots, TypeOK
  <2>2. CASE semarray' = [semarray EXCEPT ![i] = NULL]
    BY <1>0, <2>2, SlotSet
  <2>3. QED
    BY <1>3, <2>1, <2>2
<1>5. /\ sem' \in [Sems -> SemType] /\ \A r \in Sems \ {s} : sem'[r] = sem[r]
      /\ \/ sem' = sem
         \/ /\ sem'[s].live = FALSE /\ sem'[s].hasvnode = FALSE /\ sem'[s].linked = FALSE
            /\ sem'[s].lock = NULL
  <2>1. CASE sem' = sem
    BY <1>0, <2>1
  <2>2. CASE sem' = [sem EXCEPT ![s] = NoSem]
    BY <1>0, <2>2, SemPut, NewSems
  <2>3. QED
    BY <1>3, <2>1, <2>2
<1>6. /\ pc'[t] = "cleanup" /\ pc' \in [Threads -> Labels] /\ OthersKeep(t)
      /\ name' \in [Threads -> Names \cup {NULL}] /\ cur'[t] = NULL
      /\ semnum' \in [Threads -> 0 .. Len(semarray)] /\ cur' \in [Threads -> Sems \cup {NULL}]
      /\ \A u \in Threads \ {t} : pc'[u] = pc[u] /\ cur'[u] = cur[u]
  <2>1. "cleanup" \in Labels /\ TypeOK /\ 0 \in 0 .. Len(semarray)
    BY <1>0 DEF Labels
  <2>2. /\ pc'[t] = "cleanup" /\ pc' \in [Threads -> Labels] /\ OthersKeep(t)
        /\ name' \in [Threads -> Names \cup {NULL}] /\ cur'[t] = NULL
        /\ semnum' \in [Threads -> 0 .. Len(semarray)] /\ cur' \in [Threads -> Sems \cup {NULL}]
    BY <1>2, <2>1, LocalTypes
  <2>3. QED
    BY <2>2 DEF OthersKeep
<1>7. TypeOK'
  <2>1. dirlock' \in Threads \cup {NULL} /\ tablelock' \in Threads \cup {NULL}
        /\ dents' \in [Names -> 0 .. Len(semarray')]
        /\ vnode' \in [Vnodes -> [live : BOOLEAN, table : BOOLEAN,
                                  semnum : 0 .. Len(semarray'), refcount : Nat]]
        /\ ref' \in [Threads -> Vnodes \cup {NULL}] /\ units' \in [Threads -> 0 .. MaxCount]
        /\ broken' \in {"no", "assertion", "destroyed", "no vnode", "cv"}
    BY <1>0, <1>2, <1>3, <1>4 DEF TypeOK
  <2>2. QED
    BY <1>4, <1>5, <1>6, <2>1 DEF TypeOK, SemType
<1>8. UniqueInTable'
  BY <1>0, <1>2 DEF UniqueInTable
<1>9. CASE broken' = "destroyed"
  BY <1>7, <1>8, <1>9, BrokenInv
<1>10. CASE broken' = broken
  <2>1. \/ /\ sem[s].linked /\ sem' = sem /\ semarray' = semarray
        \/ /\ ~ sem[s].linked /\ semarray'[i] = NULL
           /\ sem'[s].live = FALSE /\ sem'[s].hasvnode = FALSE /\ sem'[s].linked = FALSE
           /\ sem'[s].lock = NULL
    <3>1. broken' # "destroyed"
      BY <1>0, <1>10
    <3>2. CASE sem[s].linked /\ sem' = sem /\ semarray' = semarray
      BY <3>2
    <3>3. CASE ~ sem[s].linked /\ sem' = [sem EXCEPT ![s] = NoSem] /\ semarray' = [semarray EXCEPT ![i] = NULL]
      <4>1. semarray'[i] = NULL
        BY <1>0, <3>3, SlotSet
      <4>2. QED
        BY <1>0, <3>3, <4>1, SemPut, NewSems
    <3>4. QED
      BY <1>3, <3>1, <3>2, <3>3
  <2>2. /\ \A j \in Slots : semarray[j] \in Sems \cup {NULL}
        /\ \A j \in Slots : semarray'[j] # NULL => semarray'[j] = semarray[j] /\ sem'[semarray[j]] = sem[semarray[j]]
        /\ \A j \in Slots : semarray[j] # s => semarray'[j] = semarray[j]
    <3>1. \A j \in Slots : semarray[j] \in Sems \cup {NULL}
      BY <1>0, Indices
    <3>2. QED
      BY <1>0, <1>1, <1>4, <1>5, <2>1, <3>1
  <2>3. /\ \A r \in Sems : /\ r # s => sem'[r] = sem[r]
                           /\ sem'[r].live => sem'[r] = sem[r]
                           /\ sem'[r].hasvnode = sem[r].hasvnode /\ sem'[r].linked = sem[r].linked
                           /\ sem'[r].live => sem[r].live
                           /\ sem'[r].lock \in {sem[r].lock, NULL}
    <3>1. sem[s].linked \in BOOLEAN
      BY <1>0 DEF SemType
    <3>2. QED
      BY <1>1, <1>5, <2>1, <3>1
  <2>4. /\ {"linked?", "cleanup"} \cap (DirHolding \cup Using \cup Locking \cup Creating \cup Removing
                                         \cup Private \cup Looking) = {}
        /\ {"linked?", "cleanup"} \subseteq Reclaiming /\ "cleanup" # "getvnode"
    BY DEF DirHolding, Using, Locking, Creating, Removing, Private, Looking, Reclaiming
  <2>5. AssertionsHold'
    BY <1>0, <1>10 DEF AssertionsHold
  <2>6. TableKnown'
    <3>1. \A w \in Vnodes : vnode[w].table => semarray[vnode[w].semnum] # s
      BY <1>0, <1>1 DEF TableKnown, HasvnodeKnown, InTable
    <3>2. QED
      BY <1>0, <1>2, <1>4, <2>2, <3>1 DEF TableKnown
  <2>7. HasvnodeKnown'
    BY <1>0, <1>2, <1>4, <2>2 DEF HasvnodeKnown, InTable
  <2>8. SlotsKnown'
    <3>1. \A j \in Slots : semarray'[j] # NULL => sem'[semarray'[j]].live
      BY <1>0, <2>2 DEF SlotsKnown
    <3>2. ASSUME NEW r \in Sems, sem'[r].linked \/ sem'[r].hasvnode PROVE sem'[r].live
      BY <1>0, <2>1, <2>3, <3>2 DEF SlotsKnown
    <3>3. QED
      BY <1>0, <1>4, <2>2, <3>1, <3>2 DEF SlotsKnown
  <2>9. DentsKnown'
    <3>1. \A n \in Names : dents[n] # 0 => dents[n] \in Slots
      BY <1>0, Indices
    <3>2. \A u \in Threads : pc[u] \in Creating \cup Removing => name'[u] = name[u] /\ pc'[u] = pc[u]
      BY <1>0, <1>6, <2>4 DEF OthersKeep
    <3>3. \A j \in Slots : semarray[j] # NULL /\ sem[semarray[j]].linked =>
            semarray'[j] # NULL /\ sem'[semarray'[j]].linked
      BY <2>1, <2>2, <2>3
    <3>4. QED
      BY <1>0, <1>2, <3>1, <3>2, <3>3 DEF DentsKnown
  <2>10. LocksHeld'
    BY <1>0, <1>1, <1>2, <1>6, <2>4 DEF LocksHeld, DirHolding
  <2>11. RefsKnown' /\ RefsLive'
    BY <1>0, <1>2, <1>6, <2>4 DEF RefsKnown, RefsLive
  <2>12. ThreadsKnown'
    <3>1. ASSUME NEW u \in Threads \ {t}
          PROVE  /\ (Looker(u) /\ Creator(u) /\ Remover(u) /\ Reclaimer(u) /\ User(u))'
                 /\ pc'[u] \in Blank => cur'[u] = NULL
      <4>1. /\ Looker(u) /\ Creator(u) /\ Remover(u) /\ User(u)
            /\ pc[u] \in Blank => cur[u] = NULL
        BY <1>0 DEF ThreadsKnown
      <4>2. pc'[u] = pc[u] /\ cur'[u] = cur[u] /\ semnum'[u] = semnum[u] /\ name'[u] = name[u]
        BY <1>6 DEF OthersKeep
      <4>3. Looker(u)' /\ (pc'[u] \in Blank => cur'[u] = NULL)
        <5>1. pc[u] \in Looking => semarray[semnum[u]] # s \/ sem[s].linked
          BY <4>1 DEF Looker
        <5>2. pc[u] \in Looking => semarray'[semnum[u]] = semarray[semnum[u]] /\ sem'[semarray[semnum[u]]] = sem[semarray[semnum[u]]]
          BY <1>0, <2>1, <2>2, <4>1, <5>1 DEF Looker
        <5>3. QED
          BY <1>2, <1>4, <4>1, <4>2, <5>2 DEF Looker
      <4>4. Creator(u)'
        <5>1. SUFFICES ASSUME pc[u] \in Creating PROVE Creator(u)'
          BY <4>2 DEF Creator
        <5>2. cur[u] # s
          <6>1. CASE pc[u] = "link"
            <7>1. ref[u] # NULL /\ pc[u] \notin Reclaiming
              BY <1>0, <6>1 DEF RefsKnown, Reclaiming
            <7>2. sem[semarray[vnode[ref[u]].semnum]].hasvnode
              BY <1>0, <7>1, RefKnows
            <7>3. semarray[vnode[ref[u]].semnum] = cur[u]
              BY <4>1, <5>1, <6>1 DEF Creator
            <7>4. QED
              BY <1>1, <7>2, <7>3
          <6>2. CASE pc[u] # "link"
            BY <1>1, <4>1, <5>1, <6>2 DEF Creator
          <6>3. QED
            BY <6>1, <6>2
        <5>3. /\ cur[u] \in Sems /\ cur[u] # NULL /\ sem'[cur[u]] = sem[cur[u]]
              /\ \A j \in Slots : semarray'[j] = cur[u] <=> semarray[j] = cur[u]
          BY <1>0, <2>2, <2>3, <4>1, <5>1, <5>2 DEF Creator
        <5>4. pc[u] # "link" => \A x \in Threads : cur'[x] = cur[u] => x = u
          BY <1>6, <4>1, <5>1, <5>3 DEF Creator
        <5>5. QED
          BY <1>2, <1>4, <4>1, <4>2, <5>1, <5>3, <5>4 DEF Creator
      <4>5. Remover(u)'
        <5>1. SUFFICES ASSUME pc[u] \in Removing PROVE Remover(u)'
          BY <4>2 DEF Remover
        <5>2. /\ name[u] \in Names /\ cur[u] \in Sems /\ semnum[u] \in Slots
              /\ dents[name[u]] = semnum[u] /\ ~ sem[cur[u]].linked
              /\ semarray[semnum[u]] = IF pc[u] # "destroy" /\ sem[cur[u]].live THEN cur[u] ELSE NULL
              /\ pc[u] \in {"empty", "destroy"} => ~ sem[cur[u]].hasvnode
              /\ pc[u] = "destroy" => \A j \in Slots : semarray[j] # cur[u]
          BY <4>1, <5>1 DEF Remover
        <5>3. CASE cur[u] = s
          <6>1. sem'[s].live = FALSE /\ semarray'[i] = NULL /\ ~ sem'[s].linked /\ ~ sem'[s].hasvnode
            BY <2>1, <5>2, <5>3
          <6>2. semarray'[semnum[u]] = NULL
            BY <1>1, <1>4, <5>2, <5>3, <6>1
          <6>3. \A j \in Slots : semarray'[j] # s
            BY <1>0, <1>1, <1>4, <6>1
          <6>4. QED
            BY <1>2, <1>4, <4>2, <5>2, <5>3, <6>1, <6>2, <6>3 DEF Remover
        <5>4. CASE cur[u] # s
          <6>1. sem'[cur[u]] = sem[cur[u]]
            BY <2>3, <5>2, <5>4
          <6>2. semarray'[semnum[u]] = semarray[semnum[u]]
            BY <1>0, <2>2, <5>2, <5>4
          <6>3. \A j \in Slots : semarray[j] # cur[u] => semarray'[j] # cur[u]
            BY <1>0, <2>2, <5>2
          <6>4. pc[u] = "unlock" /\ sem[cur[u]].live => sem[cur[u]].hasvnode
            BY <1>1, <4>1, <5>1, <5>4 DEF Remover
          <6>5. QED
            BY <1>2, <1>4, <4>2, <5>2, <6>1, <6>2, <6>3, <6>4 DEF Remover
        <5>5. QED
          BY <5>3, <5>4
      <4>6. Reclaimer(u)'
        BY <1>1, <4>2 DEF Reclaimer
      <4>7. User(u)'
        <5>1. SUFFICES ASSUME pc[u] \in Using PROVE User(u)'
          BY <4>2 DEF User
        <5>2. /\ cur[u] \in Sems /\ cur[u] # s /\ sem[cur[u]].live /\ sem[cur[u]].hasvnode
              /\ semarray[vnode[ref[u]].semnum] = cur[u]
          BY <1>1, <4>1, <5>1 DEF User
        <5>3. vnode[ref[u]].semnum \in Slots
          BY <1>0, <5>1, RefKnows DEF RefsKnown, Using, Reclaiming
        <5>4. QED
          BY <1>2, <2>2, <2>3, <4>2, <5>2, <5>3 DEF User
      <4>8. QED
        BY <4>3, <4>4, <4>5, <4>6, <4>7
    <3>2. (Looker(t) /\ Creator(t) /\ Remover(t) /\ Reclaimer(t) /\ User(t))'
      BY <1>6, <2>4 DEF Looker, Creator, Remover, Reclaimer, User
    <3>3. QED
      BY <1>6, <3>1, <3>2 DEF ThreadsKnown
  <2>13. SemLocks'
    BY <1>0, <1>6, <2>3, <2>4 DEF SemLocks
  <2>14. SemsKept'
    <3>1. ASSUME NEW r \in Sems, sem'[r].live
          PROVE  \/ (\E j \in Slots : semarray'[j] = r) /\ (sem'[r].linked \/ sem'[r].hasvnode)
                 \/ \E u \in Threads : cur'[u] = r /\ pc'[u] \in Creating \cup Removing \cup {"linked?"}
      <4>1. CASE r = s
        BY <1>1, <2>1, <3>1, <4>1
      <4>2. CASE r # s
        <5>1. sem'[r] = sem[r] /\ \A j \in Slots : semarray[j] = r => semarray'[j] = r
          BY <2>2, <2>3, <4>2
        <5>2. \A u \in Threads : cur[u] = r => u # t
          BY <1>1, <4>2
        <5>3. QED
          BY <1>0, <1>6, <3>1, <5>1, <5>2 DEF SemsKept
      <4>3. QED
        BY <4>1, <4>2
    <3>2. QED
      BY <1>4, <3>1 DEF SemsKept
  <2>15. Counted'
    BY <1>0, <1>2 DEF Counted
  <2>16. QED
    BY <1>7, <1>8, <2>5, <2>6, <2>7, <2>8, <2>9, <2>10, <2>11, <2>12, <2>13, <2>14, <2>15 DEF IInv
<1>11. QED
  BY <1>3, <1>9, <1>10

-----------------------------------------------------------------------------
(* The theorems.                                                           *)

LEMMA NextInv == IInv /\ [Next]_vars => IInv'
<1> SUFFICES ASSUME IInv, [Next]_vars PROVE IInv'
  OBVIOUS
<1>1. ASSUME NEW t \in Threads, Open(t) PROVE IInv'
  <2>1. CASE LookupFound(t)
    BY <2>1, FoundInv
  <2>2. CASE LookupVnode(t)
    BY <2>2, LookupVnodeInv
  <2>3. CASE CreatSem(t)
    BY <2>3, CreatSemInv
  <2>4. CASE SemInsert(t)
    BY <2>4, SemInsertInv
  <2>5. CASE SemInsertFails(t) \/ CreatDentFails(t) \/ CreatDentNull(t) \/ CreatVnodeFails(t)
    BY <2>5, CreatFailsInv
  <2>6. CASE CreatDent(t)
    BY <2>6, CreatDentInv
  <2>7. CASE CreatVnode(t)
    BY <2>7, CreatVnodeInv
  <2>8. CASE CreatLink(t)
    BY <2>8, CreatLinkInv
  <2>9. QED
    BY <1>1, <2>1, <2>2, <2>3, <2>4, <2>5, <2>6, <2>7, <2>8 DEF Open
<1>2. ASSUME NEW t \in Threads, Close(t) PROVE IInv'
  BY <1>2, SharedInv, DecrefLastInv, ReclaimLastInv, ReclaimSemInv, ReclaimVnodeInv DEF Close
<1>3. ASSUME NEW t \in Threads, Remove(t) PROVE IInv'
  BY <1>3, FoundInv, RemoveGetsemInv, RemoveUnlinkInv, RemoveLookInv, RemoveSlotInv, RemoveEndInv DEF Remove
<1>4. ASSUME NEW t \in Threads, Use(t) PROVE IInv'
  BY <1>4, UseStepInv
<1>5. CASE UNCHANGED vars
  BY <1>5, StutterInv
<1>6. QED
  BY <1>1, <1>2, <1>3, <1>4, <1>5 DEF Next

\* The inductive invariant: who holds which lock, what the tables, the flags of
\* the semaphores and the locals of each thread say of each other.
THEOREM Invariance == Spec => []IInv
BY InitInv, NextInv, PTL DEF Spec

\* A vnode's count is that of the references to it, and no thread refers to a
\* vnode that is gone (vnode_incref, vnode_decref and semfs_reclaim).
THEOREM ReferencesCounted == Spec => []RefsCounted
<1>1. IInv => RefsCounted
  BY DEF IInv, Intact, Counted, RefsLive, RefsCounted
<1>2. QED
  BY <1>1, Invariance, PTL

\* The types; no assertion of semfs_vnops.c or vnode.c on a vnode or on the
\* flags of a semaphore fails; sems_hasvnode says whether there is a vnode.
THEOREM TablesAgree == Spec => []SemsConsistent
<1>1. IInv => SemsConsistent
  BY DEF IInv, Intact, UniqueInTable, HasvnodeKnown, Slots, SemsConsistent, OneVnode
<1>2. QED
  BY <1>1, Invariance, PTL

\* semfs_read, semfs_write and semfs_truncate work on the semaphore of their
\* vnode, and it exists.
THEOREM UsersAreSafe == Spec => []UsersSafe
<1>1. IInv => UsersSafe
  BY DEF IInv, Intact, ThreadsKnown, User, UsersSafe
<1>2. QED
  BY <1>1, Invariance, PTL

\* No semaphore is left without a name and a vnode, and no slot or directory
\* entry without a semaphore.
THEOREM NoneIsForgotten == Spec => []NoneForgotten
<1>1. ASSUME IInv, broken = "no"
      PROVE  NoneForgotten
  <2>1. SemsKept /\ SlotsKnown /\ DentsKnown
    BY <1>1 DEF IInv, Intact
  <2>2. ASSUME NEW s \in Sems, sem[s].live
        PROVE  \/ s \in Range(semarray) /\ (sem[s].linked \/ sem[s].hasvnode)
               \/ \E t \in Threads : cur[t] = s /\ pc[t] \in Creating \cup Removing \cup {"linked?"}
    <3>1. \A i \in Slots : semarray[i] \in Range(semarray)
      BY DEF Slots, Range
    <3>2. QED
      BY <2>1, <2>2, <3>1 DEF SemsKept
  <2>3. \A i \in DOMAIN semarray : semarray[i] # NULL => sem[semarray[i]].live
    BY <2>1 DEF SlotsKnown, Slots
  <2>4. QED
    BY <2>1, <2>2, <2>3 DEF NoneForgotten, DentsKnown
<1>2. IInv => NoneForgotten
  BY <1>1 DEF NoneForgotten
<1>3. QED
  BY <1>2, Invariance, PTL

\* When a reclaim finds that the semaphore it is about to destroy is still in
\* use, a remove of it is under way.
LEMMA ReclaimMeetsRemove ==
  ASSUME IInv, broken = "no", NEW t \in Threads, ReclaimSem(t), broken' = "destroyed"
  PROVE  \E u \in Threads : pc[u] \in Removing /\ ClosedUnder(u)
<1> USE DEF IInv, Intact
<1>1. pc[t] = "linked?" /\ ~ (sem[cur[t]].live /\ sem[cur[t]].lock = NULL /\ Sleepers(cur[t]) = {})
  BY DEF ReclaimSem, At, Destroy
<1>2. /\ cur[t] \in Sems /\ semnum[t] \in Slots /\ semarray[semnum[t]] = cur[t]
      /\ ~ sem[cur[t]].hasvnode
  BY <1>1 DEF ThreadsKnown, Reclaimer
<1>3. sem[cur[t]].live
  BY <1>2, SemFSAssumption DEF SlotsKnown
<1>4. \A u \in Threads : pc[u] \in Using => cur[u] # cur[t]
  BY <1>2 DEF ThreadsKnown, User
<1>5. Sleepers(cur[t]) = {}
  BY <1>4 DEF Sleepers, Using
<1>6. sem[cur[t]].lock \in Threads
  BY <1>1, <1>2, <1>3, <1>5 DEF TypeOK
<1>7. PICK u \in Threads : cur[u] = cur[t] /\ pc[u] \in Locking
  BY <1>2, <1>6 DEF SemLocks
<1>8. pc[u] \in Removing
  BY <1>4, <1>7 DEF Locking, Using, Removing
<1>9. pc'[t] = "cleanup"
  BY DEF ReclaimSem, Goto, TypeOK
<1>10. QED
  BY <1>1, <1>7, <1>8, <1>9 DEF ClosedUnder

\* Nobody uses the semaphore that a remove destroys or has its lock: a remove
\* goes wrong only if the semaphore is gone.
LEMMA RemoveFindsGone ==
  ASSUME IInv, broken = "no", NEW t \in Threads, RemoveDestroy(t) \/ RemoveUnlock(t),
         broken' = "destroyed"
  PROVE  pc[t] \in Removing /\ pc'[t] = "idle" /\ ~ sem[cur[t]].live
<1>1. pc[t] \in {"destroy", "unlock"} /\ pc'[t] = "idle"
  BY DEF RemoveDestroy, RemoveUnlock, RemoveDent, Idle, Goto, At, IInv, TypeOK
<1>2. CASE RemoveUnlock(t)
  BY <1>1, <1>2 DEF RemoveUnlock, Removing
<1>3. CASE RemoveDestroy(t)
  <2>1. pc[t] = "destroy" /\ ~ (sem[cur[t]].live /\ sem[cur[t]].lock = NULL /\ Sleepers(cur[t]) = {})
    BY <1>3 DEF RemoveDestroy, At, Destroy
  <2>2. cur[t] \in Sems /\ ~ sem[cur[t]].hasvnode
    BY <2>1 DEF IInv, Intact, ThreadsKnown, Remover, Removing
  <2>3. \A u \in Threads : pc[u] \in Using => cur[u] # cur[t]
    BY <2>2 DEF IInv, Intact, ThreadsKnown, User
  <2>4. Sleepers(cur[t]) = {}
    BY <2>3 DEF Sleepers, Using
  <2>5. ASSUME NEW u \in Threads, sem[cur[t]].lock = u
        PROVE  FALSE
    <3>1. cur[u] = cur[t] /\ pc[u] \in Locking
      BY <2>2, <2>5 DEF IInv, Intact, SemLocks
    <3>2. pc[u] \in Removing /\ pc[u] # "destroy"
      BY <2>3, <3>1 DEF Locking, Using, Removing
    <3>3. pc[u] \in DirHolding /\ pc[t] \in DirHolding
      BY <2>1, <3>2 DEF DirHolding, Removing
    <3>4. QED
      BY <2>1, <3>2, <3>3, OneInDir
  <2>6. sem[cur[t]].lock \in Threads \cup {NULL}
    BY <2>2 DEF IInv, TypeOK
  <2>7. QED
    BY <1>1, <2>1, <2>4, <2>5, <2>6 DEF Removing
<1>4. QED
  BY <1>2, <1>3

\* Nobody takes a step once the kernel has gone wrong.
LEMMA StepsWhole == Next => broken = "no"
<1> SUFFICES ASSUME NEW t \in Threads, Open(t) \/ Close(t) \/ Remove(t) \/ Use(t)
             PROVE  broken = "no"
  BY DEF Next
<1>1. Open(t) => broken = "no"
  BY DEF Open, LookupFound, LookupVnode, CreatSem, SemInsert, SemInsertFails, CreatDent,
         CreatDentFails, CreatDentNull, CreatVnode, CreatVnodeFails, CreatLink, At
<1>2. Close(t) => broken = "no"
  BY DEF Close, DecrefShared, DecrefLast, ReclaimBusy, ReclaimLast, ReclaimSem, ReclaimVnode, At
<1>3. Remove(t) => broken = "no"
  BY DEF Remove, RemoveFound, RemoveGetsem, RemoveUnlink, RemoveOpen, RemoveClosed, RemoveSlot,
         RemoveDestroy, RemoveUnlock, At
<1>4. Use(t) => broken = "no"
  BY DEF Use, ReadGetsem, WriteGetsem, TruncateGetsem, Getsem, ReadLock, WriteLock, TruncateLock, Lock,
         ReadTest, ReadTake, ReadEmpty, ReadSleep, ReadWoken, Write, WriteOverflows, Truncate,
         Store, ReadWriteEnds, At
<1>5. QED
  BY <1>1, <1>2, <1>3, <1>4

\* A step that changes other fields of a semaphore r, or nothing.
Retouched(r) ==
  \/ sem' = sem
  \/ \E x : sem' = [sem EXCEPT ![r].lock = x]
  \/ \E x : sem' = [sem EXCEPT ![r].count = x]
  \/ \E x : sem' = [sem EXCEPT ![r].linked = x]
  \/ \E x : sem' = [sem EXCEPT ![r].hasvnode = x]
  \/ \E x, y : sem' = [sem EXCEPT ![r].linked = x, ![r].lock = y]

\* Such a step ends none.
LEMMA LiveKept ==
  ASSUME sem \in [Sems -> SemType], NEW s \in Sems, NEW r, Retouched(r)
  PROVE  sem'[s].live = sem[s].live
<1>1. ASSUME NEW x, sem' = [sem EXCEPT ![r].lock = x] PROVE sem'[s].live = sem[s].live
  BY <1>1 DEF SemType
<1>2. ASSUME NEW x, sem' = [sem EXCEPT ![r].count = x] PROVE sem'[s].live = sem[s].live
  BY <1>2 DEF SemType
<1>3. ASSUME NEW x, sem' = [sem EXCEPT ![r].linked = x] PROVE sem'[s].live = sem[s].live
  BY <1>3 DEF SemType
<1>4. ASSUME NEW x, sem' = [sem EXCEPT ![r].hasvnode = x] PROVE sem'[s].live = sem[s].live
  BY <1>4 DEF SemType
<1>5. ASSUME NEW x, NEW y, sem' = [sem EXCEPT ![r].linked = x, ![r].lock = y]
      PROVE  sem'[s].live = sem[s].live
  BY <1>5 DEF SemType
<1>6. QED
  BY <1>1, <1>2, <1>3, <1>4, <1>5 DEF Retouched

\* A semaphore comes to its end in a creat of it that fails, in its last close
\* or at the end of the remove of it.
LEMMA OnlyEnders ==
  ASSUME IInv, Next, NEW s \in Sems, sem[s].live, ~ sem'[s].live
  PROVE  \E t \in Threads :
           cur[t] = s /\ (pc[t] \in Creating \/ ReclaimSem(t) \/ RemoveDestroy(t))
<1> DEFINE Ends(t) == cur[t] = s /\ (pc[t] \in Creating \/ ReclaimSem(t) \/ RemoveDestroy(t))
<1>1. /\ sem \in [Sems -> SemType]
      /\ \A r, x : [sem EXCEPT ![r] = x][s] = IF r = s THEN x ELSE sem[s]
  BY DEF IInv, TypeOK, SemType
<1>2. \A r : ~ Retouched(r)
  BY <1>1, LiveKept
<1>3. Fresh.live
  BY NewSems
<1>4. PICK t \in Threads : Open(t) \/ Close(t) \/ Remove(t) \/ Use(t)
  BY DEF Next
<1>5. Open(t) => Ends(t)
  <2>1. \A i : ~ (Found(t, i) \/ NotMade(i))
    BY <1>2 DEF Found, NotMade, Retouched
  <2>2. ASSUME NEW i, Made(t, i)
        PROVE  Retouched(semarray[i])
    BY <2>2, Zenon DEF Made, Retouched
  <2>3. ~ (LookupFound(t) \/ LookupVnode(t) \/ SemInsert(t) \/ CreatDent(t) \/ CreatVnode(t))
    BY <1>2, <2>1, <2>2
    DEF LookupFound, LookupVnode, SemInsert, CreatDent, CreatVnode, Getvnode, Retouched, tables
  <2>4. ~ CreatSem(t)
    BY <1>1, <1>3 DEF CreatSem, Fresh
  <2>5. CreatLink(t) => Retouched(cur[t])
    BY Zenon DEF CreatLink, Retouched
  <2>6. SemInsertFails(t) \/ CreatDentFails(t) \/ CreatDentNull(t) \/ CreatVnodeFails(t) => Ends(t)
    BY <1>1 DEF SemInsertFails, CreatDentFails, CreatDentNull, CreatVnodeFails, Undo, At, Creating
  <2>7. QED
    BY <1>2, <2>3, <2>4, <2>5, <2>6 DEF Open
<1>6. Close(t) => Ends(t)
  <2>1. ~ (DecrefShared(t) \/ DecrefLast(t) \/ ReclaimBusy(t) \/ ReclaimVnode(t))
    BY <1>2 DEF DecrefShared, DecrefLast, ReclaimBusy, ReclaimVnode, Retouched, tables
  <2>2. ReclaimLast(t) => Retouched(semarray[vnode[ref[t]].semnum])
    BY Zenon DEF ReclaimLast, Unlist, Retouched
  <2>3. ReclaimSem(t) => Ends(t)
    BY <1>1 DEF ReclaimSem, Destroy
  <2>4. QED
    BY <1>2, <2>1, <2>2, <2>3 DEF Close
<1>7. Remove(t) => Ends(t)
  <2>1. ~ (RemoveFound(t) \/ RemoveGetsem(t) \/ RemoveOpen(t) \/ RemoveClosed(t))
    BY <1>2 DEF RemoveFound, RemoveGetsem, RemoveOpen, RemoveClosed, Retouched, tables
  <2>2. RemoveUnlink(t) \/ RemoveSlot(t) \/ RemoveUnlock(t) => Retouched(cur[t])
    BY Zenon DEF RemoveUnlink, RemoveSlot, RemoveUnlock, Retouched
  <2>3. RemoveDestroy(t) => Ends(t)
    BY <1>1 DEF RemoveDestroy, Destroy
  <2>4. QED
    BY <1>2, <2>1, <2>2, <2>3 DEF Remove
<1>8. ~ Use(t)
  <2>1. ~ (ReadGetsem(t) \/ WriteGetsem(t) \/ TruncateGetsem(t) \/ ReadTest(t) \/ ReadSleep(t) \/ ReadWoken(t))
    BY <1>2 DEF ReadGetsem, WriteGetsem, TruncateGetsem, Getsem, ReadTest, ReadSleep, ReadWoken,
                Retouched, tables
  <2>2. ReadLock(t) \/ WriteLock(t) \/ TruncateLock(t) \/ ReadTake(t) \/ ReadEmpty(t) => Retouched(cur[t])
    BY Zenon DEF ReadLock, WriteLock, TruncateLock, Lock, ReadTake, ReadEmpty, Retouched
  <2>3. WriteOverflows(t) \/ Store(t) \/ ReadWriteEnds(t) => Retouched(cur[t])
    BY Zenon DEF WriteOverflows, Store, ReadWriteEnds, Release, Retouched
  <2>4. ASSUME NEW n, Wakeup(t, n)
        PROVE  Retouched(cur[t])
    BY <2>4, Zenon DEF Wakeup, Retouched
  <2>5. QED
    BY <1>2, <2>1, <2>2, <2>3, <2>4 DEF Use, Write, Truncate
<1>9. QED
  BY <1>4, <1>5, <1>6, <1>7, <1>8

\* Only the last close takes a semaphore from the remove that works on it.
LEMMA RemoveLosesToClose ==
  ASSUME IInv, Next, NEW u \in Threads, pc[u] \in Removing, sem[cur[u]].live, ~ sem'[cur[u]].live
  PROVE  ClosedUnder(u) \/ pc'[u] = "idle"
<1>1. broken = "no"
  BY StepsWhole
<1>2. cur[u] \in Sems
  BY <1>1 DEF IInv, Intact, ThreadsKnown, Remover
<1>3. PICK t \in Threads :
        cur[t] = cur[u] /\ (pc[t] \in Creating \/ ReclaimSem(t) \/ RemoveDestroy(t))
  BY <1>2, OnlyEnders
<1>4. CASE ReclaimSem(t)
  BY <1>3, <1>4 DEF ReclaimSem, ClosedUnder, At, Goto, IInv, TypeOK
<1>5. CASE pc[t] \in Creating \/ RemoveDestroy(t)
  <2>1. pc[t] \in DirHolding /\ pc[u] \in DirHolding
    BY <1>5 DEF RemoveDestroy, At, DirHolding, Removing
  <2>2. t = u
    BY <1>1, <2>1, OneInDir
  <2>3. RemoveDestroy(u)
    BY <1>5, <2>2 DEF Creating, Removing
  <2>4. QED
    BY <2>3 DEF RemoveDestroy, RemoveDent, Idle, Goto, IInv, TypeOK
<1>6. QED
  BY <1>3, <1>4, <1>5

\* Only semfs_sem_destroy and lock_release under a remove, and a reclaim, end
\* on a semaphore that they should not have destroyed or that is gone.
LEMMA OnlyDestroyers ==
  ASSUME Next, broken' = "destroyed"
  PROVE  /\ broken = "no"
         /\ \E t \in Threads : ReclaimSem(t) \/ RemoveDestroy(t) \/ RemoveUnlock(t)
<1>1. PICK t \in Threads : Open(t) \/ Close(t) \/ Remove(t) \/ Use(t)
  BY DEF Next
<1>2. ~ Open(t)
  BY DEF Open, LookupFound, LookupVnode, CreatSem, SemInsert, SemInsertFails, CreatDent,
         CreatDentFails, CreatDentNull, CreatVnode, CreatVnodeFails, CreatLink,
         Getvnode, Found, Made, NotMade, At
<1>3. Close(t) => broken = "no" /\ ReclaimSem(t)
  BY DEF Close, DecrefShared, DecrefLast, ReclaimBusy, ReclaimLast, Unlist, ReclaimSem, ReclaimVnode, At
<1>4. Remove(t) => broken = "no" /\ (RemoveDestroy(t) \/ RemoveUnlock(t))
  BY DEF Remove, RemoveFound, RemoveGetsem, RemoveUnlink, RemoveOpen, RemoveClosed, RemoveSlot,
         RemoveDestroy, RemoveUnlock, At
<1>5. ~ Use(t)
  BY DEF Use, ReadGetsem, WriteGetsem, TruncateGetsem, Getsem, ReadLock, WriteLock, TruncateLock, Lock,
         ReadTest, ReadTake, ReadEmpty, ReadSleep, ReadWoken, Write, WriteOverflows, Truncate, Wakeup,
         Store, ReadWriteEnds, Release, At
<1>6. QED
  BY <1>1, <1>2, <1>3, <1>4, <1>5

\* A semaphore is destroyed twice, under its users, or unlocked when it is gone,
\* only where the last close and the remove of it overlap (semfs_vnops.c:496,
\* 631), and only that close takes it from the remove.
THEOREM OnlyRemoveCollides == Spec => DestroyedWhileRemoved
<1> DEFINE Overlap ==
      \E u \in Threads :
        /\ pc[u] \in Removing
        /\ ClosedUnder(u) \/ (pc'[u] = "idle" /\ ~ sem[cur[u]].live)
<1>1. ASSUME IInv, Next, broken' = "destroyed"
      PROVE  Overlap
  <2>1. broken = "no"
    BY <1>1, OnlyDestroyers
  <2>2. PICK t \in Threads : ReclaimSem(t) \/ RemoveDestroy(t) \/ RemoveUnlock(t)
    BY <1>1, OnlyDestroyers
  <2>3. QED
    BY <1>1, <2>1, <2>2, ReclaimMeetsRemove, RemoveFindsGone
<1>2. ASSUME IInv, [Next]_vars
      PROVE  [/\ broken' = "destroyed" => Overlap
              /\ \A u \in Threads :
                   pc[u] \in Removing /\ sem[cur[u]].live /\ ~ sem'[cur[u]].live =>
                     ClosedUnder(u) \/ pc'[u] = "idle"]_vars
  BY <1>1, <1>2, RemoveLosesToClose
<1>3. QED
  BY <1>2, Invariance, PTL DEF Spec, DestroyedWhileRemoved

=============================================================================
