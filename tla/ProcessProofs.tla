---------------------------- MODULE ProcessProofs ----------------------------
(***************************************************************************)
(* Proofs about Process, for any set of processes and any range of pids:   *)
(* a pid names one process until that is collected, the search for a pid   *)
(* finds one, and a child is collected once.                               *)
(***************************************************************************)
EXTENDS Process, FiniteSetTheorems, WellFoundedInduction, TLAPS

Waits(p) == pc[p] \in {"wait_P", "wait_status", "wait_free"}

\* The counter is the size of the map; the first pid is always taken.
Counting == PID_MIN \in pid_allocator /\ proc_counter = Cardinality(pid_allocator)

\* What was told to a parent has happened.
Told ==
  /\ \A q \in Procs : wait_sem[q] # 0 \/ q \in reaped => HasExited(q)
  /\ \A p \in Procs : pc[p] \in {"wait_status", "wait_free"} => HasExited(child[p])

\* The children a process knows of exist and have their pids.
Children == \A p \in Procs :
  /\ \A i \in DOMAIN proc_list[p] : proc_list[p][i] \in Owners /\ pc[proc_list[p][i]] # "made"
  /\ Waits(p) => child[p] \in Owners /\ pc[child[p]] # "made"
  /\ pc[p] = "fork_thread" => child[p] \in Owners /\ pc[child[p]] = "made"
  /\ pc[p] = "fork_return" => \E i \in DOMAIN proc_list[p] : proc_list[p][i] = child[p]

\* A child is in one place of one list, or waited for by one process.
OneParent == \A p, q \in Procs :
  /\ \A i \in DOMAIN proc_list[p], j \in DOMAIN proc_list[q] :
       proc_list[p][i] = proc_list[q][j] => p = q /\ i = j
  /\ Waits(q) => \A i \in DOMAIN proc_list[p] : proc_list[p][i] # child[q]
  /\ Waits(p) /\ Waits(q) /\ child[p] = child[q] => p = q
  /\ pc[p] = "fork_thread" /\ pc[q] = "fork_thread" /\ child[p] = child[q] => p = q

IInv == TypeOK /\ Counting /\ Told /\ Children /\ OneParent /\ PidsUnique

-----------------------------------------------------------------------------
(* The map of pids.                                                        *)

LEMMA PidsFinite == IsFiniteSet(PIDs) /\ Cardinality(PIDs) = PID_MAX - 2
<1>1. PID_MIN \in Int /\ PID_MAX - 1 \in Int
  BY ProcessAssumption
<1>2. QED
  BY <1>1, ProcessAssumption, FS_Interval DEF PIDs

LEMMA MapFinite == ASSUME TypeOK PROVE IsFiniteSet(pid_allocator)
BY PidsFinite, FS_Subset DEF TypeOK

\* With room for one more the search comes to an entry that is free.
LEMMA SearchFinds ==
  ASSUME TypeOK, Counting, RoomForPid
  PROVE  FirstFree \in FreePids
<1>1. FreePids # {}
  <2>1. pid_allocator # PIDs
    BY PidsFinite, ProcessAssumption DEF Counting, RoomForPid, TypeOK
  <2>2. QED
    BY <2>1 DEF FreePids, TypeOK
<1>2. FreePids \subseteq Nat
  BY ProcessAssumption DEF FreePids, PIDs
<1>3. PICK x \in FreePids : \A y \in FreePids : ~ (<<y, x>> \in OpToRel(<, Nat))
  BY <1>1, <1>2, NatLessThanWellFounded, WFMin
<1>4. OpToRel(<, Nat) = {yx \in Nat \X Nat : yx[1] < yx[2]}
  BY DEF OpToRel
<1>5. \A y \in FreePids : x <= y
  <2> SUFFICES ASSUME NEW y \in FreePids PROVE ~ (y < x)
    BY <1>2
  <2>1. <<y, x>> \in Nat \X Nat
    BY <1>2
  <2>2. QED
    BY <1>3, <1>4, <2>1
<1>6. QED
  BY <1>5 DEF FirstFree

\* What pid_get leaves: a pid nobody has, or none.
LEMMA GotPid ==
  ASSUME TypeOK, Counting, NEW q \in Procs, pid_get(q)
  PROVE  \E n \in PIDs \cup {-1} :
           /\ pid' = [pid EXCEPT ![q] = n]
           /\ pid_allocator' = pid_allocator \cup ({n} \ {-1})
           /\ n \notin pid_allocator
           /\ RoomForPid <=> n # -1
           /\ proc_counter' \in 0 .. PID_MAX - 2
           /\ Counting'
<1>0. PIDs \subseteq Nat /\ -1 \notin PIDs
  BY ProcessAssumption DEF PIDs
<1>1. CASE RoomForPid
  <2>1. PICK n \in PIDs : n = FirstFree /\ n \notin pid_allocator
    BY <1>1, SearchFinds DEF FreePids
  <2>2. /\ pid' = [pid EXCEPT ![q] = n]
        /\ pid_allocator' = pid_allocator \cup {n}
        /\ proc_counter' = proc_counter + 1
    BY <1>1, <2>1 DEF pid_get
  <2>3. Cardinality(pid_allocator \cup {n}) = Cardinality(pid_allocator) + 1
    BY <2>1, MapFinite, FS_AddElement
  <2>4. Counting'
    BY <2>2, <2>3 DEF Counting
  <2>5. proc_counter' \in 0 .. PID_MAX - 2
    BY <1>1, <2>2, ProcessAssumption DEF TypeOK, RoomForPid
  <2>6. {n} \ {-1} = {n}
    BY <1>0
  <2>7. QED
    BY <1>0, <1>1, <2>1, <2>2, <2>4, <2>5, <2>6
<1>2. CASE ~ RoomForPid
  <2>1. /\ pid' = [pid EXCEPT ![q] = -1]
        /\ UNCHANGED <<pid_allocator, proc_counter>>
    BY <1>2 DEF pid_get
  <2>2. -1 \notin pid_allocator
    BY <1>0 DEF TypeOK
  <2>3. QED
    BY <1>2, <2>1, <2>2 DEF Counting, TypeOK
<1>3. QED
  BY <1>1, <1>2

\* Who owns a pid depends on little else.
LEMMA SameOwners ==
  ASSUME UNCHANGED <<pid, reaped>>,
         \A q \in Procs : pc'[q] \in {"none", "destroyed"} <=> pc[q] \in {"none", "destroyed"}
  PROVE  Owners' = Owners
BY DEF Owners

LEMMA OwnersKeepPids ==
  ASSUME PidsUnique, UNCHANGED <<pid, pid_allocator>>, Owners' = Owners
  PROVE  PidsUnique'
BY DEF PidsUnique

-----------------------------------------------------------------------------

LEMMA InitInv == Init => IInv
<1> SUFFICES ASSUME Init PROVE IInv
  OBVIOUS
<1>1. TypeOK
  <2>1. PID_MIN \in PIDs /\ 1 \in 0 .. PID_MAX - 2
    BY ProcessAssumption DEF PIDs
  <2>2. \A p \in Procs : proc_list[p] = <<>>
    BY DEF Init
  <2>3. proc_list \in [Procs -> Seq(Procs)]
    BY DEF Init
  <2>4. QED
    BY <2>1, <2>3 DEF Init, TypeOK, Places
<1>2. Counting
  BY FS_Singleton DEF Init, Counting
<1>3. Told /\ Children /\ OneParent /\ PidsUnique
  BY DEF Init, Told, Children, OneParent, PidsUnique, Owners, Waits
<1>4. QED
  BY <1>1, <1>2, <1>3 DEF IInv

\* The steps of one process that change neither a list nor who has a pid.
LEMMA QuietInv ==
  ASSUME IInv, NEW p \in Procs,
         ForkReturn(p) \/ Exit(p) \/ ExitCode(p) \/ ExitV(p) \/ ThreadExit(p)
           \/ WaitNoChild(p) \/ WaitP(p) \/ WaitStatus(p)
  PROVE  IInv'
<1> USE DEF IInv
<1>1. PICK m \in Places :
        /\ pc' = [pc EXCEPT ![p] = m]
        /\ UNCHANGED <<pid_allocator, proc_counter, pid, proc_list, reaped>>
        /\ pc[p] \notin {"none", "destroyed", "made", "fork_thread"}
        /\ m \notin {"none", "destroyed", "made", "fork_thread", "fork_return"}
        /\ HasExited(p) => m \in {"exit_thread", "gone"}
        /\ m \in {"wait_P", "wait_status", "wait_free"} => Waits(p) /\ child'[p] = child[p]
        /\ \A q \in Procs : q # p => child'[q] = child[q]
  <2>1. CASE ForkReturn(p)
    BY <2>1 DEF ForkReturn, Places, TypeOK, HasExited
  <2>2. CASE Exit(p) \/ ExitCode(p) \/ ExitV(p) \/ ThreadExit(p)
    BY <2>2 DEF Exit, ExitCode, ExitV, ThreadExit, Places, HasExited
  <2>3. CASE WaitNoChild(p)
    <3>1. pc[p] = "user" /\ pc' = [pc EXCEPT ![p] = "user"]
      BY <2>3 DEF WaitNoChild, TypeOK
    <3>2. QED
      BY <2>3, <3>1 DEF WaitNoChild, Places, HasExited
  <2>4. CASE WaitP(p) \/ WaitStatus(p)
    BY <2>4 DEF WaitP, WaitStatus, Places, HasExited, Waits
  <2>5. QED
    BY <2>1, <2>2, <2>3, <2>4
<1>2. \A q \in Procs : pc'[q] = IF q = p THEN m ELSE pc[q]
  BY <1>1 DEF TypeOK
<1>3. Owners' = Owners
  BY <1>1, <1>2, SameOwners
<1>4. Counting' /\ PidsUnique'
  BY <1>1, <1>3, OwnersKeepPids DEF Counting
<1>5. \A q \in Procs : HasExited(q) => HasExited(q)'
  BY <1>1, <1>2 DEF HasExited
<1>6. wait_sem' \in [Procs -> {0, 1}] /\ \A q \in Procs : wait_sem'[q] # 0 => HasExited(q)'
  <2>1. CASE ExitV(p)
    <3>1. /\ wait_sem[p] = 0 /\ wait_sem' = [wait_sem EXCEPT ![p] = @ + 1]
          /\ pc' = [pc EXCEPT ![p] = "exit_thread"]
      BY <2>1 DEF ExitV, Told, HasExited
    <3>2. wait_sem' = [wait_sem EXCEPT ![p] = 1]
      BY <3>1 DEF TypeOK
    <3>3. HasExited(p)'
      BY <3>1 DEF TypeOK, HasExited
    <3>4. QED
      BY <1>5, <3>2, <3>3 DEF TypeOK, Told
  <2>2. CASE WaitP(p)
    <3>1. /\ pc[p] = "wait_P" /\ child[p] \in Procs /\ wait_sem[child[p]] = 1
          /\ wait_sem' = [wait_sem EXCEPT ![child[p]] = @ - 1]
      BY <2>2 DEF WaitP, Children, Waits, Owners, TypeOK
    <3>2. wait_sem' = [wait_sem EXCEPT ![child[p]] = 0]
      BY <3>1 DEF TypeOK
    <3>3. QED
      BY <1>5, <3>1, <3>2 DEF TypeOK, Told
  <2>3. CASE UNCHANGED wait_sem
    BY <1>5, <2>3 DEF TypeOK, Told
  <2>4. QED
    BY <2>1, <2>2, <2>3 DEF ForkReturn, Exit, ExitCode, ThreadExit, WaitNoChild, WaitStatus
<1>7. Told'
  <2>1. \A q \in Procs : q \in reaped' => HasExited(q)'
    BY <1>1, <1>5 DEF Told
  <2>2. ASSUME NEW q \in Procs, pc'[q] \in {"wait_status", "wait_free"} PROVE HasExited(child[q])'
    <3>1. CASE WaitP(p) /\ q = p
      <4>1. child[p] \in Procs /\ wait_sem[child[p]] # 0 /\ child'[p] = child[p]
        BY <3>1 DEF WaitP, Children, Waits, Owners, TypeOK
      <4>2. QED
        BY <1>5, <3>1, <4>1 DEF Told, HasExited
    <3>2. CASE ~ (WaitP(p) /\ q = p)
      <4>1. pc[q] \in {"wait_status", "wait_free"} /\ child'[q] = child[q]
        BY <1>1, <1>2, <2>2, <3>2
           DEF ForkReturn, Exit, ExitCode, ExitV, ThreadExit, WaitNoChild, WaitStatus, TypeOK
      <4>2. child[q] \in Procs /\ HasExited(child[q])
        BY <4>1 DEF Told, Children, Waits, Owners
      <4>3. QED
        BY <1>5, <4>1, <4>2 DEF HasExited
    <3>3. QED
      BY <3>1, <3>2
  <2>3. QED
    BY <1>6, <2>1, <2>2 DEF Told
<1>8. Children'
  <2>1. \A q \in Owners : pc[q] # "made" => pc'[q] # "made"
    BY <1>1, <1>2 DEF Owners
  <2>2. \A q \in Owners : pc[q] = "made" => pc'[q] = "made"
    BY <1>1, <1>2 DEF Owners
  <2>3. \A q \in Procs : pc'[q] \in {"fork_thread", "fork_return"} =>
          pc'[q] = pc[q] /\ child'[q] = child[q]
    BY <1>1, <1>2
  <2>4. \A q \in Procs : Waits(q)' => Waits(q) /\ child'[q] = child[q]
    BY <1>1, <1>2 DEF Waits
  <2>5. QED
    BY <1>1, <1>3, <2>1, <2>2, <2>3, <2>4 DEF Children
<1>9. OneParent'
  <2>1. \A q \in Procs : Waits(q)' => Waits(q) /\ child'[q] = child[q]
    BY <1>1, <1>2 DEF Waits
  <2>2. \A q \in Procs : pc'[q] = "fork_thread" => pc[q] = "fork_thread" /\ child'[q] = child[q]
    BY <1>1, <1>2
  <2>3. QED
    BY <1>1, <2>1, <2>2 DEF OneParent
<1>10. TypeOK'
  <2>1. pc' \in [Procs -> Places]
    BY <1>1 DEF TypeOK
  <2>2. child' \in [Procs -> Procs \cup {None}]
    BY DEF TypeOK, ForkReturn, Exit, ExitCode, ExitV, ThreadExit, WaitNoChild, WaitP, WaitStatus
  <2>3. exit_code' \in [Procs -> Codes \cup {None}]
    BY DEF TypeOK, ForkReturn, Exit, ExitCode, ExitV, ThreadExit, WaitNoChild, WaitP, WaitStatus
  <2>4. p_exitcode' \in [Procs -> Codes \cup {None}]
    BY DEF TypeOK, ForkReturn, Exit, ExitCode, ExitV, ThreadExit, WaitNoChild, WaitP, WaitStatus
  <2>5. status' \in [Procs -> Codes \cup {None}]
    <3>1. CASE WaitStatus(p)
      <4>1. child[p] \in Procs /\ status' = [status EXCEPT ![p] = p_exitcode[child[p]]]
        BY <3>1 DEF WaitStatus, Children, Waits, Owners
      <4>2. QED
        BY <4>1 DEF TypeOK
    <3>2. CASE UNCHANGED status
      BY <3>2 DEF TypeOK
    <3>3. QED
      BY <3>1, <3>2 DEF ForkReturn, Exit, ExitCode, ExitV, ThreadExit, WaitNoChild, WaitP
  <2>6. retval' \in [Procs -> PIDs \cup {0, -1}]
    <3>1. CASE ForkReturn(p)
      <4>1. child[p] \in Owners /\ retval' = [retval EXCEPT ![p] = pid[child[p]]]
        BY <3>1 DEF ForkReturn, Children
      <4>2. pid[child[p]] \in PIDs
        BY <4>1 DEF PidsUnique, TypeOK
      <4>3. QED
        BY <4>1, <4>2 DEF TypeOK
    <3>2. CASE ~ ForkReturn(p)
      BY <3>2 DEF TypeOK, Exit, ExitCode, ExitV, ThreadExit, WaitNoChild, WaitP, WaitStatus
    <3>3. QED
      BY <3>1, <3>2
  <2>7. QED
    BY <1>1, <1>6, <2>1, <2>2, <2>3, <2>4, <2>5, <2>6 DEF TypeOK
<1>11. QED
  BY <1>4, <1>7, <1>8, <1>9, <1>10

LEMMA ForkThreadInv == ASSUME IInv, NEW p \in Procs, ForkThread(p) PROVE IInv'
<1> USE DEF IInv
<1>1. PICK c \in Procs, m \in {"fork_return", "user"}, n \in {"user", "stillborn"} :
        /\ pc[p] = "fork_thread" /\ child[p] = c /\ pc[c] = "made" /\ c # p
        /\ c \in Owners
        /\ pc' = [pc EXCEPT ![p] = m, ![c] = n]
        /\ proc_list' = [proc_list EXCEPT ![p] = Append(@, c)]
        /\ child' \in [Procs -> Procs \cup {None}]
        /\ m = "fork_return" => child'[p] = c
        /\ \A q \in Procs : q # p => child'[q] = child[q]
        /\ retval' \in [Procs -> PIDs \cup {0, -1}]
        /\ UNCHANGED <<pid_allocator, proc_counter, pid, p_exitcode, wait_sem, exit_code,
                       status, reaped>>
  <2>1. /\ pc[p] = "fork_thread" /\ child[p] \in Procs /\ child[p] \in Owners
        /\ pc[child[p]] = "made" /\ child[p] # p
    BY DEF ForkThread, Children, Owners
  <2>2. /\ proc_list' = [proc_list EXCEPT ![p] = Append(@, child[p])]
        /\ UNCHANGED <<pid_allocator, proc_counter, pid, p_exitcode, wait_sem, exit_code,
                       status, reaped>>
    BY DEF ForkThread
  <2>3. CASE /\ pc' = [pc EXCEPT ![p] = "fork_return", ![child[p]] = "user"]
             /\ UNCHANGED <<child, retval>>
    BY <2>1, <2>2, <2>3 DEF TypeOK
  <2>4. CASE /\ pc' = [pc EXCEPT ![p] = "user", ![child[p]] = "stillborn"]
             /\ child' = [child EXCEPT ![p] = None]
             /\ retval' = [retval EXCEPT ![p] = -1]
    <3>1. /\ child' \in [Procs -> Procs \cup {None}]
          /\ retval' \in [Procs -> PIDs \cup {0, -1}]
          /\ \A q \in Procs : q # p => child'[q] = child[q]
      BY <2>4 DEF TypeOK
    <3>2. QED
      BY <2>1, <2>2, <2>4, <3>1
  <2>5. QED
    BY <2>3, <2>4 DEF ForkThread
<1>2. \A q \in Procs : pc'[q] = IF q = c THEN n ELSE IF q = p THEN m ELSE pc[q]
  BY <1>1 DEF TypeOK
<1>3. Owners' = Owners
  BY <1>1, <1>2, SameOwners
<1>4. Counting' /\ PidsUnique'
  BY <1>1, <1>3, OwnersKeepPids DEF Counting
<1>5. \A q \in Procs : q # p => proc_list'[q] = proc_list[q]
  BY <1>1 DEF TypeOK
<1>6. /\ proc_list'[p] = Append(proc_list[p], c)
      /\ proc_list[p] \in Seq(Procs)
  BY <1>1 DEF TypeOK
<1>7. /\ DOMAIN proc_list'[p] = DOMAIN proc_list[p] \cup {Len(proc_list[p]) + 1}
      /\ Len(proc_list[p]) + 1 \notin DOMAIN proc_list[p]
      /\ proc_list'[p][Len(proc_list[p]) + 1] = c
      /\ \A k \in DOMAIN proc_list[p] : proc_list'[p][k] = proc_list[p][k]
  BY <1>6
<1>8. TypeOK'
  <2>1. pc' \in [Procs -> Places]
    BY <1>1 DEF TypeOK, Places
  <2>2. proc_list' \in [Procs -> Seq(Procs)]
    BY <1>1, <1>6 DEF TypeOK
  <2>3. QED
    BY <1>1, <2>1, <2>2 DEF TypeOK
<1>9. Told'
  <2>1. \A q \in Procs : HasExited(q) => q # p /\ q # c /\ HasExited(q)'
    BY <1>1, <1>2 DEF HasExited
  <2>2. \A q \in Procs : pc'[q] \in {"wait_status", "wait_free"} =>
          pc[q] \in {"wait_status", "wait_free"} /\ child'[q] = child[q] /\ child[q] \in Procs
    BY <1>1, <1>2 DEF Children, Waits, Owners
  <2>3. QED
    BY <1>1, <2>1, <2>2 DEF Told
<1>10. \A q \in Procs : Waits(q)' => q # p /\ Waits(q) /\ child'[q] = child[q]
  BY <1>1, <1>2 DEF Waits
<1>11. \A q \in Procs : pc'[q] = "fork_thread" =>
         q # p /\ pc[q] = "fork_thread" /\ child'[q] = child[q] /\ child[q] # c
  BY <1>1, <1>2 DEF OneParent
<1>12. Children'
  <2>1. \A q \in Owners : pc[q] # "made" => pc'[q] # "made"
    BY <1>1, <1>2 DEF Owners
  <2>2. pc'[c] # "made"
    BY <1>2
  <2>3. ASSUME NEW q \in Procs, NEW k \in DOMAIN proc_list'[q]
        PROVE  proc_list'[q][k] \in Owners /\ pc'[proc_list'[q][k]] # "made"
    <3>1. CASE q = p /\ k = Len(proc_list[p]) + 1
      BY <1>1, <1>7, <2>2, <3>1
    <3>2. CASE ~ (q = p /\ k = Len(proc_list[p]) + 1)
      <4>1. k \in DOMAIN proc_list[q] /\ proc_list'[q][k] = proc_list[q][k]
        BY <1>5, <1>7, <2>3, <3>2
      <4>2. QED
        BY <2>1, <4>1 DEF Children
    <3>3. QED
      BY <3>1, <3>2
  <2>4. ASSUME NEW q \in Procs, Waits(q)'
        PROVE  child'[q] \in Owners /\ pc'[child'[q]] # "made"
    BY <1>10, <2>1, <2>4 DEF Children
  <2>5. ASSUME NEW q \in Procs, pc'[q] = "fork_thread"
        PROVE  child'[q] \in Owners /\ pc'[child'[q]] = "made"
    <3>1. /\ child'[q] = child[q] /\ child[q] \in Owners /\ pc[child[q]] = "made"
          /\ child[q] # c /\ child[q] # p
      BY <1>1, <1>11, <2>5 DEF Children
    <3>2. QED
      BY <1>2, <3>1 DEF Owners
  <2>6. ASSUME NEW q \in Procs, pc'[q] = "fork_return"
        PROVE  \E k \in DOMAIN proc_list'[q] : proc_list'[q][k] = child'[q]
    <3>1. CASE q = p
      BY <1>1, <1>2, <1>7, <2>6, <3>1
    <3>2. CASE q # p
      BY <1>1, <1>2, <1>5, <2>6, <3>2 DEF Children
    <3>3. QED
      BY <3>1, <3>2
  <2>7. QED
    BY <1>3, <2>3, <2>4, <2>5, <2>6 DEF Children
<1>13. OneParent'
  <2>1. \A q \in Procs : \A k \in DOMAIN proc_list[q] : proc_list[q][k] # c
    BY <1>1 DEF Children
  <2>2. \A q \in Procs : Waits(q) => child[q] # c
    BY <1>1 DEF Children
  <2>3. \A q \in Procs : \A k \in DOMAIN proc_list'[q] :
          \/ q = p /\ k = Len(proc_list[p]) + 1 /\ proc_list'[q][k] = c
          \/ k \in DOMAIN proc_list[q] /\ proc_list'[q][k] = proc_list[q][k]
    BY <1>5, <1>7
  <2>4. ASSUME NEW q \in Procs, NEW r \in Procs,
               NEW k \in DOMAIN proc_list'[q], NEW j \in DOMAIN proc_list'[r],
               proc_list'[q][k] = proc_list'[r][j]
        PROVE  q = r /\ k = j
    BY <2>1, <2>3, <2>4 DEF OneParent
  <2>5. ASSUME NEW q \in Procs, NEW r \in Procs, Waits(r)', NEW k \in DOMAIN proc_list'[q]
        PROVE  proc_list'[q][k] # child'[r]
    BY <1>10, <2>2, <2>3, <2>5 DEF OneParent
  <2>6. QED
    BY <1>10, <1>11, <2>4, <2>5 DEF OneParent
<1>14. QED
  BY <1>4, <1>8, <1>9, <1>12, <1>13

\* Taking a place out of a list.
LEMMA WithoutList ==
  ASSUME NEW S, NEW s \in Seq(S), NEW i \in 1 .. Len(s)
  PROVE  /\ Without(s, i) \in Seq(S)
         /\ Len(Without(s, i)) = Len(s) - 1
         /\ \A k \in 1 .. Len(s) - 1 : Without(s, i)[k] = IF k < i THEN s[k] ELSE s[k + 1]
<1>1. SubSeq(s, 1, i - 1) \in Seq(S) /\ Len(SubSeq(s, 1, i - 1)) = i - 1
  OBVIOUS
<1>2. SubSeq(s, i + 1, Len(s)) \in Seq(S) /\ Len(SubSeq(s, i + 1, Len(s))) = Len(s) - i
  OBVIOUS
<1>3. \A k \in 1 .. i - 1 : SubSeq(s, 1, i - 1)[k] = s[k]
  OBVIOUS
<1>4. \A k \in 1 .. Len(s) - i : SubSeq(s, i + 1, Len(s))[k] = s[k + i]
  OBVIOUS
<1> DEFINE a == SubSeq(s, 1, i - 1)
           b == SubSeq(s, i + 1, Len(s))
<1>5. Without(s, i) = a \o b
  BY DEF Without
<1> HIDE DEF a, b
<1>6. /\ a \in Seq(S) /\ Len(a) = i - 1 /\ b \in Seq(S) /\ Len(b) = Len(s) - i
      /\ \A k \in 1 .. i - 1 : a[k] = s[k]
      /\ \A k \in 1 .. Len(s) - i : b[k] = s[k + i]
  BY <1>1, <1>2, <1>3, <1>4 DEF a, b
<1>7. a \o b \in Seq(S) /\ Len(a \o b) = Len(s) - 1
  <2>1. a \in Seq(S) /\ b \in Seq(S)
    BY <1>6
  <2>2. a \o b \in Seq(S) /\ Len(a \o b) = Len(a) + Len(b)
    BY <2>1
  <2>3. Len(s) \in Nat /\ Len(a) = i - 1 /\ Len(b) = Len(s) - i
    BY <1>6
  <2>4. Len(a) + Len(b) = Len(s) - 1
    BY <2>3
  <2>5. QED
    BY <2>2, <2>4
<1>8. ASSUME NEW k \in 1 .. Len(s) - 1
      PROVE  (a \o b)[k] = IF k < i THEN s[k] ELSE s[k + 1]
  <2>1. CASE k < i
    <3>1. (a \o b)[k] = a[k]
      BY <1>6, <2>1
    <3>2. QED
      BY <1>6, <2>1, <3>1
  <2>2. CASE ~ (k < i)
    <3>1. (a \o b)[k] = b[k - (i - 1)]
      BY <1>6, <2>2
    <3>2. k - (i - 1) \in 1 .. Len(s) - i /\ (k - (i - 1)) + i = k + 1
      BY <2>2
    <3>3. QED
      BY <1>6, <2>2, <3>1, <3>2
  <2>3. QED
    BY <2>1, <2>2
<1>9. QED
  BY <1>5, <1>7, <1>8

LEMMA WaitCallInv == ASSUME IInv, NEW p \in Procs, WaitCall(p) PROVE IInv'
<1> USE DEF IInv
<1>1. PICK i \in DOMAIN proc_list[p], c \in Owners :
        /\ pc[p] = "user" /\ proc_list[p][i] = c /\ pc[c] # "made"
        /\ child' = [child EXCEPT ![p] = c]
        /\ proc_list' = [proc_list EXCEPT ![p] = Without(@, i)]
        /\ pc' = [pc EXCEPT ![p] = "wait_P"]
        /\ UNCHANGED <<pid_allocator, proc_counter, pid, p_exitcode, wait_sem, exit_code,
                       status, retval, reaped>>
  <2>1. PICK n \in PIDs :
          /\ Matches(p, n) # {}
          /\ child' = [child EXCEPT ![p] = proc_list[p][FirstMatch(p, n)]]
          /\ proc_list' = [proc_list EXCEPT ![p] = Without(@, FirstMatch(p, n))]
    BY DEF WaitCall
  <2>2. FirstMatch(p, n) \in Matches(p, n)
    <3>1. Matches(p, n) \subseteq Nat
      <4>1. proc_list[p] \in Seq(Procs)
        BY DEF TypeOK
      <4>2. DOMAIN proc_list[p] \subseteq Nat
        BY <4>1
      <4>3. QED
        BY <4>2 DEF Matches
    <3>2. PICK x \in Matches(p, n) : \A y \in Matches(p, n) : ~ (<<y, x>> \in OpToRel(<, Nat))
      BY <2>1, <3>1, NatLessThanWellFounded, WFMin
    <3>3. OpToRel(<, Nat) = {yx \in Nat \X Nat : yx[1] < yx[2]}
      BY DEF OpToRel
    <3>4. ASSUME NEW y \in Matches(p, n) PROVE x <= y
      <4>1. <<y, x>> \in Nat \X Nat
        BY <3>1
      <4>2. ~ (y < x)
        BY <3>2, <3>3, <4>1
      <4>3. QED
        BY <3>1, <4>2
    <3>5. QED
      BY <3>4 DEF FirstMatch
  <2>3. FirstMatch(p, n) \in DOMAIN proc_list[p]
    BY <2>2 DEF Matches
  <2>4. /\ proc_list[p][FirstMatch(p, n)] \in Owners
        /\ pc[proc_list[p][FirstMatch(p, n)]] # "made"
    BY <2>3 DEF Children
  <2>5. QED
    BY <2>1, <2>3, <2>4 DEF WaitCall
<1>2. \A q \in Procs : pc'[q] = IF q = p THEN "wait_P" ELSE pc[q]
  BY <1>1 DEF TypeOK
<1>3. Owners' = Owners
  BY <1>1, <1>2, SameOwners
<1>4. Counting' /\ PidsUnique'
  BY <1>1, <1>3, OwnersKeepPids DEF Counting
<1>5. proc_list[p] \in Seq(Procs) /\ i \in 1 .. Len(proc_list[p])
  BY <1>1 DEF TypeOK
<1>6. /\ proc_list'[p] = Without(proc_list[p], i)
      /\ \A q \in Procs : q # p => proc_list'[q] = proc_list[q]
  BY <1>1 DEF TypeOK
<1>7. /\ proc_list'[p] \in Seq(Procs)
      /\ DOMAIN proc_list'[p] = 1 .. Len(proc_list[p]) - 1
      /\ \A k \in 1 .. Len(proc_list[p]) - 1 :
           proc_list'[p][k] = IF k < i THEN proc_list[p][k] ELSE proc_list[p][k + 1]
  <2>1. Without(proc_list[p], i) \in Seq(Procs) /\ Len(Without(proc_list[p], i)) = Len(proc_list[p]) - 1
    BY <1>5, WithoutList
  <2>2. \A k \in 1 .. Len(proc_list[p]) - 1 : Without(proc_list[p], i)[k] =
          IF k < i THEN proc_list[p][k] ELSE proc_list[p][k + 1]
    BY <1>5, WithoutList
  <2>3. QED
    BY <1>6, <2>1, <2>2
<1>8. TypeOK'
  <2>1. pc' \in [Procs -> Places] /\ child' \in [Procs -> Procs \cup {None}]
    BY <1>1 DEF TypeOK, Places, Owners
  <2>2. proc_list' \in [Procs -> Seq(Procs)]
    BY <1>1, <1>6, <1>7 DEF TypeOK
  <2>3. QED
    BY <1>1, <2>1, <2>2 DEF TypeOK
<1>9. \A q \in Procs : q # p => child'[q] = child[q] /\ (Waits(q)' <=> Waits(q))
  BY <1>1, <1>2 DEF TypeOK, Waits
<1>10. child'[p] = c /\ ~ Waits(p)
  BY <1>1 DEF TypeOK, Waits
<1>11. Told'
  <2>1. \A q \in Procs : HasExited(q) => HasExited(q)'
    BY <1>1, <1>2 DEF HasExited
  <2>2. \A q \in Procs : pc'[q] \in {"wait_status", "wait_free"} =>
          pc[q] \in {"wait_status", "wait_free"} /\ child'[q] = child[q] /\ child[q] \in Procs
    BY <1>2, <1>9 DEF Children, Waits, Owners
  <2>3. QED
    BY <1>1, <2>1, <2>2 DEF Told
\* Every entry of a new list is another place of the old one.
<1>12. DEFINE Old(q, k) == IF q = p /\ k >= i THEN k + 1 ELSE k
<1>13. \A q \in Procs : \A k \in DOMAIN proc_list'[q] :
         /\ Old(q, k) \in DOMAIN proc_list[q]
         /\ proc_list'[q][k] = proc_list[q][Old(q, k)]
         /\ ~ (q = p /\ Old(q, k) = i)
  <2> SUFFICES ASSUME NEW q \in Procs, NEW k \in DOMAIN proc_list'[q]
               PROVE  /\ Old(q, k) \in DOMAIN proc_list[q]
                      /\ proc_list'[q][k] = proc_list[q][Old(q, k)]
                      /\ ~ (q = p /\ Old(q, k) = i)
    OBVIOUS
  <2>1. CASE q = p
    <3>1. k \in 1 .. Len(proc_list[p]) - 1 /\ Len(proc_list[p]) \in Nat
      BY <1>5, <1>7, <2>1
    <3>2. Old(p, k) \in 1 .. Len(proc_list[p]) /\ Old(p, k) # i
      BY <1>5, <3>1
    <3>3. proc_list'[p][k] = proc_list[p][Old(p, k)]
      BY <1>5, <1>7, <3>1
    <3>4. DOMAIN proc_list[p] = 1 .. Len(proc_list[p])
      BY <1>5
    <3>5. QED
      BY <2>1, <3>2, <3>3, <3>4
  <2>2. CASE q # p
    BY <1>6, <2>2
  <2>3. QED
    BY <2>1, <2>2
<1>14. \A k, j \in DOMAIN proc_list'[p] : Old(p, k) = Old(p, j) => k = j
  BY <1>5, <1>7
<1>15. \A q \in Procs : \A k, j \in DOMAIN proc_list'[q] : Old(q, k) = Old(q, j) => k = j
  BY <1>14
<1> HIDE DEF Old
<1>16. Children'
  <2>1. \A q \in Procs : pc[q] # "made" => pc'[q] # "made"
    BY <1>2
  <2>2. ASSUME NEW q \in Procs, NEW k \in DOMAIN proc_list'[q]
        PROVE  proc_list'[q][k] \in Owners /\ pc'[proc_list'[q][k]] # "made"
    BY <1>13, <2>1 DEF Children, Owners
  <2>3. ASSUME NEW q \in Procs, Waits(q)'
        PROVE  child'[q] \in Owners /\ pc'[child'[q]] # "made"
    BY <1>1, <1>9, <1>10, <2>1, <2>3 DEF Children, Owners
  <2>4. ASSUME NEW q \in Procs, pc'[q] = "fork_thread"
        PROVE  child'[q] \in Owners /\ pc'[child'[q]] = "made"
    BY <1>1, <1>2, <1>9, <2>4 DEF Children, Owners
  <2>5. ASSUME NEW q \in Procs, pc'[q] = "fork_return"
        PROVE  \E k \in DOMAIN proc_list'[q] : proc_list'[q][k] = child'[q]
    BY <1>2, <1>6, <1>9, <2>5 DEF Children
  <2>6. QED
    BY <1>3, <2>2, <2>3, <2>4, <2>5 DEF Children
<1>17. OneParent'
  <2>1. ASSUME NEW q \in Procs, NEW r \in Procs,
               NEW k \in DOMAIN proc_list'[q], NEW j \in DOMAIN proc_list'[r],
               proc_list'[q][k] = proc_list'[r][j]
        PROVE  q = r /\ k = j
    <3>1. q = r /\ Old(q, k) = Old(r, j)
      BY <1>13, <2>1 DEF OneParent
    <3>2. QED
      BY <1>15, <3>1
  <2>2. ASSUME NEW q \in Procs, NEW r \in Procs, Waits(r)', NEW k \in DOMAIN proc_list'[q]
        PROVE  proc_list'[q][k] # child'[r]
    <3>1. CASE r = p
      BY <1>1, <1>10, <1>13, <3>1 DEF OneParent
    <3>2. CASE r # p
      BY <1>9, <1>13, <2>2, <3>2 DEF OneParent
    <3>3. QED
      BY <3>1, <3>2
  <2>3. ASSUME NEW q \in Procs, NEW r \in Procs, Waits(q)', Waits(r)', child'[q] = child'[r]
        PROVE  q = r
    BY <1>1, <1>9, <1>10, <2>3 DEF OneParent
  <2>4. ASSUME NEW q \in Procs, NEW r \in Procs, pc'[q] = "fork_thread", pc'[r] = "fork_thread",
               child'[q] = child'[r]
        PROVE  q = r
    BY <1>2, <1>9, <2>4 DEF OneParent
  <2>5. QED
    BY <2>1, <2>2, <2>3, <2>4 DEF OneParent
<1>18. QED
  BY <1>4, <1>8, <1>11, <1>16, <1>17

LEMMA WaitFreeInv == ASSUME IInv, NEW p \in Procs, WaitFree(p) PROVE IInv'
<1> USE DEF IInv
<1>1. PICK c \in Owners :
        /\ pc[p] = "wait_free" /\ child[p] = c /\ Waits(p) /\ HasExited(c)
        /\ pid_free(pid[c])
        /\ reaped' = reaped \cup {c}
        /\ retval' = [retval EXCEPT ![p] = 0]
        /\ child' = [child EXCEPT ![p] = None]
        /\ pc' = [pc EXCEPT ![p] = "user"]
        /\ UNCHANGED <<pid, p_exitcode, wait_sem, proc_list, exit_code, status>>
  BY DEF WaitFree, Children, Told, Waits
<1>2. /\ pc' \in [Procs -> Places]
      /\ \A q \in Procs : pc'[q] = IF q = p THEN "user" ELSE pc[q]
      /\ \A q \in Procs : q # p => child'[q] = child[q]
      /\ p # c
  BY <1>1 DEF TypeOK, Places, HasExited, Waits
<1>3. Owners' = Owners \ {c}
  BY <1>1, <1>2 DEF Owners
<1>4. /\ pid_allocator' = pid_allocator \ {pid[c]}
      /\ proc_counter' = proc_counter - 1
      /\ pid[c] \in pid_allocator /\ pid[c] # PID_MIN
  BY <1>1 DEF pid_free, PidsUnique
<1>5. Counting' /\ proc_counter' \in 0 .. PID_MAX - 2
  <2>1. /\ Cardinality(pid_allocator \ {pid[c]}) = Cardinality(pid_allocator) - 1
        /\ Cardinality(pid_allocator \ {pid[c]}) \in Nat
    <3>1. IsFiniteSet(pid_allocator)
      BY MapFinite
    <3>2. IsFiniteSet(pid_allocator \ {pid[c]})
      BY <3>1, FS_RemoveElement
    <3>3. QED
      BY <1>4, <3>1, <3>2, FS_RemoveElement, FS_CardinalityType
  <2>2. Counting'
    BY <1>4, <2>1 DEF Counting
  <2>3. QED
    BY <1>4, <2>1, <2>2, ProcessAssumption DEF Counting, TypeOK
<1>6. PidsUnique'
  BY <1>1, <1>3, <1>4 DEF PidsUnique
<1>7. TypeOK'
  <2>1. child' \in [Procs -> Procs \cup {None}] /\ retval' \in [Procs -> PIDs \cup {0, -1}]
    BY <1>1 DEF TypeOK
  <2>2. reaped' \subseteq Procs /\ pid_allocator' \subseteq PIDs
    BY <1>1, <1>4 DEF TypeOK, Owners
  <2>3. QED
    BY <1>1, <1>2, <1>5, <2>1, <2>2 DEF TypeOK
<1>8. Told'
  <2>1. \A q \in Procs : HasExited(q) => HasExited(q)'
    BY <1>1, <1>2 DEF HasExited
  <2>2. \A q \in Procs : pc'[q] \in {"wait_status", "wait_free"} =>
          pc[q] \in {"wait_status", "wait_free"} /\ child'[q] = child[q] /\ child[q] \in Procs
    BY <1>2 DEF Children, Waits, Owners
  <2>3. QED
    BY <1>1, <2>1, <2>2 DEF Told, Owners
\* Nobody else knows of the child.
<1>9. \A q \in Procs : \A k \in DOMAIN proc_list[q] : proc_list[q][k] # c
  BY <1>1 DEF OneParent
<1>10. \A q \in Procs : q # p /\ Waits(q) => child[q] # c
  BY <1>1 DEF OneParent
<1>11. \A q \in Procs : Waits(q)' => q # p /\ Waits(q) /\ child'[q] = child[q]
  BY <1>2 DEF Waits
<1>12. \A q \in Procs : pc'[q] \in {"fork_thread", "fork_return"} =>
         q # p /\ pc'[q] = pc[q] /\ child'[q] = child[q]
  BY <1>2
<1>13. Children'
  <2>1. \A q \in Owners : pc[q] # "made" => pc'[q] # "made"
    BY <1>2 DEF Owners
  <2>2. \A q \in Owners : pc[q] = "made" => pc'[q] = "made" /\ q # c
    BY <1>1, <1>2 DEF Owners, HasExited
  <2>3. ASSUME NEW q \in Procs, NEW k \in DOMAIN proc_list'[q]
        PROVE  proc_list'[q][k] \in Owners' /\ pc'[proc_list'[q][k]] # "made"
    BY <1>1, <1>3, <1>9, <2>1 DEF Children
  <2>4. ASSUME NEW q \in Procs, Waits(q)'
        PROVE  child'[q] \in Owners' /\ pc'[child'[q]] # "made"
    BY <1>3, <1>10, <1>11, <2>1, <2>4 DEF Children
  <2>5. ASSUME NEW q \in Procs, pc'[q] = "fork_thread"
        PROVE  child'[q] \in Owners' /\ pc'[child'[q]] = "made"
    BY <1>3, <1>12, <2>2, <2>5 DEF Children
  <2>6. ASSUME NEW q \in Procs, pc'[q] = "fork_return"
        PROVE  \E k \in DOMAIN proc_list'[q] : proc_list'[q][k] = child'[q]
    BY <1>1, <1>12, <2>6 DEF Children
  <2>7. QED
    BY <2>3, <2>4, <2>5, <2>6 DEF Children
<1>14. OneParent'
  BY <1>1, <1>11, <1>12 DEF OneParent
<1>15. QED
  BY <1>5, <1>6, <1>7, <1>8, <1>13, <1>14

\* A new process takes over nobody's pid, whether it runs or not.
LEMMA CreatedOwners ==
  ASSUME IInv, NEW q \in Procs, NEW n \in PIDs \cup {-1},
         pc[q] = "none", n \notin pid_allocator, reaped' = reaped,
         pid' = [pid EXCEPT ![q] = n],
         pid_allocator' = pid_allocator \cup ({n} \ {-1}),
         \A r \in Procs : r # q =>
           (pc'[r] \in {"none", "destroyed"} <=> pc[r] \in {"none", "destroyed"})
  PROVE  /\ PidsUnique'
         /\ q \notin Owners
         /\ Owners' = IF pc'[q] \in {"none", "destroyed"} \/ n = -1 THEN Owners ELSE Owners \cup {q}
         /\ pid' \in [Procs -> PIDs \cup {1, -1}]
         /\ pid_allocator' \subseteq PIDs
<1> USE DEF IInv
<1>1. \A r \in Procs : pid'[r] = IF r = q THEN n ELSE pid[r]
  BY DEF TypeOK
<1>2. q \notin Owners /\ q \notin reaped
  BY DEF Owners, Told, HasExited
<1>3. Owners' = IF pc'[q] \in {"none", "destroyed"} \/ n = -1 THEN Owners ELSE Owners \cup {q}
  BY <1>1, <1>2 DEF Owners
<1>4. PidsUnique'
  <2>1. \A r \in Owners : r \in Procs /\ r # q /\ pid'[r] = pid[r]
    BY <1>1, <1>2 DEF Owners
  <2>2. pid_allocator \subseteq pid_allocator'
    OBVIOUS
  <2>3. n # PID_MIN
    BY DEF Counting
  <2>4. q \in Owners' => pid'[q] = n /\ n \in pid_allocator' /\ n # -1
    BY <1>1, <1>2, <1>3
  <2>5. QED
    BY <1>2, <1>3, <2>1, <2>2, <2>3, <2>4 DEF PidsUnique
<1>5. pid' \in [Procs -> PIDs \cup {1, -1}] /\ pid_allocator' \subseteq PIDs
  BY DEF TypeOK
<1>6. QED
  BY <1>2, <1>3, <1>4, <1>5

LEMMA RunProgramInv == ASSUME IInv, NEW q \in Procs, RunProgram(q) PROVE IInv'
<1> USE DEF IInv
<1>1. /\ pc[q] = "none" /\ pid_get(q)
      /\ UNCHANGED <<p_exitcode, wait_sem, proc_list, child, exit_code, status, retval, reaped>>
  BY DEF RunProgram
<1>2. PICK to \in {"user", "destroyed"} : pc' = [pc EXCEPT ![q] = to]
  BY DEF RunProgram
<1>3. PICK n \in PIDs \cup {-1} :
        /\ pid' = [pid EXCEPT ![q] = n]
        /\ pid_allocator' = pid_allocator \cup ({n} \ {-1})
        /\ n \notin pid_allocator
        /\ proc_counter' \in 0 .. PID_MAX - 2
        /\ Counting'
  BY <1>1, GotPid
<1>4. /\ pc' \in [Procs -> Places]
      /\ \A r \in Procs : pc'[r] = IF r = q THEN to ELSE pc[r]
  BY <1>2 DEF TypeOK, Places
<1>5. PidsUnique' /\ q \notin Owners /\ Owners \subseteq Owners' /\
      pid' \in [Procs -> PIDs \cup {1, -1}] /\ pid_allocator' \subseteq PIDs
  BY <1>1, <1>3, <1>4, CreatedOwners
<1>6. TypeOK'
  BY <1>1, <1>3, <1>4, <1>5 DEF TypeOK
<1>7. \A r \in Procs : pc'[r] \notin {"user", "destroyed"} \/ r # q => pc'[r] = pc[r]
  BY <1>4
<1>8. \A r \in Procs : Waits(r)' => Waits(r)
  BY <1>4 DEF Waits
<1>9. Told'
  <2>1. \A r \in Procs : HasExited(r) => HasExited(r)'
    BY <1>1, <1>4 DEF HasExited
  <2>2. \A r \in Procs : pc'[r] \in {"wait_status", "wait_free"} =>
          pc[r] \in {"wait_status", "wait_free"} /\ child[r] \in Procs
    BY <1>4 DEF Children, Waits, Owners
  <2>3. QED
    BY <1>1, <2>1, <2>2 DEF Told
<1>10. Children'
  <2>1. \A r \in Owners : pc'[r] = pc[r]
    BY <1>4, <1>5 DEF Owners
  <2>2. QED
    BY <1>1, <1>4, <1>5, <1>8, <2>1 DEF Children
<1>11. OneParent'
  BY <1>1, <1>4, <1>8 DEF OneParent
<1>12. QED
  BY <1>3, <1>5, <1>6, <1>9, <1>10, <1>11

LEMMA ForkCreateInv ==
  ASSUME IInv, NEW p \in Procs, NEW q \in Procs, ForkCreate(p, q)
  PROVE  IInv'
<1> USE DEF IInv
<1>1. /\ pc[p] = "user" /\ pc[q] = "none" /\ p # q /\ pid_get(q)
      /\ UNCHANGED <<p_exitcode, wait_sem, proc_list, exit_code, status, reaped>>
  BY DEF ForkCreate
<1>2. PICK n \in PIDs \cup {-1} :
        /\ pid' = [pid EXCEPT ![q] = n]
        /\ pid_allocator' = pid_allocator \cup ({n} \ {-1})
        /\ n \notin pid_allocator
        /\ RoomForPid <=> n # -1
        /\ proc_counter' \in 0 .. PID_MAX - 2
        /\ Counting'
  BY <1>1, GotPid
<1>3. PICK m \in {"user", "fork_thread"}, to \in {"made", "stillborn", "destroyed"} :
        /\ \A r \in Procs : pc'[r] = IF r = q THEN to ELSE IF r = p THEN m ELSE pc[r]
        /\ pc' \in [Procs -> Places]
        /\ m = "fork_thread" <=> to = "made"
        /\ m = "fork_thread" => n # -1 /\ child'[p] = q
        /\ \A r \in Procs : r # p => child'[r] = child[r]
        /\ child' \in [Procs -> Procs \cup {None}]
        /\ retval' \in [Procs -> PIDs \cup {0, -1}]
  <2>1. CASE /\ RoomForPid
             /\ pc' = [pc EXCEPT ![p] = "fork_thread", ![q] = "made"]
             /\ child' = [child EXCEPT ![p] = q]
             /\ UNCHANGED retval
    BY <1>1, <1>2, <2>1 DEF TypeOK, Places
  <2>2. CASE /\ pc' = [pc EXCEPT ![q] = "stillborn"]
             /\ retval' = [retval EXCEPT ![p] = -1]
             /\ UNCHANGED child
    BY <1>1, <2>2 DEF TypeOK, Places
  <2>3. CASE /\ pc' = [pc EXCEPT ![q] = "destroyed"]
             /\ retval' = [retval EXCEPT ![p] = -1]
             /\ UNCHANGED child
    BY <1>1, <2>3 DEF TypeOK, Places
  <2>4. QED
    BY <2>1, <2>2, <2>3 DEF ForkCreate
<1>4. /\ PidsUnique' /\ q \notin Owners
      /\ Owners' = IF pc'[q] \in {"none", "destroyed"} \/ n = -1 THEN Owners ELSE Owners \cup {q}
      /\ pid' \in [Procs -> PIDs \cup {1, -1}] /\ pid_allocator' \subseteq PIDs
  <2>1. \A r \in Procs : r # q =>
          (pc'[r] \in {"none", "destroyed"} <=> pc[r] \in {"none", "destroyed"})
    BY <1>1, <1>3
  <2>2. QED
    BY <1>1, <1>2, <2>1, CreatedOwners
<1>5. Owners \subseteq Owners' /\ (m = "fork_thread" => q \in Owners')
  BY <1>3, <1>4
<1>6. TypeOK'
  BY <1>1, <1>2, <1>3, <1>4 DEF TypeOK
<1>7. \A r \in Procs : Waits(r)' => r # p /\ r # q /\ Waits(r) /\ child'[r] = child[r]
  BY <1>3 DEF Waits
<1>8. Told'
  <2>1. \A r \in Procs : HasExited(r) => HasExited(r)'
    BY <1>1, <1>3 DEF HasExited
  <2>2. \A r \in Procs : pc'[r] \in {"wait_status", "wait_free"} =>
          pc[r] \in {"wait_status", "wait_free"} /\ child'[r] = child[r] /\ child[r] \in Procs
    BY <1>3, <1>7 DEF Children, Waits, Owners
  <2>3. QED
    BY <1>1, <2>1, <2>2 DEF Told
<1>9. Children'
  <2>1. \A r \in Owners : r \in Procs /\ r # q /\ (pc'[r] = "made" <=> pc[r] = "made")
    BY <1>1, <1>3, <1>4 DEF Owners
  <2>2. ASSUME NEW r \in Procs, NEW k \in DOMAIN proc_list'[r]
        PROVE  proc_list'[r][k] \in Owners' /\ pc'[proc_list'[r][k]] # "made"
    BY <1>1, <1>5, <2>1 DEF Children
  <2>3. ASSUME NEW r \in Procs, Waits(r)'
        PROVE  child'[r] \in Owners' /\ pc'[child'[r]] # "made"
    BY <1>5, <1>7, <2>1, <2>3 DEF Children
  <2>4. ASSUME NEW r \in Procs, pc'[r] = "fork_thread"
        PROVE  child'[r] \in Owners' /\ pc'[child'[r]] = "made"
    <3>1. CASE r = p
      BY <1>1, <1>3, <1>5, <2>4, <3>1
    <3>2. CASE r # p
      BY <1>3, <1>5, <2>1, <2>4, <3>2 DEF Children
    <3>3. QED
      BY <3>1, <3>2
  <2>5. ASSUME NEW r \in Procs, pc'[r] = "fork_return"
        PROVE  \E k \in DOMAIN proc_list'[r] : proc_list'[r][k] = child'[r]
    BY <1>1, <1>3, <2>5 DEF Children
  <2>6. QED
    BY <2>2, <2>3, <2>4, <2>5 DEF Children
<1>10. OneParent'
  <2>1. \A r \in Procs : r # p /\ pc'[r] = "fork_thread" =>
          pc[r] = "fork_thread" /\ child'[r] = child[r] /\ child[r] # q
    BY <1>3, <1>4 DEF Children
  <2>2. ASSUME NEW r \in Procs, NEW t \in Procs, pc'[r] = "fork_thread", pc'[t] = "fork_thread",
               child'[r] = child'[t]
        PROVE  r = t
    BY <1>1, <1>3, <2>1, <2>2 DEF OneParent
  <2>3. QED
    BY <1>1, <1>7, <2>2 DEF OneParent
<1>11. QED
  BY <1>2, <1>4, <1>6, <1>8, <1>9, <1>10

-----------------------------------------------------------------------------
(* Pids and children.                                                      *)

LEMMA NextInv == IInv /\ [Next]_vars => IInv'
<1> SUFFICES ASSUME IInv, [Next]_vars PROVE IInv'
  OBVIOUS
<1>1. ASSUME NEW p \in Procs, Kernel(p) PROVE IInv'
  BY <1>1, ForkThreadInv, QuietInv, WaitFreeInv DEF Kernel
<1>2. ASSUME NEW p \in Procs, User(p) PROVE IInv'
  BY <1>2, RunProgramInv, ForkCreateInv, QuietInv, WaitCallInv DEF User
<1>3. CASE UNCHANGED vars
  BY <1>3 DEF vars, IInv, TypeOK, Counting, Told, Children, OneParent, PidsUnique, Owners, Waits,
     HasExited
<1>4. QED
  BY <1>1, <1>2, <1>3 DEF Next

\* The inductive invariant of processes and pids holds in every reachable state.
THEOREM Invariance == Spec => []IInv
<1>1. QED
  BY InitInv, NextInv, PTL DEF Spec

\* The counter stays below the number of pids, a wait_sem is posted once at
\* most, and fork returns a pid or an error.
THEOREM TypeCorrect == Spec => []TypeOK
<1>1. IInv => TypeOK
  BY DEF IInv
<1>2. QED
  BY <1>1, Invariance, PTL

\* No pid names two processes before the first one has been collected.
THEOREM PidsAreUnique == Spec => []PidsUnique
<1>1. IInv => PidsUnique
  BY DEF IInv
<1>2. QED
  BY <1>1, Invariance, PTL

\* The loop of pid_get, which has no other end, finds a free entry.
THEOREM SearchesEnd == Spec => []SearchEnds
<1>1. IInv => SearchEnds
  BY SearchFinds DEF IInv, SearchEnds
<1>2. QED
  BY <1>1, Invariance, PTL

\* A child is on one list or in one waitpid, and in neither once its pid is free.
THEOREM ChildrenAreCollectedOnce == Spec => []CollectedOnce
<1>1. IInv => CollectedOnce
  <2> SUFFICES ASSUME IInv, NEW t \in Procs
               PROVE  Listings(t) <= (IF t \in reaped THEN 0 ELSE 1)
    BY DEF CollectedOnce
  <2> DEFINE L == {pi \in Procs \X (1 .. Cardinality(Procs)) :
                     pi[2] \in DOMAIN proc_list[pi[1]] /\ proc_list[pi[1]][pi[2]] = t}
             W == {p \in Procs : pc[p] \in {"wait_P", "wait_status", "wait_free"} /\ child[p] = t}
  <2>1. Listings(t) = Cardinality(L) + Cardinality(W)
    BY DEF Listings
  <2>2. t \in reaped => L = {} /\ W = {}
    BY DEF IInv, Children, Owners, Waits
  <2>3. ASSUME NEW x \in L, NEW y \in L PROVE x = y
    <3>1. /\ x[1] \in Procs /\ x[2] \in DOMAIN proc_list[x[1]] /\ proc_list[x[1]][x[2]] = t
          /\ y[1] \in Procs /\ y[2] \in DOMAIN proc_list[y[1]] /\ proc_list[y[1]][y[2]] = t
      OBVIOUS
    <3>2. x[1] = y[1] /\ x[2] = y[2]
      BY <3>1 DEF IInv, OneParent
    <3>3. QED
      BY <3>2
  <2>4. \A p, q \in W : p = q
    BY DEF IInv, OneParent, Waits
  <2>5. ASSUME NEW x \in L PROVE W = {}
    <3>1. x[1] \in Procs /\ x[2] \in DOMAIN proc_list[x[1]] /\ proc_list[x[1]][x[2]] = t
      OBVIOUS
    <3>2. QED
      BY <3>1 DEF IInv, OneParent, Waits
  <2> HIDE DEF L, W
  <2>6. CASE L = {} /\ W = {}
    BY <2>1, <2>6, FS_EmptySet
  <2>7. CASE L = {} /\ W # {}
    <3>1. PICK p \in W : W = {p}
      BY <2>4, <2>7
    <3>2. Cardinality(W) = 1 /\ Cardinality(L) = 0
      BY <2>7, <3>1, FS_Singleton, FS_EmptySet
    <3>3. QED
      BY <2>1, <2>2, <2>7, <3>2
  <2>8. CASE L # {}
    <3>1. PICK x \in L : L = {x}
      BY <2>3, <2>8
    <3>2. Cardinality(L) = 1 /\ Cardinality(W) = 0
      BY <2>5, <3>1, FS_Singleton, FS_EmptySet
    <3>3. QED
      BY <2>1, <2>2, <2>8, <3>2
  <2>9. QED
    BY <2>6, <2>7, <2>8
<1>2. QED
  BY <1>1, Invariance, PTL

\* fork returns a pid that is in use and that the parent finds on its list.
THEOREM ForkReturnsAChild == Spec => ForkReturnsChild
<1>1. ASSUME IInv, [Next]_vars, NEW p \in Procs, pc[p] = "fork_return", pc'[p] = "user"
      PROVE  /\ retval'[p] \in pid_allocator
             /\ Matches(p, retval'[p]) # {}
  <2>1. PICK k \in DOMAIN proc_list[p] : proc_list[p][k] = child[p]
    BY <1>1 DEF IInv, Children
  <2>2. ForkReturn(p)
    <3>1. \A q \in Procs : pc[q] = "fork_thread" => child[q] # p
      BY <1>1 DEF IInv, Children
    <3>2. pc' # pc
      BY <1>1
    <3>3. PICK q \in Procs : Kernel(q) \/ User(q)
      BY <1>1, <3>2 DEF Next, vars
    <3>4. ASSUME q # p PROVE FALSE
      BY <1>1, <3>1, <3>3, <3>4
         DEF IInv, TypeOK, Kernel, User, ForkThread, ForkReturn, ExitCode, ExitV, ThreadExit,
             WaitP, WaitStatus, WaitFree, RunProgram, ForkCreate, Exit, WaitNoChild, WaitCall
    <3>5. QED
      BY <1>1, <3>3, <3>4
         DEF Kernel, User, ForkThread, ExitCode, ExitV, ThreadExit,
             WaitP, WaitStatus, WaitFree, RunProgram, ForkCreate, Exit, WaitNoChild, WaitCall
  <2>3. retval'[p] = pid[child[p]]
    BY <1>1, <2>2 DEF ForkReturn, IInv, TypeOK
  <2>4. child[p] \in Owners
    BY <1>1, <2>1 DEF IInv, Children
  <2>5. QED
    BY <1>1, <2>1, <2>3, <2>4 DEF IInv, PidsUnique, Matches
<1>2. IInv /\ [Next]_vars =>
        [\A p \in Procs : pc[p] = "fork_return" /\ pc'[p] = "user" =>
           /\ retval'[p] \in pid_allocator
           /\ Matches(p, retval'[p]) # {}]_vars
  BY <1>1
<1>3. QED
  BY <1>2, Invariance, PTL DEF Spec, ForkReturnsChild

-----------------------------------------------------------------------------
(* Exit codes: the safety part of the refinement of AbstractWait.          *)

\* An exiting process has its code, which the structure holds from then on.
CodesKept == \A q \in Procs :
  /\ pc[q] \in {"exit_code", "exit_V"} \/ HasExited(q) => exit_code[q] \in Codes
  /\ pc[q] = "exit_V" \/ HasExited(q) => p_exitcode[q] = exit_code[q]

LEMMA CodesKeptInit == Init => CodesKept
BY DEF Init, CodesKept, HasExited

LEMMA CodesKeptNext == IInv /\ CodesKept /\ [Next]_vars => CodesKept'
<1> SUFFICES ASSUME IInv, CodesKept, [Next]_vars PROVE CodesKept'
  OBVIOUS
<1> USE DEF IInv, TypeOK, HasExited
<1>1. ASSUME NEW p \in Procs, Exit(p) PROVE CodesKept'
  BY <1>1 DEF Exit, CodesKept
<1>2. ASSUME NEW p \in Procs, ExitCode(p) PROVE CodesKept'
  BY <1>2 DEF ExitCode, CodesKept
<1>3. ASSUME NEW p \in Procs, ExitV(p) \/ ThreadExit(p) PROVE CodesKept'
  BY <1>3 DEF ExitV, ThreadExit, CodesKept
<1>4. ASSUME UNCHANGED <<exit_code, p_exitcode>>,
             \A q \in Procs : pc'[q] \in {"exit_code", "exit_V", "exit_thread", "gone"} =>
               pc'[q] = pc[q]
      PROVE  CodesKept'
  BY <1>4 DEF CodesKept
<1>5. ASSUME NEW p \in Procs, ForkThread(p) PROVE CodesKept'
  <2>1. child[p] \in Procs
    BY <1>5 DEF ForkThread, Children, Owners
  <2>2. QED
    BY <1>4, <1>5, <2>1 DEF ForkThread
<1>6. ASSUME NEW p \in Procs,
             ForkReturn(p) \/ WaitP(p) \/ WaitStatus(p) \/ WaitFree(p) \/ RunProgram(p)
               \/ WaitNoChild(p) \/ WaitCall(p)
      PROVE  CodesKept'
  BY <1>4, <1>6 DEF ForkReturn, WaitP, WaitStatus, WaitFree, RunProgram, WaitNoChild, WaitCall
<1>7. ASSUME NEW p \in Procs, NEW q \in Procs, ForkCreate(p, q) PROVE CodesKept'
  BY <1>4, <1>7 DEF ForkCreate
<1>8. CASE UNCHANGED vars
  BY <1>8 DEF vars, CodesKept
<1>9. QED
  BY <1>1, <1>2, <1>3, <1>5, <1>6, <1>7, <1>8 DEF Next, Kernel, User

\* The abstract variables: whose code has been collected, whom a process is
\* waiting for and what it left.
Asked(p) == IF pc[p] \in {"wait_P", "wait_status"} THEN child[p] ELSE None
Left(q) == IF HasExited(q) THEN exit_code[q] ELSE None
NotYet(q) == pc[q] \in {"none", "made", "stillborn", "destroyed"}

LEMMA AStates ==
  ASSUME NEW q \in Procs
  PROVE  AState(q) = IF Collected(q) THEN "collected"
                     ELSE IF HasExited(q) THEN "exited"
                     ELSE IF NotYet(q) THEN "none" ELSE "running"
<1>1. CASE Collected(q)
  BY <1>1 DEF AState, Collected
<1>2. CASE ~ Collected(q) /\ HasExited(q)
  BY <1>2 DEF AState, Collected, HasExited
<1>3. CASE ~ Collected(q) /\ ~ HasExited(q) /\ NotYet(q)
  BY <1>3 DEF AState, Collected, HasExited, NotYet
<1>4. CASE ~ Collected(q) /\ ~ HasExited(q) /\ ~ NotYet(q)
  BY <1>4 DEF AState, Collected, HasExited, NotYet
<1>5. QED
  BY <1>1, <1>2, <1>3, <1>4

LEMMA InitRefines == Init => Abstract!AInit
<1> SUFFICES ASSUME Init PROVE Abstract!AInit
  OBVIOUS
<1>1. \A q \in Procs : AState(q) = "none" /\ Left(q) = None /\ Asked(q) = None
  BY AStates DEF Init, HasExited, Collected, NotYet, Left, Asked
<1>2. QED
  BY <1>1 DEF Init, Abstract!AInit, Left, Asked

\* The same after a step.
LEMMA AStatesNext ==
  ASSUME NEW q \in Procs
  PROVE  AState(q)' = IF Collected(q)' THEN "collected"
                      ELSE IF HasExited(q)' THEN "exited"
                      ELSE IF NotYet(q)' THEN "none" ELSE "running"
<1>1. CASE Collected(q)'
  BY <1>1 DEF AState
<1>2. CASE ~ Collected(q)' /\ HasExited(q)'
  BY <1>2 DEF AState, HasExited, Collected
<1>3. CASE ~ Collected(q)' /\ ~ HasExited(q)' /\ NotYet(q)'
  BY <1>3 DEF AState, NotYet
<1>4. CASE ~ Collected(q)' /\ ~ HasExited(q)' /\ ~ NotYet(q)'
  BY <1>4 DEF AState, NotYet
<1>5. QED
  BY <1>1, <1>2, <1>3, <1>4

LEMMA CollectedHasExited ==
  ASSUME Told, NEW q \in Procs, Collected(q)
  PROVE  HasExited(q)
BY DEF Told, Collected

\* Nothing is collected unless a waitpid reads a status.
LEMMA SameCollected ==
  ASSUME reaped' = reaped,
         \A p \in Procs : pc'[p] = "wait_free" <=> pc[p] = "wait_free",
         \A p \in Procs : pc[p] = "wait_free" => child'[p] = child[p]
  PROVE  \A q \in Procs : Collected(q)' <=> Collected(q)
BY DEF Collected

LEMMA Stutter ==
  ASSUME \A q \in Procs : Collected(q)' <=> Collected(q),
         \A q \in Procs : HasExited(q)' <=> HasExited(q),
         \A q \in Procs : NotYet(q)' <=> NotYet(q),
         \A q \in Procs : Left(q)' = Left(q) /\ Asked(q)' = Asked(q),
         status' = status
  PROVE  UNCHANGED Abstract!avars
<1>1. \A q \in Procs : AState(q)' = AState(q)
  BY AStates, AStatesNext
<1>2. QED
  BY <1>1 DEF Abstract!avars, Left, Asked

LEMMA Starts ==
  ASSUME NEW c \in Procs, Told,
         NotYet(c), ~ NotYet(c)', ~ HasExited(c)',
         \A q \in Procs : Collected(q)' <=> Collected(q),
         \A q \in Procs : q # c => (HasExited(q)' <=> HasExited(q)) /\ (NotYet(q)' <=> NotYet(q)),
         \A q \in Procs : Left(q)' = Left(q) /\ Asked(q)' = Asked(q),
         status' = status
  PROVE  Abstract!Start(c)
<1>1. ~ HasExited(c)
  BY DEF NotYet, HasExited
<1>2. ~ Collected(c) /\ ~ Collected(c)'
  BY <1>1, CollectedHasExited
<1>3. \A q \in Procs : AState(q)' = IF q = c THEN "running" ELSE AState(q)
  BY <1>2, AStates, AStatesNext
<1>4. AState(c) = "none"
  BY <1>1, <1>2, AStates
<1>5. QED
  BY <1>3, <1>4 DEF Abstract!Start, Left, Asked

LEMMA RunProgramRefines ==
  ASSUME IInv, NEW q \in Procs, RunProgram(q)
  PROVE  Abstract!ANext \/ UNCHANGED Abstract!avars
<1> USE DEF IInv
<1>1. PICK to \in {"user", "destroyed"} :
        /\ pc[q] = "none"
        /\ \A r \in Procs : pc'[r] = IF r = q THEN to ELSE pc[r]
        /\ UNCHANGED <<child, exit_code, status, reaped>>
  BY DEF RunProgram, TypeOK
<1>2. \A r \in Procs : Collected(r)' <=> Collected(r)
  <2>1. \A r \in Procs : pc'[r] = "wait_free" <=> pc[r] = "wait_free"
    BY <1>1
  <2>2. QED
    BY <1>1, <2>1, SameCollected
<1>3. \A r \in Procs : HasExited(r)' <=> HasExited(r)
  BY <1>1 DEF HasExited
<1>4. \A r \in Procs : Left(r)' = Left(r) /\ Asked(r)' = Asked(r)
  BY <1>1, <1>3 DEF Left, Asked
<1>5. \A r \in Procs : r # q => (NotYet(r)' <=> NotYet(r))
  BY <1>1 DEF NotYet
<1>6. CASE to = "user"
  <2>1. NotYet(q) /\ ~ NotYet(q)' /\ ~ HasExited(q)'
    BY <1>1, <1>6 DEF NotYet, HasExited
  <2>2. Abstract!Start(q)
    BY <1>1, <1>2, <1>3, <1>4, <1>5, <2>1, Starts
  <2>3. QED
    BY <2>2 DEF Abstract!ANext
<1>7. CASE to = "destroyed"
  <2>1. \A r \in Procs : NotYet(r)' <=> NotYet(r)
    BY <1>1, <1>7 DEF NotYet
  <2>2. QED
    BY <1>1, <1>2, <1>3, <1>4, <2>1, Stutter
<1>8. QED
  BY <1>6, <1>7

LEMMA ForkThreadRefines ==
  ASSUME IInv, NEW p \in Procs, ForkThread(p)
  PROVE  Abstract!ANext \/ UNCHANGED Abstract!avars
<1> USE DEF IInv
<1>1. PICK c \in Procs, m \in {"fork_return", "user"}, n \in {"user", "stillborn"} :
        /\ pc[p] = "fork_thread" /\ pc[c] = "made" /\ c # p
        /\ \A r \in Procs : pc'[r] = IF r = c THEN n ELSE IF r = p THEN m ELSE pc[r]
        /\ \A r \in Procs : r # p => child'[r] = child[r]
        /\ UNCHANGED <<exit_code, status, reaped>>
  <2>1. /\ pc[p] = "fork_thread" /\ child[p] \in Procs /\ pc[child[p]] = "made" /\ child[p] # p
        /\ UNCHANGED <<exit_code, status, reaped>>
    BY DEF ForkThread, Children, Owners
  <2>2. CASE /\ pc' = [pc EXCEPT ![p] = "fork_return", ![child[p]] = "user"]
             /\ UNCHANGED child
    BY <2>1, <2>2 DEF TypeOK
  <2>3. CASE /\ pc' = [pc EXCEPT ![p] = "user", ![child[p]] = "stillborn"]
             /\ child' = [child EXCEPT ![p] = None]
    BY <2>1, <2>3 DEF TypeOK
  <2>4. QED
    BY <2>2, <2>3 DEF ForkThread
<1>2. \A r \in Procs : Collected(r)' <=> Collected(r)
  <2>1. \A r \in Procs : pc'[r] = "wait_free" <=> pc[r] = "wait_free"
    BY <1>1
  <2>2. \A r \in Procs : pc[r] = "wait_free" => child'[r] = child[r]
    BY <1>1
  <2>3. QED
    BY <1>1, <2>1, <2>2, SameCollected
<1>3. \A r \in Procs : HasExited(r)' <=> HasExited(r)
  BY <1>1 DEF HasExited
<1>4. \A r \in Procs : Left(r)' = Left(r) /\ Asked(r)' = Asked(r)
  BY <1>1, <1>3 DEF Left, Asked
<1>5. \A r \in Procs : r # c => (NotYet(r)' <=> NotYet(r))
  BY <1>1 DEF NotYet
<1>6. CASE n = "user"
  <2>1. NotYet(c) /\ ~ NotYet(c)' /\ ~ HasExited(c)'
    BY <1>1, <1>6 DEF NotYet, HasExited
  <2>2. Abstract!Start(c)
    BY <1>1, <1>2, <1>3, <1>4, <1>5, <2>1, Starts
  <2>3. QED
    BY <2>2 DEF Abstract!ANext
<1>7. CASE n = "stillborn"
  <2>1. \A r \in Procs : NotYet(r)' <=> NotYet(r)
    BY <1>1, <1>7 DEF NotYet
  <2>2. QED
    BY <1>1, <1>2, <1>3, <1>4, <2>1, Stutter
<1>8. QED
  BY <1>6, <1>7

LEMMA ForkCreateRefines ==
  ASSUME IInv, NEW p \in Procs, NEW q \in Procs, ForkCreate(p, q)
  PROVE  UNCHANGED Abstract!avars
<1> USE DEF IInv
<1>1. PICK m \in {"user", "fork_thread"}, to \in {"made", "stillborn", "destroyed"} :
        /\ pc[p] = "user" /\ pc[q] = "none"
        /\ \A r \in Procs : pc'[r] = IF r = q THEN to ELSE IF r = p THEN m ELSE pc[r]
        /\ \A r \in Procs : r # p => child'[r] = child[r]
        /\ UNCHANGED <<exit_code, status, reaped>>
  BY DEF ForkCreate, TypeOK
<1>2. \A r \in Procs : Collected(r)' <=> Collected(r)
  <2>1. \A r \in Procs : pc'[r] = "wait_free" <=> pc[r] = "wait_free"
    BY <1>1
  <2>2. \A r \in Procs : pc[r] = "wait_free" => child'[r] = child[r]
    BY <1>1
  <2>3. QED
    BY <1>1, <2>1, <2>2, SameCollected
<1>3. \A r \in Procs : (HasExited(r)' <=> HasExited(r)) /\ (NotYet(r)' <=> NotYet(r))
  BY <1>1 DEF HasExited, NotYet
<1>4. \A r \in Procs : Left(r)' = Left(r) /\ Asked(r)' = Asked(r)
  BY <1>1, <1>3 DEF Left, Asked
<1>5. QED
  BY <1>1, <1>2, <1>3, <1>4, Stutter

\* Steps of p that neither exit, nor ask, nor collect.
LEMMA QuietRefines ==
  ASSUME IInv, NEW p \in Procs,
         ForkReturn(p) \/ Exit(p) \/ ExitCode(p) \/ ThreadExit(p) \/ WaitNoChild(p) \/ WaitP(p)
  PROVE  UNCHANGED Abstract!avars
<1> USE DEF IInv
<1>1. PICK m \in Places :
        /\ \A r \in Procs : pc'[r] = IF r = p THEN m ELSE pc[r]
        /\ pc[p] # "wait_free" /\ m # "wait_free"
        /\ HasExited(p) <=> m \in {"exit_thread", "gone"}
        /\ ~ NotYet(p) /\ m \notin {"none", "made", "stillborn", "destroyed"}
        /\ pc[p] \in {"wait_P", "wait_status"} <=> m \in {"wait_P", "wait_status"}
        /\ \A r \in Procs : r # p \/ Waits(p) => child'[r] = child[r]
        /\ \A r \in Procs : r # p \/ HasExited(p) => exit_code'[r] = exit_code[r]
        /\ UNCHANGED <<status, reaped>>
  <2> USE DEF Places, HasExited, NotYet, Waits, TypeOK
  <2>1. CASE ForkReturn(p)
    BY <2>1 DEF ForkReturn
  <2>2. CASE Exit(p)
    BY <2>2 DEF Exit
  <2>3. CASE ExitCode(p) \/ ThreadExit(p)
    BY <2>3 DEF ExitCode, ThreadExit
  <2>4. CASE WaitNoChild(p)
    BY <2>4 DEF WaitNoChild
  <2>5. CASE WaitP(p)
    BY <2>5 DEF WaitP
  <2>6. QED
    BY <2>1, <2>2, <2>3, <2>4, <2>5
<1>2. \A r \in Procs : Collected(r)' <=> Collected(r)
  <2>1. \A r \in Procs : pc'[r] = "wait_free" <=> pc[r] = "wait_free"
    BY <1>1
  <2>2. \A r \in Procs : pc[r] = "wait_free" => child'[r] = child[r]
    BY <1>1
  <2>3. QED
    BY <1>1, <2>1, <2>2, SameCollected
<1>3. \A r \in Procs : (HasExited(r)' <=> HasExited(r)) /\ (NotYet(r)' <=> NotYet(r))
  BY <1>1 DEF HasExited, NotYet
<1>4. \A r \in Procs : Left(r)' = Left(r) /\ Asked(r)' = Asked(r)
  BY <1>1, <1>3 DEF Left, Asked, Waits
<1>5. QED
  BY <1>1, <1>2, <1>3, <1>4, Stutter

\* sem_V is the exit the parent can see.
LEMMA ExitVRefines ==
  ASSUME IInv, CodesKept, NEW p \in Procs, ExitV(p)
  PROVE  Abstract!ANext
<1> USE DEF IInv
<1>1. /\ pc[p] = "exit_V"
      /\ \A r \in Procs : pc'[r] = IF r = p THEN "exit_thread" ELSE pc[r]
      /\ UNCHANGED <<child, exit_code, status, reaped>>
  BY DEF ExitV, TypeOK
<1>2. \A r \in Procs : Collected(r)' <=> Collected(r)
  <2>1. \A r \in Procs : pc'[r] = "wait_free" <=> pc[r] = "wait_free"
    BY <1>1
  <2>2. QED
    BY <1>1, <2>1, SameCollected
<1>3. /\ ~ HasExited(p) /\ HasExited(p)' /\ ~ NotYet(p)
      /\ \A r \in Procs : r # p => (HasExited(r)' <=> HasExited(r)) /\ (NotYet(r)' <=> NotYet(r))
  BY <1>1 DEF HasExited, NotYet
<1>4. ~ Collected(p)
  BY <1>3, CollectedHasExited
<1>5. AState(p) = "running" /\ \A r \in Procs : AState(r)' = IF r = p THEN "exited" ELSE AState(r)
  BY <1>2, <1>3, <1>4, AStates, AStatesNext
<1>6. \A r \in Procs : Left(r)' = IF r = p THEN exit_code[p] ELSE Left(r)
  BY <1>1, <1>3 DEF Left
<1>7. (\A r \in Procs : Asked(r)' = Asked(r)) /\ Asked(p) = None
  BY <1>1 DEF Asked
<1>8. PICK e \in Codes : e = exit_code[p]
  BY <1>1 DEF CodesKept
<1>9. Abstract!Exit(p, e)
  BY <1>1, <1>5, <1>6, <1>7, <1>8 DEF Abstract!Exit, Left, Asked
<1>10. QED
  BY <1>9 DEF Abstract!ANext

\* A waitpid that finds its child on the list asks for it.
LEMMA WaitCallRefines ==
  ASSUME IInv, IInv', NEW p \in Procs, WaitCall(p)
  PROVE  Abstract!ANext
<1>1. /\ pc[p] = "user"
      /\ \A r \in Procs : pc'[r] = IF r = p THEN "wait_P" ELSE pc[r]
      /\ \A r \in Procs : r # p => child'[r] = child[r]
      /\ UNCHANGED <<exit_code, status, reaped>>
  BY DEF WaitCall, IInv, TypeOK
<1>2. PICK c \in Procs : c = child'[p]
  BY <1>1 DEF IInv, Children, Waits, Owners
\* The invariant after the step says that nobody else waits for the child.
<1>3. c \notin reaped
  BY <1>1, <1>2 DEF IInv, Children, Waits, Owners
<1>4. \A r \in Procs : Waits(r) => r # p /\ child[r] # c
  <2>1. \A r \in Procs : Waits(r) => r # p /\ Waits(r)' /\ child'[r] = child[r]
    BY <1>1 DEF Waits
  <2>2. Waits(p)'
    BY <1>1 DEF Waits
  <2>3. \A r, t \in Procs : Waits(r)' /\ Waits(t)' /\ child'[r] = child'[t] => r = t
    BY DEF IInv, OneParent
  <2>4. QED
    BY <1>2, <2>1, <2>2, <2>3
<1>5. ~ Collected(c)
  BY <1>3, <1>4 DEF Collected, Waits
<1>6. \A r \in Procs : Collected(r)' <=> Collected(r)
  <2>1. \A r \in Procs : pc'[r] = "wait_free" <=> pc[r] = "wait_free"
    BY <1>1
  <2>2. \A r \in Procs : pc[r] = "wait_free" => child'[r] = child[r]
    BY <1>1
  <2>3. QED
    BY <1>1, <2>1, <2>2, SameCollected
<1>7. \A r \in Procs : (HasExited(r)' <=> HasExited(r)) /\ (NotYet(r)' <=> NotYet(r))
  BY <1>1 DEF HasExited, NotYet
<1>8. \A r \in Procs : AState(r)' = AState(r)
  BY <1>6, <1>7, AStates, AStatesNext
<1>9. AState(p) = "running" /\ AState(c) # "collected"
  <2>1. ~ HasExited(p) /\ ~ NotYet(p)
    BY <1>1 DEF HasExited, NotYet
  <2>2. ~ Collected(p)
    BY <2>1, CollectedHasExited DEF IInv
  <2>3. QED
    BY <1>5, <2>1, <2>2, AStates
<1>10. \A r \in Procs : Left(r)' = Left(r)
  BY <1>1, <1>7 DEF Left
<1>11. /\ \A r \in Procs : Asked(r)' = IF r = p THEN c ELSE Asked(r)
       /\ Asked(p) = None
       /\ \A r \in Procs : Asked(r) # c
  BY <1>1, <1>2, <1>4, ProcessAssumption DEF Asked, Waits
<1>12. Abstract!Ask(p, c)
  BY <1>1, <1>8, <1>9, <1>10, <1>11 DEF Abstract!Ask, Left, Asked
<1>13. QED
  BY <1>12 DEF Abstract!ANext

\* Reading the status collects the child, with the code it exited with.
LEMMA WaitStatusRefines ==
  ASSUME IInv, CodesKept, NEW p \in Procs, WaitStatus(p)
  PROVE  Abstract!ANext
<1> USE DEF IInv
<1>1. PICK c \in Owners : /\ c = child[p] /\ HasExited(c) /\ p # c
                          /\ \A r \in Procs : r # p /\ Waits(r) => child[r] # c
  <2>1. pc[p] = "wait_status" /\ Waits(p) /\ ~ HasExited(p)
    BY DEF WaitStatus, Waits, HasExited
  <2>2. child[p] \in Owners /\ HasExited(child[p])
    BY <2>1 DEF Children, Told
  <2>3. \A r \in Procs : r # p /\ Waits(r) => child[r] # child[p]
    BY <2>1 DEF OneParent
  <2>4. QED
    BY <2>1, <2>2, <2>3
<1>2. /\ pc[p] = "wait_status"
      /\ \A r \in Procs : pc'[r] = IF r = p THEN "wait_free" ELSE pc[r]
      /\ status' = [status EXCEPT ![p] = p_exitcode[c]]
      /\ UNCHANGED <<child, exit_code, reaped>>
  BY <1>1 DEF WaitStatus, TypeOK
<1>3. c \in Procs /\ c \notin reaped
  BY DEF Owners
<1>4. ~ Collected(c)
  BY <1>1, <1>2, <1>3 DEF Collected, Waits
<1>5. \A r \in Procs : Collected(r)' <=> (r = c \/ Collected(r))
  BY <1>1, <1>2 DEF Collected
<1>6. \A r \in Procs : (HasExited(r)' <=> HasExited(r)) /\ (NotYet(r)' <=> NotYet(r))
  BY <1>2 DEF HasExited, NotYet
<1>7. AState(c) = "exited" /\ \A r \in Procs : AState(r)' = IF r = c THEN "collected" ELSE AState(r)
  BY <1>1, <1>3, <1>4, <1>5, <1>6, AStates, AStatesNext
<1>8. \A r \in Procs : Left(r)' = Left(r)
  BY <1>2, <1>6 DEF Left
<1>9. Left(c) = p_exitcode[c]
  BY <1>1, <1>3 DEF Left, CodesKept
<1>10. Asked(p) = c /\ c # None /\ \A r \in Procs : Asked(r)' = IF r = p THEN None ELSE Asked(r)
  BY <1>1, <1>2, <1>3, ProcessAssumption DEF Asked
<1>11. Abstract!Collect(p)
  BY <1>2, <1>3, <1>7, <1>8, <1>9, <1>10 DEF Abstract!Collect, Left, Asked
<1>12. QED
  BY <1>11 DEF Abstract!ANext

\* Freeing the pid is not seen: the code has been collected.
LEMMA WaitFreeRefines ==
  ASSUME IInv, NEW p \in Procs, WaitFree(p)
  PROVE  UNCHANGED Abstract!avars
<1> USE DEF IInv
<1>1. /\ pc[p] = "wait_free"
      /\ \A r \in Procs : pc'[r] = IF r = p THEN "user" ELSE pc[r]
      /\ \A r \in Procs : r # p => child'[r] = child[r]
      /\ reaped' = reaped \cup {child[p]}
      /\ UNCHANGED <<exit_code, status>>
  BY DEF WaitFree, TypeOK
<1>2. \A r \in Procs : Collected(r)' <=> Collected(r)
  BY <1>1 DEF Collected
<1>3. \A r \in Procs : (HasExited(r)' <=> HasExited(r)) /\ (NotYet(r)' <=> NotYet(r))
  BY <1>1 DEF HasExited, NotYet
<1>4. \A r \in Procs : Left(r)' = Left(r) /\ Asked(r)' = Asked(r)
  BY <1>1, <1>3 DEF Left, Asked
<1>5. QED
  BY <1>1, <1>2, <1>3, <1>4, Stutter

LEMMA StepRefines ==
  IInv /\ IInv' /\ CodesKept /\ [Next]_vars => [Abstract!ANext]_(Abstract!avars)
<1> SUFFICES ASSUME IInv, IInv', CodesKept, [Next]_vars
             PROVE  Abstract!ANext \/ UNCHANGED Abstract!avars
  OBVIOUS
<1>1. ASSUME NEW p \in Procs, Kernel(p) PROVE Abstract!ANext \/ UNCHANGED Abstract!avars
  BY <1>1, ForkThreadRefines, QuietRefines, ExitVRefines, WaitStatusRefines, WaitFreeRefines
     DEF Kernel
<1>2. ASSUME NEW p \in Procs, User(p) PROVE Abstract!ANext \/ UNCHANGED Abstract!avars
  BY <1>2, RunProgramRefines, ForkCreateRefines, QuietRefines, WaitCallRefines DEF User
<1>3. CASE UNCHANGED vars
  <2>1. UNCHANGED <<pc, child, reaped, exit_code, status>>
    BY <1>3 DEF vars
  <2>2. QED
    BY <2>1, Stutter DEF Collected, HasExited, NotYet, Left, Asked
<1>4. QED
  BY <1>1, <1>2, <1>3 DEF Next

\* _exit and waitpid hand over each exit code to one waiter, once, and never
\* before the child has exited: the safety part of ImplementsWait.
THEOREM WaitIsSafe == Spec => Abstract!ASafeSpec
<1>1. Spec => []CodesKept
  BY CodesKeptInit, CodesKeptNext, Invariance, PTL DEF Spec
<1>2. QED
  BY <1>1, InitRefines, StepRefines, Invariance, PTL DEF Spec, Abstract!ASafeSpec

=============================================================================
