---------------------------- MODULE CoremapProofs ----------------------------
(***************************************************************************)
(* Proofs about Coremap, for any memory, any number of threads and         *)
(* whatever the entries nobody initialised hold: pages handed out are      *)
(* pages of RAM, a search counts entries that are free and stay so, and    *)
(* until a free_kpages goes on behind its block no page is handed out      *)
(* twice.                                                                  *)
(***************************************************************************)
EXTENDS Coremap, TLAPS

\* The spinlock is held by the thread that is searching or marking.
Locking == \A t \in Threads : stealmem_lock = t <=> pc[t] \in {"scan", "mark", "take"}

\* Where a search and the marking that follows it are.
Searching == \A t \in Threads :
  /\ pc[t] = "scan" => /\ npages[t] > 0 /\ alloc_count[t] <= npages[t]
                       /\ used + alloc_count[t] <= i[t] /\ i[t] <= memory_size
  /\ pc[t] \in {"mark", "take"} => /\ npages[t] > 0 /\ alloc_count[t] <= npages[t]
                                  /\ used + npages[t] <= i[t] + alloc_count[t]
                                  /\ i[t] + alloc_count[t] < memory_size
  /\ pc[t] = "take" => alloc_count[t] > 0

\* A block is a run of pages.
BlocksAreRuns == \A b \in blocks :
  \E first, last \in Nat : first <= last /\ b = <<b[1], first .. last>>

\* The entries a thread has marked, and those that it has yet to free.
Taking(t, k) ==
  pc[t] \in {"mark", "take"} /\ i[t] + alloc_count[t] <= k + npages[t] /\ k < i[t]
Freeing(t, k) ==
  \/ pc[t] = "free" /\ i[t] <= k /\ k < free_limit[t]
  \/ pc[t] = "clear" /\ i[t] < k /\ k < free_limit[t]

InBlock(k) == \E b \in blocks : k + 1 \in b[2]

\* An entry that is in a block, marked for one or about to be freed is not free,
\* and is only one of these, for one thread.
BlocksTaken == \A k \in Pages : InBlock(k) => ~ is_free[k]
MarkedApart == \A t \in Threads, k \in Pages : Taking(t, k) => ~ is_free[k] /\ ~ InBlock(k)
FreedApart == \A t \in Threads, k \in Pages : Freeing(t, k) =>
  /\ ~ is_free[k] /\ ~ InBlock(k)
  /\ \A u \in Threads : ~ Taking(u, k) /\ (Freeing(u, k) => u = t)
Untouched == ~ strayed => BlocksTaken /\ MarkedApart /\ FreedApart

IInv ==
  /\ TypeOK /\ Locking /\ Searching /\ BlocksAreRuns /\ PagesInRam
  /\ SearchesSound /\ Untouched /\ DisjointUntilStray

-----------------------------------------------------------------------------

\* A step that takes and frees no entry and hands out no block, and after which
\* nobody has marked or will free an entry that he did not before.
LEMMA SameEntries ==
  ASSUME Untouched, UNCHANGED <<is_free, blocks, strayed>>,
         \A u \in Threads, k \in Pages :
           (Taking(u, k)' => Taking(u, k)) /\ (Freeing(u, k)' => Freeing(u, k))
  PROVE  Untouched'
<1> SUFFICES ASSUME ~ strayed PROVE (BlocksTaken /\ MarkedApart /\ FreedApart)'
  BY DEF Untouched
<1>1. BlocksTaken /\ MarkedApart /\ FreedApart
  BY DEF Untouched
<1>2. \A k \in Pages : InBlock(k)' <=> InBlock(k)
  BY DEF InBlock
<1>3. BlocksTaken'
  BY <1>1, <1>2 DEF BlocksTaken
<1>4. MarkedApart'
  BY <1>1, <1>2 DEF MarkedApart
<1>5. FreedApart'
  BY <1>1, <1>2 DEF FreedApart
<1>6. QED
  BY <1>3, <1>4, <1>5

LEMMA InitInv == Init => IInv
<1> SUFFICES ASSUME Init PROVE IInv
  OBVIOUS
<1>1. PICK bits \in [Pages \ Written -> BOOLEAN], sizes \in [Pages \ Written -> Garbage] :
        /\ is_free = [k \in Pages |-> IF k \in Written THEN k >= used ELSE bits[k]]
        /\ chunk_size = [k \in Pages |-> IF k \in Written THEN 0 ELSE sizes[k]]
  BY DEF Init
<1>2. is_free \in [Pages -> BOOLEAN]
  <2>1. \A k \in Pages : (k >= used) \in BOOLEAN
    OBVIOUS
  <2>2. QED
    BY <1>1, <2>1
<1>3. chunk_size \in [Pages -> (0 .. MaxPages) \cup Garbage]
  BY <1>1, CoremapAssumption
<1>4. TypeOK
  <2>1. pc \in [Threads -> {"run", "scan", "mark", "take", "free", "clear"}] /\ i \in [Threads -> Nat]
    BY DEF Init
  <2>2. alloc_count \in [Threads -> 0 .. MaxPages] /\ npages \in [Threads -> 0 .. MaxPages]
    BY CoremapAssumption DEF Init
  <2>3. free_limit \in [Threads -> Nat] /\ stealmem_lock \in Threads \cup {Free}
    BY DEF Init
  <2>4. strayed \in BOOLEAN
    BY DEF Init
  <2>5. QED
    BY <1>2, <1>3, <2>1, <2>2, <2>3, <2>4 DEF TypeOK
<1>5. Locking /\ Searching /\ BlocksAreRuns /\ PagesInRam /\ SearchesSound
  BY CoremapAssumption DEF Init, Locking, Searching, BlocksAreRuns, PagesInRam, SearchesSound
<1>6. Untouched /\ DisjointUntilStray
  BY DEF Init, Untouched, BlocksTaken, MarkedApart, FreedApart, InBlock, Taking, Freeing,
     DisjointUntilStray, BlocksDisjoint
<1>7. QED
  BY <1>4, <1>5, <1>6 DEF IInv

LEMMA AllocateInv == ASSUME IInv, NEW t \in Threads, Allocate(t) PROVE IInv'
<1> USE DEF IInv
<1>1. PICK n \in 1 .. MaxPages :
        /\ pc[t] = "run" /\ stealmem_lock = Free /\ stealmem_lock' = t
        /\ npages' = [npages EXCEPT ![t] = n]
        /\ i' = [i EXCEPT ![t] = used]
        /\ alloc_count' = [alloc_count EXCEPT ![t] = 0]
        /\ pc' = [pc EXCEPT ![t] = "scan"]
        /\ UNCHANGED <<is_free, chunk_size, free_limit, blocks, strayed>>
  BY DEF Allocate, Goto
<1>2. TypeOK'
  BY <1>1, CoremapAssumption DEF TypeOK
<1>3. Locking'
  BY <1>1, CoremapAssumption DEF TypeOK, Locking
<1>4. Searching'
  BY <1>1, CoremapAssumption DEF TypeOK, Searching
<1>5. SearchesSound'
  <2>1. \A u \in Threads : u # t => pc[u] \notin {"scan", "mark", "take"}
    BY <1>1, CoremapAssumption DEF Locking
  <2>2. \A k \in Pages : ~ (used <= k + 0 /\ k < used)
    BY CoremapAssumption DEF Pages
  <2>3. QED
    BY <1>1, <2>1, <2>2 DEF TypeOK, SearchesSound
<1>6. Untouched'
  <2>1. \A u \in Threads, k \in Pages :
          (Taking(u, k)' => Taking(u, k)) /\ (Freeing(u, k)' => Freeing(u, k))
    BY <1>1 DEF TypeOK, Taking, Freeing
  <2>2. QED
    BY <1>1, <2>1, SameEntries
<1>7. (BlocksAreRuns /\ PagesInRam /\ DisjointUntilStray)'
  BY <1>1 DEF BlocksAreRuns, PagesInRam, DisjointUntilStray, BlocksDisjoint
<1>8. QED
  BY <1>2, <1>3, <1>4, <1>5, <1>6, <1>7

LEMMA ScanInv == ASSUME IInv, NEW t \in Threads, Scan(t) PROVE IInv'
<1> USE DEF IInv
<1>1. /\ pc[t] = "scan" /\ i[t] < memory_size /\ alloc_count[t] < npages[t]
      /\ alloc_count' = [alloc_count EXCEPT ![t] = IF is_free[i[t]] THEN @ + 1 ELSE 0]
      /\ i' = [i EXCEPT ![t] = @ + 1]
      /\ UNCHANGED <<is_free, chunk_size, stealmem_lock, pc, npages, free_limit, blocks, strayed>>
  BY DEF Scan
<1>2. TypeOK'
  BY <1>1, CoremapAssumption DEF TypeOK
<1>3. Locking'
  BY <1>1 DEF Locking
<1>4. Searching'
  BY <1>1, CoremapAssumption DEF TypeOK, Searching
<1>5. SearchesSound'
  <2>1. \A u \in Threads : u # t => pc[u] \notin {"scan", "mark", "take"}
    BY <1>1 DEF Locking
  <2>2. ASSUME NEW k \in Pages, i'[t] <= k + alloc_count'[t], k < i'[t]
        PROVE  is_free[k]
    <3>1. i[t] \in Nat /\ i'[t] = i[t] + 1 /\ alloc_count[t] \in Nat
      BY <1>1 DEF TypeOK
    <3>2. CASE k = i[t]
      <4>1. is_free[k]
        BY <1>1, <2>2, <3>1, <3>2 DEF TypeOK, Pages
      <4>2. QED
        BY <4>1
    <3>3. CASE k # i[t]
      <4>1. k < i[t] /\ alloc_count'[t] # 0
        BY <2>2, <3>1, <3>3, CoremapAssumption DEF Pages
      <4>2. alloc_count'[t] = alloc_count[t] + 1
        BY <1>1, <4>1 DEF TypeOK
      <4>3. i[t] <= k + alloc_count[t]
        BY <2>2, <3>1, <4>2, CoremapAssumption DEF Pages
      <4>4. QED
        BY <1>1, <4>1, <4>3 DEF SearchesSound
    <3>4. QED
      BY <3>2, <3>3
  <2>3. QED
    BY <1>1, <2>1, <2>2 DEF SearchesSound
<1>6. Untouched'
  <2>1. \A u \in Threads, k \in Pages :
          (Taking(u, k)' => Taking(u, k)) /\ (Freeing(u, k)' => Freeing(u, k))
    BY <1>1 DEF TypeOK, Taking, Freeing
  <2>2. QED
    BY <1>1, <2>1, SameEntries
<1>7. (BlocksAreRuns /\ PagesInRam /\ DisjointUntilStray)'
  BY <1>1 DEF BlocksAreRuns, PagesInRam, DisjointUntilStray, BlocksDisjoint
<1>8. QED
  BY <1>2, <1>3, <1>4, <1>5, <1>6, <1>7

\* A search that finds nothing and a free_kpages that is done.
LEMMA ReturnInv == ASSUME IInv, NEW t \in Threads, ScanFails(t) \/ FreeEnds(t) PROVE IInv'
<1> USE DEF IInv
<1>1. /\ pc' = [pc EXCEPT ![t] = "run"]
      /\ i' = [i EXCEPT ![t] = 0]
      /\ alloc_count' = [alloc_count EXCEPT ![t] = 0]
      /\ npages' = [npages EXCEPT ![t] = 0]
      /\ free_limit' = [free_limit EXCEPT ![t] = 0]
      /\ \/ pc[t] = "scan" /\ stealmem_lock' = Free
         \/ pc[t] = "free" /\ stealmem_lock' = stealmem_lock
      /\ UNCHANGED <<is_free, chunk_size, blocks, strayed>>
  BY DEF ScanFails, FreeEnds, Return, Goto
<1>2. TypeOK'
  BY <1>1, CoremapAssumption DEF TypeOK
<1>3. Locking'
  BY <1>1, CoremapAssumption DEF TypeOK, Locking
<1>4. \A u \in Threads : pc'[u] # "run" =>
        /\ pc'[u] = pc[u] /\ i'[u] = i[u] /\ alloc_count'[u] = alloc_count[u] /\ npages'[u] = npages[u]
        /\ free_limit'[u] = free_limit[u]
  BY <1>1 DEF TypeOK
<1>5. Searching'
  BY <1>4 DEF Searching
<1>6. SearchesSound'
  BY <1>1, <1>4 DEF SearchesSound
<1>7. Untouched'
  <2>1. \A u \in Threads, k \in Pages :
          (Taking(u, k)' => Taking(u, k)) /\ (Freeing(u, k)' => Freeing(u, k))
    BY <1>4 DEF Taking, Freeing
  <2>2. QED
    BY <1>1, <2>1, SameEntries
<1>8. (BlocksAreRuns /\ PagesInRam /\ DisjointUntilStray)'
  BY <1>1 DEF BlocksAreRuns, PagesInRam, DisjointUntilStray, BlocksDisjoint
<1>9. QED
  BY <1>2, <1>3, <1>5, <1>6, <1>7, <1>8

LEMMA ScanEndsInv == ASSUME IInv, NEW t \in Threads, ScanEnds(t) PROVE IInv'
<1> USE DEF IInv
<1>1. /\ pc[t] = "scan" /\ i[t] < memory_size /\ alloc_count[t] >= npages[t]
      /\ i' = [i EXCEPT ![t] = @ - npages[t]]
      /\ alloc_count' = [alloc_count EXCEPT ![t] = npages[t]]
      /\ pc' = [pc EXCEPT ![t] = "mark"]
      /\ UNCHANGED <<is_free, chunk_size, stealmem_lock, npages, free_limit, blocks, strayed>>
  BY DEF ScanEnds, Goto
<1>2. /\ i[t] \in Nat /\ npages[t] \in Nat /\ npages[t] > 0 /\ alloc_count[t] = npages[t]
      /\ used + npages[t] <= i[t]
  BY <1>1, CoremapAssumption DEF TypeOK, Searching
<1>3. TypeOK'
  <2>1. i' \in [Threads -> Nat]
    BY <1>1, <1>2, CoremapAssumption DEF TypeOK
  <2>2. QED
    BY <1>1, <2>1 DEF TypeOK
<1>4. Locking'
  BY <1>1 DEF TypeOK, Locking
<1>5. i'[t] = i[t] - npages[t] /\ alloc_count'[t] = npages[t] /\ pc'[t] = "mark"
  BY <1>1 DEF TypeOK
<1>6. \A u \in Threads : u # t =>
        pc'[u] = pc[u] /\ i'[u] = i[u] /\ alloc_count'[u] = alloc_count[u]
  BY <1>1 DEF TypeOK
<1>7. Searching'
  <2> SUFFICES ASSUME NEW u \in Threads, pc'[u] \in {"scan", "mark", "take"}
               PROVE  /\ npages'[u] > 0 /\ alloc_count'[u] <= npages'[u]
                      /\ pc'[u] = "scan" => /\ used + alloc_count'[u] <= i'[u]
                                            /\ i'[u] <= memory_size
                      /\ pc'[u] # "scan" => /\ used + npages'[u] <= i'[u] + alloc_count'[u]
                                            /\ i'[u] + alloc_count'[u] < memory_size
                      /\ pc'[u] = "take" => alloc_count'[u] > 0
    BY DEF Searching
  <2>1. CASE u = t
    BY <1>1, <1>2, <1>5, <2>1, CoremapAssumption
  <2>2. CASE u # t
    BY <1>1, <1>6, <2>2 DEF Searching
  <2>3. QED
    BY <2>1, <2>2
<1>8. SearchesSound'
  <2>1. \A u \in Threads : u # t => pc'[u] \notin {"scan", "mark", "take"}
    BY <1>1, <1>6 DEF Locking
  <2>2. ASSUME NEW k \in Pages, i'[t] <= k, k < i'[t] + alloc_count'[t]
        PROVE  is_free'[k]
    <3>1. i[t] <= k + alloc_count[t] /\ k < i[t]
      BY <1>2, <1>5, <2>2, CoremapAssumption DEF Pages
    <3>2. QED
      BY <1>1, <3>1 DEF SearchesSound
  <2>3. QED
    BY <1>5, <2>1, <2>2 DEF SearchesSound
<1>9. Untouched'
  <2>1. \A k \in Pages : ~ Taking(t, k)' /\ ~ Freeing(t, k)'
    BY <1>1, <1>2, <1>5, CoremapAssumption DEF Pages, Taking, Freeing
  <2>2. ASSUME NEW u \in Threads, NEW k \in Pages
        PROVE  (Taking(u, k)' => Taking(u, k)) /\ (Freeing(u, k)' => Freeing(u, k))
    BY <1>1, <1>6, <2>1 DEF Taking, Freeing
  <2>3. QED
    BY <1>1, <2>2, SameEntries
<1>10. (BlocksAreRuns /\ PagesInRam /\ DisjointUntilStray)'
  BY <1>1 DEF BlocksAreRuns, PagesInRam, DisjointUntilStray, BlocksDisjoint
<1>11. QED
  BY <1>3, <1>4, <1>7, <1>8, <1>9, <1>10

LEMMA MarkInv == ASSUME IInv, NEW t \in Threads, Mark(t) PROVE IInv'
<1> USE DEF IInv
<1>1. /\ pc[t] = "mark" /\ alloc_count[t] > 0
      /\ chunk_size' = [chunk_size EXCEPT ![i[t]] = alloc_count[t]]
      /\ pc' = [pc EXCEPT ![t] = "take"]
      /\ UNCHANGED <<is_free, stealmem_lock, i, alloc_count, npages, free_limit, blocks, strayed>>
  BY DEF Mark, Goto
<1>2. TypeOK'
  <2>1. chunk_size' \in [Pages -> (0 .. MaxPages) \cup Garbage]
    BY <1>1 DEF TypeOK
  <2>2. pc' \in [Threads -> {"run", "scan", "mark", "take", "free", "clear"}]
    BY <1>1 DEF TypeOK
  <2>3. QED
    BY <1>1, <2>1, <2>2 DEF TypeOK
<1>3. pc'[t] = "take" /\ \A u \in Threads : u # t => pc'[u] = pc[u]
  BY <1>1 DEF TypeOK
<1>4. Locking'
  BY <1>1, <1>3 DEF Locking
<1>5. Searching'
  BY <1>1, <1>3 DEF Searching
<1>6. SearchesSound'
  BY <1>1, <1>3 DEF SearchesSound
<1>7. Untouched'
  <2>1. ASSUME NEW u \in Threads, NEW k \in Pages
        PROVE  (Taking(u, k)' => Taking(u, k)) /\ (Freeing(u, k)' => Freeing(u, k))
    BY <1>1, <1>3 DEF Taking, Freeing
  <2>2. QED
    BY <1>1, <2>1, SameEntries
<1>8. (BlocksAreRuns /\ PagesInRam /\ DisjointUntilStray)'
  BY <1>1 DEF BlocksAreRuns, PagesInRam, DisjointUntilStray, BlocksDisjoint
<1>9. QED
  BY <1>2, <1>4, <1>5, <1>6, <1>7, <1>8

LEMMA TakeInv == ASSUME IInv, NEW t \in Threads, Take(t) PROVE IInv'
<1> USE DEF IInv
<1>1. /\ pc[t] = "take"
      /\ is_free' = [is_free EXCEPT ![i[t]] = FALSE]
      /\ i' = [i EXCEPT ![t] = @ + 1]
      /\ alloc_count' = [alloc_count EXCEPT ![t] = @ - 1]
      /\ pc' = [pc EXCEPT ![t] = "mark"]
      /\ UNCHANGED <<chunk_size, stealmem_lock, npages, free_limit, blocks, strayed>>
  BY DEF Take, Goto
<1>2. /\ i[t] \in Pages /\ alloc_count[t] \in 1 .. MaxPages /\ npages[t] \in Nat
      /\ i'[t] = i[t] + 1 /\ alloc_count'[t] = alloc_count[t] - 1 /\ pc'[t] = "mark"
  BY <1>1, CoremapAssumption DEF TypeOK, Searching, Pages
<1>3. TypeOK'
  <2>1. is_free' \in [Pages -> BOOLEAN]
    BY <1>1, <1>2 DEF TypeOK
  <2>2. i' \in [Threads -> Nat] /\ alloc_count' \in [Threads -> 0 .. MaxPages]
    BY <1>1, <1>2, CoremapAssumption DEF TypeOK
  <2>3. pc' \in [Threads -> {"run", "scan", "mark", "take", "free", "clear"}]
    BY <1>1 DEF TypeOK
  <2>4. QED
    BY <1>1, <2>1, <2>2, <2>3 DEF TypeOK
<1>4. \A u \in Threads : u # t =>
        /\ pc'[u] = pc[u] /\ i'[u] = i[u] /\ alloc_count'[u] = alloc_count[u]
        /\ pc[u] \notin {"scan", "mark", "take"}
  BY <1>1 DEF TypeOK, Locking
<1>5. Locking'
  BY <1>1, <1>2, <1>4 DEF Locking
<1>6. Searching'
  <2>1. /\ npages[t] > 0 /\ alloc_count'[t] <= npages[t]
        /\ used + npages[t] <= i'[t] + alloc_count'[t]
        /\ i'[t] + alloc_count'[t] < memory_size
    BY <1>1, <1>2, CoremapAssumption DEF Searching, Pages
  <2>2. QED
    BY <1>1, <1>2, <1>4, <2>1 DEF Searching
<1>7. \A k \in Pages : is_free'[k] = IF k = i[t] THEN FALSE ELSE is_free[k]
  BY <1>1 DEF TypeOK
<1>8. is_free[i[t]]
  <2>1. i[t] <= i[t] /\ i[t] < i[t] + alloc_count[t]
    BY <1>2 DEF Pages
  <2>2. QED
    BY <1>1, <1>2, <2>1 DEF SearchesSound
<1>9. SearchesSound'
  <2>1. ASSUME NEW k \in Pages, i'[t] <= k, k < i'[t] + alloc_count'[t]
        PROVE  is_free'[k]
    <3>1. k # i[t] /\ i[t] <= k /\ k < i[t] + alloc_count[t]
      BY <1>2, <2>1 DEF Pages
    <3>2. QED
      BY <1>1, <1>7, <3>1 DEF SearchesSound
  <2>2. QED
    BY <1>2, <1>4, <2>1 DEF SearchesSound
<1>10. Untouched'
  <2> SUFFICES ASSUME ~ strayed PROVE (BlocksTaken /\ MarkedApart /\ FreedApart)'
    BY <1>1 DEF Untouched
  <2>1. BlocksTaken /\ MarkedApart /\ FreedApart
    BY DEF Untouched
  <2>2. \A k \in Pages : InBlock(k)' <=> InBlock(k)
    BY <1>1 DEF InBlock
  <2>3. \A u \in Threads, k \in Pages : Freeing(u, k)' => Freeing(u, k)
    BY <1>1, <1>2, <1>4 DEF Freeing
  <2>4. ASSUME NEW u \in Threads, NEW k \in Pages, Taking(u, k)'
        PROVE  Taking(u, k) \/ k = i[t]
    <3>1. u = t
      BY <1>4, <2>4 DEF Taking
    <3>2. i'[t] + alloc_count'[t] <= k + npages[t] /\ k < i'[t]
      BY <1>1, <2>4, <3>1 DEF Taking
    <3>3. k = i[t] \/ (i[t] + alloc_count[t] <= k + npages[t] /\ k < i[t])
      BY <1>2, <3>2 DEF Pages
    <3>4. QED
      BY <1>1, <3>1, <3>3 DEF Taking
  <2>5. ~ InBlock(i[t]) /\ \A u \in Threads : ~ Freeing(u, i[t])
    BY <1>2, <1>8, <2>1 DEF BlocksTaken, FreedApart
  <2>6. BlocksTaken'
    BY <1>7, <2>1, <2>2 DEF BlocksTaken
  <2>7. MarkedApart'
    BY <1>7, <2>1, <2>2, <2>4, <2>5 DEF MarkedApart
  <2>8. FreedApart'
    <3> SUFFICES ASSUME NEW u \in Threads, NEW k \in Pages, Freeing(u, k)'
                 PROVE  /\ ~ is_free'[k] /\ ~ InBlock(k)'
                        /\ \A v \in Threads : ~ Taking(v, k)' /\ (Freeing(v, k)' => v = u)
      BY DEF FreedApart
    <3>1. Freeing(u, k)
      BY <2>3
    <3>2. ~ is_free[k] /\ ~ InBlock(k) /\ \A v \in Threads : ~ Taking(v, k) /\ (Freeing(v, k) => v = u)
      BY <2>1, <3>1 DEF FreedApart
    <3>3. k # i[t]
      BY <2>5, <3>1
    <3>4. QED
      BY <1>7, <2>2, <2>3, <2>4, <3>2, <3>3
  <2>9. QED
    BY <2>6, <2>7, <2>8
<1>11. (BlocksAreRuns /\ PagesInRam /\ DisjointUntilStray)'
  BY <1>1 DEF BlocksAreRuns, PagesInRam, DisjointUntilStray, BlocksDisjoint
<1>12. QED
  BY <1>3, <1>5, <1>6, <1>9, <1>10, <1>11

LEMMA MarkEndsInv == ASSUME IInv, NEW t \in Threads, MarkEnds(t) PROVE IInv'
<1> USE DEF IInv
<1>1. /\ pc[t] = "mark" /\ alloc_count[t] = 0 /\ stealmem_lock' = Free
      /\ pc' = [pc EXCEPT ![t] = "run"]
      /\ i' = [i EXCEPT ![t] = 0]
      /\ alloc_count' = [alloc_count EXCEPT ![t] = 0]
      /\ npages' = [npages EXCEPT ![t] = 0]
      /\ free_limit' = [free_limit EXCEPT ![t] = 0]
      /\ UNCHANGED <<is_free, chunk_size, strayed>>
  BY DEF MarkEnds, Return, Goto
<1>2. PICK first \in Nat, last \in Nat :
        /\ first = i[t] - npages[t] + 1 /\ last = i[t]
        /\ used < first /\ first <= last /\ last < memory_size
        /\ blocks' = blocks \cup {<<t, first .. last>>}
  <2>1. /\ i[t] \in Nat /\ npages[t] \in Nat /\ npages[t] > 0
        /\ used + npages[t] <= i[t] /\ i[t] < memory_size
    BY <1>1, CoremapAssumption DEF TypeOK, Searching
  <2>2. i[t] - npages[t] + 1 \in Nat
    BY <2>1, CoremapAssumption
  <2>3. blocks' = blocks \cup {<<t, i[t] - npages[t] + 1 .. i[t]>>}
    BY DEF MarkEnds, Block
  <2>4. PICK first \in Nat, last \in Nat : first = i[t] - npages[t] + 1 /\ last = i[t]
    BY <2>1, <2>2
  <2>5. used < first /\ first <= last /\ last < memory_size
    BY <2>1, <2>4, CoremapAssumption
  <2>6. QED
    BY <2>3, <2>4, <2>5
<1>3. TypeOK'
  BY <1>1, CoremapAssumption DEF TypeOK
<1>4. Locking'
  BY <1>1, CoremapAssumption DEF TypeOK, Locking
<1>5. \A u \in Threads : pc'[u] \notin {"scan", "mark", "take"}
  BY <1>1 DEF TypeOK, Locking
<1>6. Searching'
  BY <1>5 DEF Searching
<1>7. BlocksAreRuns'
  <2> SUFFICES ASSUME NEW b \in blocks'
               PROVE  \E f, l \in Nat : f <= l /\ b = <<b[1], f .. l>>
    BY DEF BlocksAreRuns
  <2>1. CASE b \in blocks
    BY <2>1 DEF BlocksAreRuns
  <2>2. CASE b = <<t, first .. last>>
    BY <1>2, <2>2
  <2>3. QED
    BY <1>2, <2>1, <2>2
<1>8. PagesInRam'
  <2>1. first .. last \subseteq used + 1 .. memory_size - 1
    BY <1>2, CoremapAssumption
  <2>2. QED
    BY <1>2, <2>1 DEF PagesInRam
<1>9. ASSUME NEW k \in Pages, k + 1 \in first .. last
      PROVE  Taking(t, k)
  <2>1. i[t] \in Nat /\ npages[t] \in Nat /\ k \in Nat
    BY CoremapAssumption DEF TypeOK, Pages
  <2>2. i[t] + alloc_count[t] <= k + npages[t] /\ k < i[t]
    BY <1>1, <1>2, <1>9, <2>1
  <2>3. QED
    BY <1>1, <2>2 DEF Taking
<1>10. SearchesSound'
  BY <1>5 DEF SearchesSound
<1>11. Untouched'
  <2> SUFFICES ASSUME ~ strayed PROVE (BlocksTaken /\ MarkedApart /\ FreedApart)'
    BY <1>1 DEF Untouched
  <2>1. BlocksTaken /\ MarkedApart /\ FreedApart
    BY DEF Untouched
  <2>2. ASSUME NEW k \in Pages, InBlock(k)' PROVE InBlock(k) \/ Taking(t, k)
    BY <1>2, <1>9, <2>2 DEF InBlock
  <2>3. \A u \in Threads, k \in Pages : ~ Taking(u, k)'
    BY <1>5 DEF Taking
  <2>4. \A u \in Threads, k \in Pages : Freeing(u, k)' => Freeing(u, k)
    BY <1>1 DEF TypeOK, Freeing
  <2>5. BlocksTaken'
    BY <1>1, <2>1, <2>2 DEF BlocksTaken, MarkedApart
  <2>6. MarkedApart'
    BY <2>3 DEF MarkedApart
  <2>7. FreedApart'
    BY <1>1, <2>1, <2>2, <2>3, <2>4 DEF FreedApart
  <2>8. QED
    BY <2>5, <2>6, <2>7
<1>12. DisjointUntilStray'
  <2> SUFFICES ASSUME ~ strayed PROVE BlocksDisjoint'
    BY <1>1 DEF DisjointUntilStray
  <2>1. ASSUME NEW b \in blocks PROVE b[2] \cap (first .. last) = {}
    <3> SUFFICES ASSUME NEW l \in b[2], l \in first .. last PROVE FALSE
      OBVIOUS
    <3>1. l - 1 \in Pages /\ (l - 1) + 1 = l
      BY <1>2, CoremapAssumption DEF Pages
    <3>2. Taking(t, l - 1) /\ InBlock(l - 1)
      BY <1>9, <3>1 DEF InBlock
    <3>3. QED
      BY <3>1, <3>2 DEF Untouched, MarkedApart
  <2>2. QED
    BY <1>2, <2>1 DEF DisjointUntilStray, BlocksDisjoint
<1>13. QED
  BY <1>3, <1>4, <1>6, <1>7, <1>8, <1>10, <1>11, <1>12

LEMMA FreePagesInv == ASSUME IInv, NEW t \in Threads, FreePages(t) PROVE IInv'
<1> USE DEF IInv
<1>1. PICK b \in blocks :
        LET page_number == CHOOSE k \in b[2] : \A l \in b[2] : k <= l
            limit == page_number + chunk_size[page_number]
        IN /\ i' = [i EXCEPT ![t] = page_number]
           /\ free_limit' = [free_limit EXCEPT ![t] = limit]
           /\ blocks' = blocks \ {b}
           /\ strayed' = (strayed \/ \A l \in b[2] : l < limit)
  BY DEF FreePages
<1>2. /\ pc[t] = "run"
      /\ pc' = [pc EXCEPT ![t] = "free"]
      /\ UNCHANGED <<is_free, chunk_size, stealmem_lock, alloc_count, npages>>
  BY DEF FreePages, Goto
<1>3. PICK first, last \in Nat : first <= last /\ b[2] = first .. last
  BY DEF BlocksAreRuns
<1>4. first \in Pages /\ last \in Pages /\ first = CHOOSE k \in b[2] : \A l \in b[2] : k <= l
  <2>1. first \in b[2] /\ last \in b[2] /\ \A l \in b[2] : first <= l
    BY <1>3
  <2>2. PICK m \in b[2] : m = (CHOOSE k \in b[2] : \A l \in b[2] : k <= l) /\ \A l \in b[2] : m <= l
    BY <2>1
  <2>3. m = first
    BY <1>3, <2>1, <2>2
  <2>4. b[2] \subseteq Pages
    BY CoremapAssumption DEF PagesInRam, Pages
  <2>5. QED
    BY <2>1, <2>2, <2>3, <2>4
<1>5. PICK limit \in Nat : limit = first + chunk_size[first]
  <2>1. chunk_size[first] \in (0 .. MaxPages) \cup Garbage
    BY <1>4 DEF TypeOK
  <2>2. \A x \in (0 .. MaxPages) \cup Garbage : x \in Nat
    BY CoremapAssumption
  <2>3. PICK n \in Nat : n = chunk_size[first]
    BY <2>1, <2>2
  <2>4. first + n \in Nat
    OBVIOUS
  <2>5. QED
    BY <2>3, <2>4
<1>6. /\ i' = [i EXCEPT ![t] = first]
      /\ free_limit' = [free_limit EXCEPT ![t] = limit]
      /\ blocks' = blocks \ {b}
      /\ strayed' = (strayed \/ \A l \in b[2] : l < limit)
  BY <1>1, <1>4, <1>5
<1>7. TypeOK'
  <2>1. i' \in [Threads -> Nat] /\ free_limit' \in [Threads -> Nat]
    BY <1>6 DEF TypeOK
  <2>2. strayed' \in BOOLEAN
    BY <1>6 DEF TypeOK
  <2>3. pc' \in [Threads -> {"run", "scan", "mark", "take", "free", "clear"}]
    BY <1>2 DEF TypeOK
  <2>4. QED
    BY <1>2, <2>1, <2>2, <2>3 DEF TypeOK
<1>8. /\ pc'[t] = "free" /\ i'[t] = first /\ free_limit'[t] = limit
      /\ \A u \in Threads : u # t => pc'[u] = pc[u] /\ i'[u] = i[u] /\ free_limit'[u] = free_limit[u]
  BY <1>2, <1>6 DEF TypeOK
<1>9. Locking'
  BY <1>2, <1>8 DEF Locking
<1>10. Searching'
  BY <1>2, <1>8 DEF Searching
<1>11. SearchesSound'
  BY <1>2, <1>8 DEF SearchesSound
<1>12. BlocksAreRuns' /\ PagesInRam'
  BY <1>6 DEF BlocksAreRuns, PagesInRam
<1>13. DisjointUntilStray'
  BY <1>6 DEF DisjointUntilStray, BlocksDisjoint
<1>14. Untouched'
  <2> SUFFICES ASSUME ~ strayed' PROVE (BlocksTaken /\ MarkedApart /\ FreedApart)'
    BY DEF Untouched
  <2>1. BlocksTaken /\ MarkedApart /\ FreedApart /\ BlocksDisjoint
    BY <1>6 DEF Untouched, DisjointUntilStray
  <2>2. limit <= last
    <3>1. PICK l \in b[2] : ~ (l < limit)
      BY <1>6
    <3>2. l \in Nat /\ l <= last
      BY <1>3
    <3>3. QED
      BY <3>1, <3>2
  <2>3. ASSUME NEW k \in Pages, InBlock(k)'
        PROVE  InBlock(k) /\ k + 1 \notin b[2]
    <3>1. PICK c \in blocks \ {b} : k + 1 \in c[2]
      BY <1>6, <2>3 DEF InBlock
    <3>2. QED
      BY <2>1, <3>1 DEF InBlock, BlocksDisjoint
  <2>4. ASSUME NEW k \in Pages, Freeing(t, k)'
        PROVE  InBlock(k) /\ k + 1 \in b[2]
    <3>1. first <= k /\ k < limit
      BY <1>8, <2>4 DEF Freeing
    <3>2. k + 1 \in first .. last
      BY <2>2, <3>1, CoremapAssumption DEF Pages
    <3>3. QED
      BY <1>3, <3>2 DEF InBlock
  <2>5. \A u \in Threads, k \in Pages : Taking(u, k)' => Taking(u, k)
    BY <1>2, <1>8 DEF Taking
  <2>6. \A u \in Threads, k \in Pages : u # t /\ Freeing(u, k)' => Freeing(u, k)
    BY <1>2, <1>8 DEF Freeing
  <2>7. BlocksTaken' /\ MarkedApart'
    <3>1. ASSUME NEW k \in Pages, InBlock(k)' PROVE ~ is_free'[k]
      BY <1>2, <2>1, <2>3, <3>1 DEF BlocksTaken
    <3>2. ASSUME NEW u \in Threads, NEW k \in Pages, Taking(u, k)'
          PROVE  ~ is_free'[k] /\ ~ InBlock(k)'
      <4>1. Taking(u, k)
        BY <2>5, <3>2
      <4>2. ~ is_free[k] /\ ~ InBlock(k)
        BY <2>1, <4>1 DEF MarkedApart
      <4>3. QED
        BY <1>2, <2>3, <4>2
    <3>3. QED
      BY <3>1, <3>2 DEF BlocksTaken, MarkedApart
  <2>8. FreedApart'
    <3> SUFFICES ASSUME NEW u \in Threads, NEW k \in Pages, Freeing(u, k)'
                 PROVE  /\ ~ is_free'[k] /\ ~ InBlock(k)'
                        /\ \A v \in Threads : ~ Taking(v, k)' /\ (Freeing(v, k)' => v = u)
      BY DEF FreedApart
    <3>1. CASE u = t
      <4>1. InBlock(k) /\ k + 1 \in b[2]
        BY <2>4, <3>1
      <4>2. ~ is_free'[k] /\ ~ InBlock(k)'
        BY <1>2, <2>1, <2>3, <4>1 DEF BlocksTaken
      <4>3. \A v \in Threads : ~ Taking(v, k)'
        BY <2>1, <2>5, <4>1 DEF MarkedApart
      <4>4. \A v \in Threads : Freeing(v, k)' => v = t
        BY <2>1, <2>6, <4>1 DEF FreedApart
      <4>5. QED
        BY <3>1, <4>2, <4>3, <4>4
    <3>2. CASE u # t
      <4>1. Freeing(u, k)
        BY <2>6, <3>2
      <4>2. ~ is_free[k] /\ ~ InBlock(k) /\ \A v \in Threads : ~ Taking(v, k) /\ (Freeing(v, k) => v = u)
        BY <2>1, <4>1 DEF FreedApart
      <4>3. ~ Freeing(t, k)'
        BY <2>4, <4>2
      <4>4. QED
        BY <1>2, <2>3, <2>5, <2>6, <4>2, <4>3
    <3>3. QED
      BY <3>1, <3>2
  <2>9. QED
    BY <2>7, <2>8
<1>15. QED
  BY <1>7, <1>9, <1>10, <1>11, <1>12, <1>13, <1>14

LEMMA FreeEntryInv == ASSUME IInv, NEW t \in Threads, FreeEntry(t) PROVE IInv'
<1> USE DEF IInv
<1>1. /\ pc[t] = "free" /\ i[t] < free_limit[t]
      /\ is_free' = [k \in Pages |-> k = i[t] \/ is_free[k]]
      /\ pc' = [pc EXCEPT ![t] = "clear"]
      /\ UNCHANGED <<chunk_size, stealmem_lock, i, alloc_count, npages, free_limit, blocks, strayed>>
  BY DEF FreeEntry, Goto
<1>2. \A k \in Pages : is_free'[k] <=> k = i[t] \/ is_free[k]
  BY <1>1
<1>3. TypeOK'
  <2>1. is_free' \in [Pages -> BOOLEAN]
    BY <1>1
  <2>2. pc' \in [Threads -> {"run", "scan", "mark", "take", "free", "clear"}]
    BY <1>1 DEF TypeOK
  <2>3. QED
    BY <1>1, <2>1, <2>2 DEF TypeOK
<1>4. pc'[t] = "clear" /\ \A u \in Threads : u # t => pc'[u] = pc[u]
  BY <1>1 DEF TypeOK
<1>5. Locking'
  BY <1>1, <1>4 DEF Locking
<1>6. Searching'
  BY <1>1, <1>4 DEF Searching
<1>7. SearchesSound'
  BY <1>1, <1>2, <1>4 DEF SearchesSound
<1>8. BlocksAreRuns' /\ PagesInRam' /\ DisjointUntilStray'
  BY <1>1 DEF BlocksAreRuns, PagesInRam, DisjointUntilStray, BlocksDisjoint
<1>9. Untouched'
  <2> SUFFICES ASSUME ~ strayed PROVE (BlocksTaken /\ MarkedApart /\ FreedApart)'
    BY <1>1 DEF Untouched
  <2>1. BlocksTaken /\ MarkedApart /\ FreedApart
    BY DEF Untouched
  <2>2. \A k \in Pages : InBlock(k)' <=> InBlock(k)
    BY <1>1 DEF InBlock
  <2>3. \A u \in Threads, k \in Pages : Taking(u, k)' => Taking(u, k)
    BY <1>1, <1>4 DEF Taking
  <2>4. ASSUME NEW u \in Threads, NEW k \in Pages, Freeing(u, k)'
        PROVE  Freeing(u, k) /\ (u = t => k # i[t])
    <3>1. CASE u = t
      <4>1. i[t] < k /\ k < free_limit[t]
        BY <1>1, <1>4, <2>4, <3>1 DEF Freeing
      <4>2. i[t] \in Nat /\ k \in Nat
        BY CoremapAssumption DEF TypeOK, Pages
      <4>3. i[t] <= k /\ k # i[t]
        BY <4>1, <4>2
      <4>4. QED
        BY <1>1, <3>1, <4>1, <4>3 DEF Freeing
    <3>2. CASE u # t
      BY <1>1, <1>4, <2>4, <3>2 DEF Freeing
    <3>3. QED
      BY <3>1, <3>2
  <2>5. ASSUME i[t] \in Pages
        PROVE  /\ ~ InBlock(i[t]) /\ \A u \in Threads : ~ Taking(u, i[t])
               /\ \A u \in Threads : Freeing(u, i[t]) => u = t
    <3>1. i[t] <= i[t]
      BY <2>5, CoremapAssumption DEF Pages
    <3>2. Freeing(t, i[t])
      BY <1>1, <3>1 DEF Freeing
    <3>3. QED
      BY <2>1, <2>5, <3>2 DEF FreedApart
  <2>6. BlocksTaken'
    BY <1>2, <2>1, <2>2, <2>5 DEF BlocksTaken
  <2>7. MarkedApart'
    BY <1>2, <2>1, <2>2, <2>3, <2>5 DEF MarkedApart
  <2>8. FreedApart'
    <3> SUFFICES ASSUME NEW u \in Threads, NEW k \in Pages, Freeing(u, k)'
                 PROVE  /\ ~ is_free'[k] /\ ~ InBlock(k)'
                        /\ \A v \in Threads : ~ Taking(v, k)' /\ (Freeing(v, k)' => v = u)
      BY DEF FreedApart
    <3>1. Freeing(u, k) /\ (u = t => k # i[t])
      BY <2>4
    <3>2. ~ is_free[k] /\ ~ InBlock(k) /\ \A v \in Threads : ~ Taking(v, k) /\ (Freeing(v, k) => v = u)
      BY <2>1, <3>1 DEF FreedApart
    <3>3. k # i[t]
      BY <2>5, <3>1
    <3>4. QED
      BY <1>2, <2>2, <2>3, <2>4, <3>2, <3>3
  <2>9. QED
    BY <2>6, <2>7, <2>8
<1>10. QED
  BY <1>3, <1>5, <1>6, <1>7, <1>8, <1>9

LEMMA ClearEntryInv == ASSUME IInv, NEW t \in Threads, ClearEntry(t) PROVE IInv'
<1> USE DEF IInv
<1>1. /\ pc[t] = "clear"
      /\ chunk_size' = [k \in Pages |-> IF k = i[t] THEN 0 ELSE chunk_size[k]]
      /\ i' = [i EXCEPT ![t] = @ + 1]
      /\ pc' = [pc EXCEPT ![t] = "free"]
      /\ UNCHANGED <<is_free, stealmem_lock, alloc_count, npages, free_limit, blocks, strayed>>
  BY DEF ClearEntry, Goto
<1>2. TypeOK'
  <2>1. chunk_size' \in [Pages -> (0 .. MaxPages) \cup Garbage]
    BY <1>1, CoremapAssumption DEF TypeOK
  <2>2. i' \in [Threads -> Nat] /\ pc' \in [Threads -> {"run", "scan", "mark", "take", "free", "clear"}]
    BY <1>1 DEF TypeOK
  <2>3. QED
    BY <1>1, <2>1, <2>2 DEF TypeOK
<1>3. /\ pc'[t] = "free" /\ i[t] \in Nat /\ i'[t] = i[t] + 1
      /\ \A u \in Threads : u # t => pc'[u] = pc[u] /\ i'[u] = i[u]
  BY <1>1 DEF TypeOK
<1>4. Locking'
  BY <1>1, <1>3 DEF Locking
<1>5. Searching'
  BY <1>1, <1>3 DEF Searching
<1>6. SearchesSound'
  BY <1>1, <1>3 DEF SearchesSound
<1>7. Untouched'
  <2>1. ASSUME NEW u \in Threads, NEW k \in Pages
        PROVE  (Taking(u, k)' => Taking(u, k)) /\ (Freeing(u, k)' => Freeing(u, k))
    <3>1. CASE u = t
      <4>1. i'[t] <= k => i[t] < k
        BY <1>3, CoremapAssumption DEF Pages
      <4>2. QED
        BY <1>1, <1>3, <3>1, <4>1 DEF Taking, Freeing
    <3>2. CASE u # t
      BY <1>1, <1>3, <3>2 DEF Taking, Freeing
    <3>3. QED
      BY <3>1, <3>2
  <2>2. QED
    BY <1>1, <2>1, SameEntries
<1>8. BlocksAreRuns' /\ PagesInRam' /\ DisjointUntilStray'
  BY <1>1 DEF BlocksAreRuns, PagesInRam, DisjointUntilStray, BlocksDisjoint
<1>9. QED
  BY <1>2, <1>4, <1>5, <1>6, <1>7, <1>8

-----------------------------------------------------------------------------
(* The theorems.                                                           *)

LEMMA NextInv == IInv /\ [Next]_vars => IInv'
<1> SUFFICES ASSUME IInv, [Next]_vars PROVE IInv'
  OBVIOUS
<1>1. CASE Next
  BY <1>1, AllocateInv, ScanInv, ReturnInv, ScanEndsInv, MarkInv, TakeInv, MarkEndsInv, FreePagesInv,
     FreeEntryInv, ClearEntryInv DEF Next
<1>2. CASE UNCHANGED vars
  <2>1. (TypeOK /\ Locking /\ Searching /\ BlocksAreRuns /\ PagesInRam /\ SearchesSound)'
    BY <1>2 DEF vars, IInv, TypeOK, Locking, Searching, BlocksAreRuns, PagesInRam, SearchesSound
  <2>2. \A u \in Threads, k \in Pages :
          (Taking(u, k)' => Taking(u, k)) /\ (Freeing(u, k)' => Freeing(u, k))
    BY <1>2 DEF vars, Taking, Freeing
  <2>3. Untouched'
    BY <1>2, <2>2, SameEntries DEF vars, IInv
  <2>4. DisjointUntilStray'
    BY <1>2 DEF vars, IInv, DisjointUntilStray, BlocksDisjoint
  <2>5. QED
    BY <2>1, <2>3, <2>4 DEF IInv
<1>3. QED
  BY <1>1, <1>2

\* The inductive invariant of the coremap holds in every reachable state.
THEOREM Invariance == Spec => []IInv
<1>1. QED
  BY InitInv, NextInv, PTL DEF Spec

\* The coremap's entries and every local keep their ranges, whatever the
\* entries that coremap_initialize skips hold.
THEOREM TypeCorrect == Spec => []TypeOK
<1>1. IInv => TypeOK
  BY DEF IInv
<1>2. QED
  BY <1>1, Invariance, PTL

\* Every page coremap_allocate returns is a page of RAM above the kernel, even
\* though pages are numbered one above their entries and free_kpages frees
\* the wrong ones.
THEOREM PagesAreInRam == Spec => []PagesInRam
<1>1. IInv => PagesInRam
  BY DEF IInv
<1>2. QED
  BY <1>1, Invariance, PTL

\* A search counts, and then takes, entries that are free, even though
\* free_kpages writes entries without the lock that the search holds.
THEOREM SearchesAreSound == Spec => []SearchesSound
<1>1. IInv => SearchesSound
  BY DEF IInv
<1>2. QED
  BY <1>1, Invariance, PTL

\* Until a free_kpages goes on behind the block it was given no page has two
\* owners, in every interleaving of allocations and frees.
THEOREM OneOwner == Spec => []DisjointUntilStray
<1>1. IInv => DisjointUntilStray
  BY DEF IInv
<1>2. QED
  BY <1>1, Invariance, PTL

=============================================================================
