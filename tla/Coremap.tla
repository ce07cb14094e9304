------------------------------ MODULE Coremap ------------------------------
(***************************************************************************)
(* vm/coremap.c and the page allocation of vm/addrspace.c: getppages and   *)
(* alloc_kpages under a spinlock, free_kpages without one.                 *)
(*                                                                         *)
(* An access to an entry of the coremap is a step.  A block is what one    *)
(* call handed out: the numbers of its pages, whose entries are one below. *)
(* Whoever has a block may free it, whichever thread asked for it.         *)
(***************************************************************************)
EXTENDS Naturals, FiniteSets

CONSTANTS
  Threads,      \* threads that allocate and free
  memory_size,  \* pages of RAM
  used,         \* pages below the coremap: the kernel
  coremap_size, \* pages the coremap itself takes
  MaxPages,     \* bound: the largest allocation asked for
  Garbage,      \* what a chunk_size nobody has written may hold
  Free          \* nobody: a free spinlock

Pages == 0 .. memory_size - 1

ASSUME CoremapAssumption ==
  /\ memory_size \in Nat /\ used \in Nat /\ coremap_size \in Nat \ {0} /\ MaxPages \in Nat \ {0}
  /\ used + coremap_size <= memory_size
  /\ Garbage \subseteq Nat
  /\ Free \notin Threads

VARIABLES
  is_free, chunk_size,  \* the coremap's fields, per entry
  stealmem_lock,
  pc,                   \* per thread: in no call, or where it is in one
  i, alloc_count,       \* coremap_allocate's and free_kpages's locals
  npages,               \* how many pages are asked for
  free_limit,           \* where free_kpages stops
  blocks,               \* the blocks handed out and not given back, and who asked
  strayed               \* history: a free_kpages went on behind the block it was given

vars == <<is_free, chunk_size, stealmem_lock, pc, i, alloc_count, npages, free_limit, blocks, strayed>>

\* coremap_initialize writes all entries but the last coremap_size.
Written == 0 .. memory_size - coremap_size - 1

Init ==
  /\ \E bits \in [Pages \ Written -> BOOLEAN], sizes \in [Pages \ Written -> Garbage] :
       /\ is_free = [k \in Pages |-> IF k \in Written THEN k >= used ELSE bits[k]]
       /\ chunk_size = [k \in Pages |-> IF k \in Written THEN 0 ELSE sizes[k]]
  /\ stealmem_lock = Free
  /\ pc = [t \in Threads |-> "run"]
  /\ i = [t \in Threads |-> 0]
  /\ alloc_count = [t \in Threads |-> 0]
  /\ npages = [t \in Threads |-> 0]
  /\ free_limit = [t \in Threads |-> 0]
  /\ blocks = {}
  /\ strayed = FALSE

Goto(t, label) == pc' = [pc EXCEPT ![t] = label]

\* The end of a call; its locals are gone.
Return(t) ==
  /\ Goto(t, "run")
  /\ i' = [i EXCEPT ![t] = 0]
  /\ alloc_count' = [alloc_count EXCEPT ![t] = 0]
  /\ npages' = [npages EXCEPT ![t] = 0]
  /\ free_limit' = [free_limit EXCEPT ![t] = 0]

-----------------------------------------------------------------------------
(* coremap_allocate, called by getppages                                   *)

\* Seeded fault: the lock is not taken.
Allocate_NoLock(t) ==
  /\ pc[t] = "run"
  /\ stealmem_lock' = t
  /\ npages' \in {[npages EXCEPT ![t] = n] : n \in 1 .. MaxPages}
  /\ i' = [i EXCEPT ![t] = used]
  /\ alloc_count' = [alloc_count EXCEPT ![t] = 0]
  /\ Goto(t, "scan")
  /\ UNCHANGED <<is_free, chunk_size, free_limit, blocks, strayed>>

Allocate(t) ==
  /\ pc[t] = "run"
  /\ stealmem_lock = Free
  /\ stealmem_lock' = t
  /\ npages' \in {[npages EXCEPT ![t] = n] : n \in 1 .. MaxPages}
  /\ i' = [i EXCEPT ![t] = used]
  /\ alloc_count' = [alloc_count EXCEPT ![t] = 0]
  /\ Goto(t, "scan")
  /\ UNCHANGED <<is_free, chunk_size, free_limit, blocks, strayed>>

\* Seeded fault: an entry that is taken does not start the count again.
Scan_NoReset(t) ==
  /\ pc[t] = "scan"
  /\ i[t] < memory_size
  /\ alloc_count[t] < npages[t]
  /\ alloc_count' = [alloc_count EXCEPT ![t] = IF is_free[i[t]] THEN @ + 1 ELSE @]
  /\ i' = [i EXCEPT ![t] = @ + 1]
  /\ UNCHANGED <<is_free, chunk_size, stealmem_lock, pc, npages, free_limit, blocks, strayed>>

\* Count entries that are free until there are enough in a row.
Scan(t) ==
  /\ pc[t] = "scan"
  /\ i[t] < memory_size
  /\ alloc_count[t] < npages[t]
  /\ alloc_count' = [alloc_count EXCEPT ![t] = IF is_free[i[t]] THEN @ + 1 ELSE 0]
  /\ i' = [i EXCEPT ![t] = @ + 1]
  /\ UNCHANGED <<is_free, chunk_size, stealmem_lock, pc, npages, free_limit, blocks, strayed>>

\* None left: address 0.
ScanFails(t) ==
  /\ pc[t] = "scan"
  /\ i[t] = memory_size
  /\ stealmem_lock' = Free
  /\ Return(t)
  /\ UNCHANGED <<is_free, chunk_size, blocks, strayed>>

\* Enough: mark them from the first on.
ScanEnds(t) ==
  /\ pc[t] = "scan"
  /\ i[t] < memory_size
  /\ alloc_count[t] >= npages[t]
  /\ i' = [i EXCEPT ![t] = @ - npages[t]]
  /\ alloc_count' = [alloc_count EXCEPT ![t] = npages[t]]
  /\ Goto(t, "mark")
  /\ UNCHANGED <<is_free, chunk_size, stealmem_lock, npages, free_limit, blocks, strayed>>

\* Mark one entry: chunk_allocation counts down along the block ...
Mark(t) ==
  /\ pc[t] = "mark"
  /\ alloc_count[t] > 0
  /\ chunk_size' = [chunk_size EXCEPT ![i[t]] = alloc_count[t]]
  /\ Goto(t, "take")
  /\ UNCHANGED <<is_free, stealmem_lock, i, alloc_count, npages, free_limit, blocks, strayed>>

\* ... and the entry is taken.
Take(t) ==
  /\ pc[t] = "take"
  /\ is_free' = [is_free EXCEPT ![i[t]] = FALSE]
  /\ i' = [i EXCEPT ![t] = @ + 1]
  /\ alloc_count' = [alloc_count EXCEPT ![t] = @ - 1]
  /\ Goto(t, "mark")
  /\ UNCHANGED <<chunk_size, stealmem_lock, npages, free_limit, blocks, strayed>>

\* Seeded fault: the pages start one further on.
Block_Late(t) == i[t] - npages[t] + 2 .. i[t] + 1

\* The pages handed out: the number of the first one is that of its entry plus 1.
Block(t) == i[t] - npages[t] + 1 .. i[t]

MarkEnds(t) ==
  /\ pc[t] = "mark"
  /\ alloc_count[t] = 0
  /\ blocks' = blocks \cup {<<t, Block(t)>>}
  /\ stealmem_lock' = Free
  /\ Return(t)
  /\ UNCHANGED <<is_free, chunk_size, strayed>>

-----------------------------------------------------------------------------
(* free_kpages                                                             *)

\* The entries from that of the page's number on, as many as the first says:
\* it is that of the block's second page or, for a block of one page, of what
\* is behind the block.
FreePages(t) ==
  /\ pc[t] = "run"
  /\ \E b \in blocks :
       LET page_number == CHOOSE k \in b[2] : \A l \in b[2] : k <= l
           limit == page_number + chunk_size[page_number]
       IN /\ i' = [i EXCEPT ![t] = page_number]
          /\ free_limit' = [free_limit EXCEPT ![t] = limit]
          /\ blocks' = blocks \ {b}
          /\ strayed' = (strayed \/ \A l \in b[2] : l < limit)
  /\ Goto(t, "free")
  /\ UNCHANGED <<is_free, chunk_size, stealmem_lock, alloc_count, npages>>

\* An entry is free first ... (An entry beyond the last one is no entry: that
\* write hits something else.)
FreeEntry(t) ==
  /\ pc[t] = "free"
  /\ i[t] < free_limit[t]
  /\ is_free' = [k \in Pages |-> k = i[t] \/ is_free[k]]
  /\ Goto(t, "clear")
  /\ UNCHANGED <<chunk_size, stealmem_lock, i, alloc_count, npages, free_limit, blocks, strayed>>

\* ... and then loses its count, which may be that of a block handed out in
\* between. (The compiler drops the test of what has just been written.)
ClearEntry(t) ==
  /\ pc[t] = "clear"
  /\ chunk_size' = [k \in Pages |-> IF k = i[t] THEN 0 ELSE chunk_size[k]]
  /\ i' = [i EXCEPT ![t] = @ + 1]
  /\ Goto(t, "free")
  /\ UNCHANGED <<is_free, stealmem_lock, alloc_count, npages, free_limit, blocks, strayed>>

FreeEnds(t) ==
  /\ pc[t] = "free"
  /\ i[t] >= free_limit[t]
  /\ Return(t)
  /\ UNCHANGED <<is_free, chunk_size, stealmem_lock, blocks, strayed>>

-----------------------------------------------------------------------------

Next == \E t \in Threads :
  \/ Allocate(t) \/ Scan(t) \/ ScanFails(t) \/ ScanEnds(t) \/ Mark(t) \/ Take(t) \/ MarkEnds(t)
  \/ FreePages(t) \/ FreeEntry(t) \/ ClearEntry(t) \/ FreeEnds(t)

Spec == Init /\ [][Next]_vars

-----------------------------------------------------------------------------
(* Properties                                                              *)

TypeOK ==
  /\ is_free \in [Pages -> BOOLEAN]
  /\ chunk_size \in [Pages -> (0 .. MaxPages) \cup Garbage]
  /\ stealmem_lock \in Threads \cup {Free}
  /\ pc \in [Threads -> {"run", "scan", "mark", "take", "free", "clear"}]
  /\ i \in [Threads -> Nat]
  /\ alloc_count \in [Threads -> 0 .. MaxPages]
  /\ npages \in [Threads -> 0 .. MaxPages]
  /\ free_limit \in [Threads -> Nat]
  /\ strayed \in BOOLEAN

\* No page is handed out to two owners at a time.
BlocksDisjoint == \A b, c \in blocks : b # c => b[2] \cap c[2] = {}

\* Every page handed out is a page of RAM above the kernel and the first page
\* of the coremap (coremap.c:61, with entries that nobody initialised at 36).
PagesInRam == \A b \in blocks : b[2] \subseteq used + 1 .. memory_size - 1

\* The entries that a search has counted, and those about to be marked, are
\* free, whatever is freed at the same time without the lock: nobody but the
\* holder of the lock takes one (addrspace.c:78-80 and 105).
SearchesSound == \A t \in Threads, k \in Pages :
  \/ pc[t] = "scan" /\ i[t] <= k + alloc_count[t] /\ k < i[t]
  \/ pc[t] \in {"mark", "take"} /\ i[t] <= k /\ k < i[t] + alloc_count[t]
  => is_free[k]

\* Whatever is allocated and freed, in whatever order, no page is handed out
\* twice before a free_kpages goes on behind its block: the one-page block,
\* whose number is that of the next entry (coremap.c:61, addrspace.c:101-104),
\* is all that breaks it, and no race of the unlocked writes.
DisjointUntilStray == ~ strayed => BlocksDisjoint

=============================================================================
