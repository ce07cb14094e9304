---------------------------- MODULE AddressSpace ----------------------------
(***************************************************************************)
(* vm/addrspace.c (as_* and vm_fault), syscall/loadelf.c, syscall/execv.c  *)
(* and syscall/runprogram.c over the TLBs of several cpus.                 *)
(*                                                                         *)
(* Addresses are page numbers.  An instruction, or a copy the kernel makes *)
(* into user memory, is the sequence of page accesses it needs: it         *)
(* completes when all of them hit the TLB at once.  A thread may be        *)
(* switched out between any two steps, and go on on another cpu.           *)
(*                                                                         *)
(* as_create leaves no_of_segments and page_table as kmalloc gave them:    *)
(* zero, 0xdeadbeef (a negative int) or what the page's last owner left.   *)
(* 0 and the empty table stand for all of these: no page of such an        *)
(* address space is defined, and a fault on one maps any page or stops the *)
(* machine.                                                                *)
(*                                                                         *)
(* Physical memory is one pool: the images' pages come from it, and so do  *)
(* the kernel's (thread stacks, pages of the heap), which alone are given  *)
(* back.  The number of a page is that of its coremap entry plus one, and  *)
(* free_kpages starts at the entry with the page's own number: it frees    *)
(* what is behind the page.  Here its loop is one step; Coremap has every  *)
(* single write.                                                           *)
(***************************************************************************)
EXTENDS Naturals, Sequences, FiniteSets

CONSTANTS
  Procs,        \* processes, of one thread each
  Cpus,
  Kernel,       \* any thread without an address space: the menu, the idle loop
  NUM_TLB,      \* entries of a cpu's TLB
  Top,          \* user pages are 1 .. Top; the last one is the stack
  Memory,       \* physical pages are 0 .. Memory
  Garbage,      \* pages that an uninitialised variable may name
  used,         \* getppages hands out those above this one
  KernelSizes,  \* of the blocks the kernel asks for, in pages
  MaxKernel,    \* bound: blocks the kernel asks for
  Programs,     \* executables: sequences of program headers
  Instructions, \* what a user program may do: sequences of page accesses
  MaxExecs,     \* bound: calls of execv
  NULL

VPages == 1 .. Top
Stack == Top
Frames == 0 .. Memory

Header == [p_type : {"load", "skip", "unknown"}, p_vaddr : VPages, p_memsz : VPages,
           p_filesz : 0 .. Top, p_flags : SUBSET {"R", "W", "X"}]
Access == [page : VPages, write : BOOLEAN]
\* A translation may name a page that RAM does not have: what a failed execv
\* leaves is a segment at page 0, however long.
Entry == [page : VPages, frame : Nat, dirty : BOOLEAN]
Pte == [as_vbase : 0 .. Top, as_npages : 0 .. Top, as_pbase : Frames,
        temp_privilege : SUBSET {"R", "W", "X"}, final_privilege : SUBSET {"R", "W", "X"}]
Block == [page : Frames, npages : Nat \ {0}]
Addrspace == [no_of_segments : Nat, page_table : Seq(Pte), as_stackpbase : Frames]

\* The linker gives an executable one header that is not to be loaded
\* (PT_MIPS_REGINFO), some have none; as_prepare_load is not asked for 0 pages.
ASSUME AddressSpaceAssumption ==
  /\ NUM_TLB \in Nat \ {0} /\ Top \in Nat \ {0} /\ MaxExecs \in Nat
  /\ Memory \in Nat /\ used \in Frames /\ Garbage \subseteq Frames
  /\ KernelSizes \subseteq Nat \ {0} /\ MaxKernel \in Nat
  /\ \A e \in Programs :
       /\ e \in Seq(Header) /\ e # <<>>
       /\ \A k \in DOMAIN e : e[k].p_vaddr + e[k].p_memsz - 1 \in VPages
       /\ Cardinality({k \in DOMAIN e : e[k].p_type = "skip"}) <= 1
  /\ Instructions \subseteq (Seq(Access) \ {<<>>})
  /\ Kernel \notin Procs
  /\ NULL \notin Addrspace

VARIABLES
  as,        \* per process: its p_addrspace
  free,      \* physical pages not handed out
  chunk,     \* per physical page: chunk_size of its coremap entry
  kblocks,   \* the blocks of pages the kernel has
  kallocs,   \* blocks the kernel has asked for so far
  strayed,   \* history: a free_kpages freed a page that was not its block's
  tlb,       \* per cpu and slot: a translation or NULL
  running,   \* per cpu: whose thread it runs
  pc,        \* per process
  program,   \* the executable it loads
  call,      \* the call that loads it: runprogram or execv
  i,         \* the loop variable of load_elf and of as_prepare_load
  need,      \* the page accesses that must hit before the thread goes on
  found,     \* vm_fault: the translation worked out and not yet written
  image,     \* history: what became of the last load
  execs,     \* calls of execv so far
  panicked

pool == <<free, chunk, kblocks, kallocs, strayed>>
vars == <<as, free, chunk, kblocks, kallocs, strayed, tlb, running, pc, program, call, i, need, found, image, execs, panicked>>

Init ==
  /\ as = [p \in Procs |-> NULL]
  /\ free = used + 1 .. Memory
  /\ chunk = [f \in Frames |-> 0]
  /\ kblocks = {}
  /\ kallocs = 0
  /\ strayed = FALSE
  /\ tlb = [c \in Cpus |-> [k \in 1 .. NUM_TLB |-> NULL]]
  /\ running = [c \in Cpus |-> Kernel]
  /\ pc = [p \in Procs |-> "new"]
  /\ program = [p \in Procs |-> <<>>]
  /\ call = [p \in Procs |-> "runprogram"]
  /\ i = [p \in Procs |-> 0]
  /\ need = [p \in Procs |-> <<>>]
  /\ found = [p \in Procs |-> NULL]
  /\ image = [p \in Procs |-> "none"]
  /\ execs = 0
  /\ panicked = FALSE

\* A process takes steps on the cpu that runs it.
Runs(p) == ~ panicked /\ \E c \in Cpus : running[c] = p
CpuOf(p) == CHOOSE c \in Cpus : running[c] = p

\* At a point of its program, in the middle of no access.
At(p, label) == Runs(p) /\ pc[p] = label /\ need[p] = <<>>

Goto(p, label) == pc' = [pc EXCEPT ![p] = label]

-----------------------------------------------------------------------------
(* Pages of memory: getppages, alloc_kpages and free_kpages                *)

\* getppages: the first run of pages long enough, or 0.
RunsOf(n) == {f \in Frames : f .. f + n - 1 \subseteq free}
First(n) == CHOOSE f \in RunsOf(n) : \A g \in RunsOf(n) : f <= g
Getppages(n) == IF RunsOf(n) = {} THEN 0 ELSE First(n)

\* What the loop of coremap_allocate writes: the count goes down to 1.
HandOut(pbase, n) ==
  /\ free' = free \ (pbase .. pbase + n - 1)
  /\ chunk' = [f \in Frames |-> IF f \in pbase .. pbase + n - 1 THEN pbase + n - f ELSE chunk[f]]

\* Any thread in the kernel, whatever the processes do.
KernelAllocates(n) ==
  /\ ~ panicked
  /\ kallocs < MaxKernel
  /\ Getppages(n) # 0
  /\ HandOut(Getppages(n), n)
  /\ kblocks' = kblocks \cup {[page |-> Getppages(n), npages |-> n]}
  /\ kallocs' = kallocs + 1
  /\ UNCHANGED <<as, strayed, tlb, running, pc, program, call, i, need, found, image, execs, panicked>>

PagesOf(b) == {f \in Frames : b.page <= f /\ f < b.page + b.npages}

\* The entries from the one with the page's number on, as many as it says: the
\* rest of a longer block, whose first page is lost; behind a block of one page
\* the rest of whatever block begins there, or nothing.
Freed(b) == {f \in Frames : b.page < f /\ f <= b.page + chunk[b.page + 1]}

KernelFrees(b) ==
  /\ ~ panicked
  /\ free' = free \cup Freed(b)
  /\ chunk' = [f \in Frames |-> IF f \in Freed(b) THEN 0 ELSE chunk[f]]
  /\ kblocks' = kblocks \ {b}
  /\ strayed' = (strayed \/ ~ Freed(b) \subseteq PagesOf(b))
  /\ UNCHANGED <<as, kallocs, tlb, running, pc, program, call, i, need, found, image, execs, panicked>>

-----------------------------------------------------------------------------
(* The scheduler: thread_switch, whose tail calls as_activate              *)

\* as_activate
Flushed == [k \in 1 .. NUM_TLB |-> NULL]

MaySwitch(c, q) ==
  /\ ~ panicked
  /\ running[c] # q
  /\ q # Kernel => pc[q] # "dead" /\ \A d \in Cpus : running[d] # q
  /\ running' = [running EXCEPT ![c] = q]
  /\ image' = [p \in Procs |-> IF p = q /\ image[p] = "loaded" THEN "settled" ELSE image[p]]
  /\ UNCHANGED <<as, pool, pc, program, call, i, need, found, execs, panicked>>

\* Seeded fault: the tail of thread_switch does not call as_activate.
Switch_NoActivate(c, q) ==
  /\ MaySwitch(c, q)
  /\ UNCHANGED tlb

\* as_activate leaves the TLB alone for a thread without an address space.
Switch(c, q) ==
  /\ MaySwitch(c, q)
  /\ tlb' = IF q # Kernel /\ as[q] # NULL THEN [tlb EXCEPT ![c] = Flushed] ELSE tlb

-----------------------------------------------------------------------------
(* Memory accesses and vm_fault                                            *)

Hits(c, a) ==
  \E k \in 1 .. NUM_TLB : tlb[c][k] # NULL /\ tlb[c][k].page = a.page /\ (a.write => tlb[c][k].dirty)
Translates(c, a) == \E k \in 1 .. NUM_TLB : tlb[c][k] # NULL /\ tlb[c][k].page = a.page

\* An instruction starts again until all it touches is there; a copy in the
\* kernel goes on from page to page.
Pending(p) == IF pc[p] = "user" THEN DOMAIN need[p] ELSE {1}
Missing(p) == {k \in Pending(p) : ~ Hits(CpuOf(p), need[p][k])}
Faulting(p) == need[p][CHOOSE k \in Missing(p) : \A l \in Missing(p) : k <= l]

Accesses(p) == Runs(p) /\ need[p] # <<>> /\ found[p] = NULL

Proceed(p) ==
  /\ Accesses(p)
  /\ Missing(p) = {}
  /\ need' = [need EXCEPT ![p] = IF pc[p] = "user" THEN <<>> ELSE Tail(@)]
  /\ UNCHANGED <<as, pool, tlb, running, pc, program, call, i, found, image, execs, panicked>>

\* The segments that hold a page; the loop stops at the first.
Holding(a, v) ==
  {k \in 1 .. a.no_of_segments :
     a.page_table[k].as_vbase <= v /\ v < a.page_table[k].as_vbase + a.page_table[k].as_npages}
Segment(a, v) == a.page_table[CHOOSE k \in Holding(a, v) : \A l \in Holding(a, v) : k <= l]

ReadOnly(flags) == flags = {"R"} \/ flags = {"R", "X"}

\* What the loop leaves in paddr and read_only, when it sets paddr at all.
Defined(a, v) == Holding(a, v) # {} \/ (v = Stack /\ a.no_of_segments > 0)
Translation(a, v) ==
  IF Holding(a, v) # {}
  THEN LET s == Segment(a, v) IN
         [page |-> v, frame |-> s.as_pbase + (v - s.as_vbase), dirty |-> ~ ReadOnly(s.final_privilege)]
  ELSE [page |-> v, frame |-> a.as_stackpbase, dirty |-> TRUE]

\* load_elf's callers: runprogram's error ends the process, execv's goes back
\* to the program that called it.
Fail(p) ==
  /\ Goto(p, IF call[p] = "runprogram" THEN "dead" ELSE "user")
  /\ i' = [i EXCEPT ![p] = 0]

\* A write through an entry that is not writable: EPERM; a process without an
\* address space: EFAULT. In user mode kill_curthread ends the process; a copy
\* in the kernel fails.
FaultFails(p) ==
  /\ Accesses(p)
  /\ Missing(p) # {}
  /\ Translates(CpuOf(p), Faulting(p)) \/ as[p] = NULL
  /\ need' = [need EXCEPT ![p] = <<>>]
  /\ IF pc[p] = "user" THEN Goto(p, "dead") /\ UNCHANGED i ELSE Fail(p)
  /\ UNCHANGED <<as, pool, tlb, running, program, call, found, image, execs, panicked>>

\* Seeded fault: no segment is read-only.
FaultLookup_AllWritable(p) ==
  /\ Accesses(p)
  /\ Missing(p) # {} /\ as[p] # NULL
  /\ ~ Translates(CpuOf(p), Faulting(p))
  /\ LET v == Faulting(p).page IN
       /\ Defined(as[p], v)
       /\ found' = [found EXCEPT ![p] = [Translation(as[p], v) EXCEPT !.dirty = TRUE]]
  /\ UNCHANGED <<as, pool, tlb, running, pc, program, call, i, need, image, execs, panicked>>

\* A table that nobody has made may hold a page read-only, too.
Writable(a) == IF a.page_table = <<>> THEN BOOLEAN ELSE {TRUE}

\* For a page that no segment holds paddr is never written: the assertion
\* fails or any page is mapped.
FaultLookup(p) ==
  /\ Accesses(p)
  /\ Missing(p) # {} /\ as[p] # NULL
  /\ ~ Translates(CpuOf(p), Faulting(p))
  /\ LET v == Faulting(p).page IN
       \/ /\ Defined(as[p], v)
          /\ found' = [found EXCEPT ![p] = Translation(as[p], v)]
          /\ UNCHANGED panicked
       \/ /\ ~ Defined(as[p], v)
          /\ \E f \in Garbage, d \in Writable(as[p]) :
               found' = [found EXCEPT ![p] = [page |-> v, frame |-> f, dirty |-> d]]
          /\ UNCHANGED panicked
       \/ /\ ~ Defined(as[p], v)
          /\ panicked' = TRUE
          /\ UNCHANGED found
  /\ UNCHANGED <<as, pool, tlb, running, pc, program, call, i, need, image, execs>>

Empty(c) == {k \in 1 .. NUM_TLB : tlb[c][k] = NULL}

\* Seeded fault: the loop goes on after it has written the entry.
FaultFill_NoReturn(p) ==
  /\ Runs(p)
  /\ found[p] # NULL
  /\ LET c == CpuOf(p) IN
       tlb' = [tlb EXCEPT ![c] = [k \in 1 .. NUM_TLB |-> IF k \in Empty(c) THEN found[p] ELSE tlb[c][k]]]
  /\ found' = [found EXCEPT ![p] = NULL]
  /\ UNCHANGED <<as, pool, running, pc, program, call, i, need, image, execs, panicked>>

\* With interrupts off. When the TLB is full the entry that the loop read last
\* is the one tlb_probe finds: it is invalidated, and nothing is mapped.
FaultFill(p) ==
  /\ Runs(p)
  /\ found[p] # NULL
  /\ LET c == CpuOf(p) IN
       tlb' = IF Empty(c) = {} THEN [tlb EXCEPT ![c][NUM_TLB] = NULL]
              ELSE [tlb EXCEPT ![c][CHOOSE k \in Empty(c) : \A l \in Empty(c) : k <= l] = found[p]]
  /\ found' = [found EXCEPT ![p] = NULL]
  /\ UNCHANGED <<as, pool, running, pc, program, call, i, need, image, execs, panicked>>

-----------------------------------------------------------------------------
(* runprogram and execv                                                    *)

NewAddrspace == [no_of_segments |-> 0, page_table |-> <<>>, as_stackpbase |-> 0]

\* as_create, then proc_setas. execv frees the old one, and none of its pages;
\* it does not look whether there is a new one, as runprogram does.
NewAs(p, which) ==
  /\ \E e \in Programs : program' = [program EXCEPT ![p] = e]
  /\ \/ as' = [as EXCEPT ![p] = NewAddrspace]
     \/ which = "execv" /\ as' = [as EXCEPT ![p] = NULL]
  /\ call' = [call EXCEPT ![p] = which]
  /\ image' = [image EXCEPT ![p] = "broken"]
  /\ Goto(p, "activate")

\* The file cannot be opened, or as_create has no memory: the process ends.
RunProgramFails(p) ==
  /\ At(p, "new")
  /\ Goto(p, "dead")
  /\ UNCHANGED <<as, pool, tlb, running, program, call, i, need, found, image, execs, panicked>>

RunProgram(p) ==
  /\ At(p, "new")
  /\ NewAs(p, "runprogram")
  /\ UNCHANGED <<pool, tlb, running, i, need, found, execs, panicked>>

\* A file that cannot be opened is reported, and the old image is whole.
Execv(p) ==
  /\ At(p, "user")
  /\ execs < MaxExecs
  /\ execs' = execs + 1
  /\ \/ NewAs(p, "execv")
     \/ UNCHANGED <<as, program, call, image, pc>>
  /\ UNCHANGED <<pool, tlb, running, i, need, found, panicked>>

Activate(p) ==
  /\ At(p, "activate")
  /\ tlb' = IF as[p] = NULL THEN tlb ELSE [tlb EXCEPT ![CpuOf(p)] = Flushed]
  /\ Goto(p, "define")
  /\ UNCHANGED <<as, pool, running, program, call, i, need, found, image, execs, panicked>>

-----------------------------------------------------------------------------
(* load_elf                                                                *)

Segments(p) == as[p].no_of_segments
SetI(p, k) == i' = [i EXCEPT ![p] = k]

NoPte == [as_vbase |-> 0, as_npages |-> 0, as_pbase |-> 0, temp_privilege |-> {}, final_privilege |-> {}]

Region(ph) == [as_vbase |-> ph.p_vaddr, as_npages |-> ph.p_memsz, as_pbase |-> 0,
               temp_privilege |-> ph.p_flags, final_privilege |-> {}]
IsLoad(ph) == ph.p_type = "load"

\* The headers to load among the first n, and which of them one is.
Loads(e, n) == {h \in 1 .. n : IsLoad(e[h])}
Rank(e, h) == Cardinality(Loads(e, h))
IsRegion(e, n, k) == \E h \in Loads(e, n) : Rank(e, h) = k
KthLoad(e, n, k) == e[CHOOSE h \in Loads(e, n) : Rank(e, h) = k]

\* Seeded fault: two segments less than headers.
Regions_OneLess(e, n) ==
  LET e_phnum == Len(e)
  IN [no_of_segments |-> IF e_phnum > 1 THEN e_phnum - 2 ELSE 0,
      page_table |-> [k \in 1 .. e_phnum |-> IF k < e_phnum /\ IsRegion(e, n, k) THEN Region(KthLoad(e, n, k)) ELSE NoPte],
      as_stackpbase |-> 0]

\* The regions that load_elf defines from the first n headers, in the order of
\* the headers: as_define_region takes the first entry not in use. There is
\* one segment less than headers; a region without an entry is dropped and the
\* call succeeds. The entries not yet reached are kmalloc's, and no page is in
\* what they say; the last one is past the end of the block.
Regions(e, n) ==
  LET e_phnum == Len(e)
  IN [no_of_segments |-> e_phnum - 1,
      page_table |-> [k \in 1 .. e_phnum |-> IF k < e_phnum /\ IsRegion(e, n, k) THEN Region(KthLoad(e, n, k)) ELSE NoPte],
      as_stackpbase |-> 0]

\* The first pass over the headers. The file is read in pieces, each read may
\* fail or be short, and a header of an unknown type is an error.
DefineFails(p) ==
  /\ At(p, "define")
  /\ \/ UNCHANGED as
     \/ as[p] # NULL /\ \E n \in 0 .. Len(program[p]) - 1 :
          /\ \A k \in 1 .. n : program[p][k].p_type # "unknown"
          /\ as' = [as EXCEPT ![p] = Regions(program[p], n)]
  /\ Fail(p)
  /\ UNCHANGED <<pool, tlb, running, program, call, need, found, image, execs, panicked>>

\* load_elf writes to an address space, and to a page table, that kmalloc may
\* not have given: the kernel faults, fault upon fault in the second case.
DefinePanics(p) ==
  /\ At(p, "define")
  /\ panicked' = TRUE
  /\ UNCHANGED <<as, pool, tlb, running, pc, program, call, i, need, found, image, execs>>

DefineRegions(p) ==
  /\ At(p, "define")
  /\ as[p] # NULL
  /\ \A k \in DOMAIN program[p] : program[p][k].p_type # "unknown"
  /\ as' = [as EXCEPT ![p] = Regions(program[p], Len(program[p]))]
  /\ SetI(p, 1)
  /\ Goto(p, "prepare")
  /\ UNCHANGED <<pool, tlb, running, program, call, need, found, image, execs, panicked>>

\* Seeded fault: the pages stay free.
PrepareSegment_StillFree(p) ==
  /\ At(p, "prepare")
  /\ i[p] <= Segments(p)
  /\ LET n == as[p].page_table[i[p]].as_npages
         pbase == Getppages(n)
     IN /\ as' = [as EXCEPT ![p].page_table[i[p]].as_pbase = pbase]
        /\ IF pbase = 0 THEN Fail(p) ELSE SetI(p, i[p] + 1) /\ UNCHANGED pc
  /\ UNCHANGED <<pool, tlb, running, program, call, need, found, image, execs, panicked>>

PrepareSegment(p) ==
  /\ At(p, "prepare")
  /\ i[p] <= Segments(p)
  /\ LET n == as[p].page_table[i[p]].as_npages
         pbase == Getppages(n)
     IN /\ as' = [as EXCEPT ![p].page_table[i[p]].as_pbase = pbase]
        /\ IF pbase = 0 THEN Fail(p) /\ UNCHANGED <<free, chunk>>
           ELSE SetI(p, i[p] + 1) /\ HandOut(pbase, n) /\ UNCHANGED pc
  /\ UNCHANGED <<kblocks, kallocs, strayed, tlb, running, program, call, need, found, image, execs, panicked>>

PrepareStack(p) ==
  /\ At(p, "prepare")
  /\ i[p] > Segments(p)
  /\ LET pbase == Getppages(1)
     IN /\ as' = [as EXCEPT ![p].as_stackpbase = pbase]
        /\ IF pbase = 0 THEN Fail(p) /\ UNCHANGED <<free, chunk>>
           ELSE SetI(p, 1) /\ HandOut(pbase, 1) /\ Goto(p, "load")
  /\ UNCHANGED <<kblocks, kallocs, strayed, tlb, running, program, call, need, found, image, execs, panicked>>

\* The second pass reads the headers and the segments' contents.
LoadFails(p) ==
  /\ At(p, "load")
  /\ i[p] <= Len(program[p])
  /\ Fail(p)
  /\ UNCHANGED <<as, pool, tlb, running, program, call, need, found, image, execs, panicked>>

\* load_segment copies the file's bytes to the segment's pages, and no more than
\* the segment has room for; it clears none of the others.
Copied(ph) == IF ph.p_filesz > ph.p_memsz THEN ph.p_memsz ELSE ph.p_filesz

LoadSegment(p) ==
  /\ At(p, "load")
  /\ i[p] <= Len(program[p])
  /\ SetI(p, i[p] + 1)
  /\ LET ph == program[p][i[p]] IN
       need' = [need EXCEPT ![p] = IF ph.p_type = "skip" THEN <<>>
                                   ELSE [k \in 1 .. Copied(ph) |-> [page |-> ph.p_vaddr + k - 1, write |-> TRUE]]]
  /\ UNCHANGED <<as, pool, tlb, running, pc, program, call, found, image, execs, panicked>>

\* as_complete_load and as_define_stack; runprogram goes to user mode.
CompleteLoad(p) ==
  /\ At(p, "load")
  /\ i[p] > Len(program[p])
  /\ as' = LET t == as[p].page_table IN
             [as EXCEPT ![p].page_table =
                [k \in DOMAIN t |->
                   IF k <= Segments(p) THEN [t[k] EXCEPT !.final_privilege = t[k].temp_privilege] ELSE t[k]]]
  /\ image' = [image EXCEPT ![p] = "loaded"]
  /\ SetI(p, 0)
  /\ IF call[p] = "execv" THEN Goto(p, "args") ELSE Goto(p, "user")
  /\ UNCHANGED <<pool, tlb, running, program, call, need, found, execs, panicked>>

\* execv writes the arguments to the new stack ...
CopyArgs(p) ==
  /\ At(p, "args")
  /\ Goto(p, "enter")
  /\ need' = [need EXCEPT ![p] = <<[page |-> Stack, write |-> TRUE]>>]
  /\ UNCHANGED <<as, pool, tlb, running, program, call, i, found, image, execs, panicked>>

\* ... and goes to user mode.
EnterNewProcess(p) ==
  /\ At(p, "enter")
  /\ Goto(p, "user")
  /\ UNCHANGED <<as, pool, tlb, running, program, call, i, need, found, image, execs, panicked>>

-----------------------------------------------------------------------------
(* User mode                                                               *)

Execute(p) ==
  /\ At(p, "user")
  /\ \E ins \in Instructions : need' = [need EXCEPT ![p] = ins]
  /\ UNCHANGED <<as, pool, tlb, running, pc, program, call, i, found, image, execs, panicked>>

\* _exit. The TLB keeps the entries.
Exit(p) ==
  /\ At(p, "user")
  /\ Goto(p, "dead")
  /\ UNCHANGED <<as, pool, tlb, running, program, call, i, need, found, image, execs, panicked>>

Step(p) ==
  \/ Proceed(p) \/ FaultFails(p) \/ FaultLookup(p) \/ FaultFill(p)
  \/ RunProgramFails(p) \/ RunProgram(p) \/ Execv(p) \/ Activate(p)
  \/ DefineFails(p) \/ DefinePanics(p) \/ DefineRegions(p) \/ PrepareSegment(p) \/ PrepareStack(p)
  \/ LoadFails(p) \/ LoadSegment(p) \/ CompleteLoad(p) \/ CopyArgs(p) \/ EnterNewProcess(p)
  \/ Execute(p) \/ Exit(p)

Next ==
  \/ \E n \in KernelSizes : KernelAllocates(n)
  \/ \E b \in kblocks : KernelFrees(b)
  \/ \E c \in Cpus, q \in Procs \cup {Kernel} : Switch(c, q)
  \/ \E p \in Procs : Step(p)

Spec == Init /\ [][Next]_vars

-----------------------------------------------------------------------------
(* Properties                                                              *)

\* Every variable has its type.
TypeOK ==
  /\ as \in [Procs -> Addrspace \cup {NULL}]
  /\ \A p \in Procs : as[p] # NULL => as[p].no_of_segments <= Len(as[p].page_table)
  /\ free \subseteq Frames
  /\ chunk \in [Frames -> Nat]
  /\ kblocks \subseteq Block
  /\ kallocs \in 0 .. MaxKernel
  /\ strayed \in BOOLEAN
  /\ tlb \in [Cpus -> [1 .. NUM_TLB -> Entry \cup {NULL}]]
  /\ running \in [Cpus -> Procs \cup {Kernel}]
  /\ pc \in [Procs -> {"new", "activate", "define", "prepare", "load", "args", "enter", "user", "dead"}]
  /\ program \in [Procs -> Programs \cup {<<>>}]
  /\ call \in [Procs -> {"runprogram", "execv"}]
  /\ i \in [Procs -> Nat]
  /\ need \in [Procs -> Seq(Access)]
  /\ found \in [Procs -> Entry \cup {NULL}]
  /\ image \in [Procs -> {"none", "broken", "loaded", "settled"}]
  /\ execs \in 0 .. MaxExecs
  /\ panicked \in BOOLEAN

Entries(c) == {tlb[c][k] : k \in {k \in 1 .. NUM_TLB : tlb[c][k] # NULL}}

\* What the TLB says of a page in a segment of the running process is what its
\* address space says: as_activate in thread_switch (thread.c:724), in
\* runprogram and in execv forgets all that was another image's.
TlbCorrect ==
  \A c \in Cpus, p \in Procs :
    running[c] = p /\ as[p] # NULL /\ pc[p] \notin {"new", "activate", "dead"} =>
      \A e \in Entries(c) : Defined(as[p], e.page) => e.frame = Translation(as[p], e.page).frame

\* tlb.h:40, "never write more than one TLB entry with the same virtual page
\* field": vm_fault writes one only for a page that has none, also when the
\* thread was switched out between the fault and the write.
NoDuplicateEntries ==
  \A c \in Cpus : \A k, l \in 1 .. NUM_TLB :
    k # l /\ tlb[c][k] # NULL /\ tlb[c][l] # NULL => tlb[c][k].page # tlb[c][l].page

\* The TLBs hold translations, never two of a page.
TlbWellFormed == TypeOK /\ NoDuplicateEntries

\* While a program is loaded its pages are writable (loadelf.c:306 comes after
\* the copies), and nothing flushes what the copies left in the TLB: from the
\* first time the thread is switched in after the load on, no page of a
\* read-only segment is writable.
WriteProtected ==
  \A c \in Cpus, p \in Procs :
    running[c] = p /\ pc[p] = "user" /\ image[p] = "settled" =>
      \A e \in Entries(c) :
        Holding(as[p], e.page) # {} /\ ReadOnly(Segment(as[p], e.page).final_privilege) => ~ e.dirty

\* The pages of memory in the image of a process.
HasFrame(p, f) ==
  /\ as[p] # NULL
  /\ \/ \E k \in DOMAIN as[p].page_table :
          LET s == as[p].page_table[k] IN s.as_pbase # 0 /\ s.as_pbase <= f /\ f < s.as_pbase + s.as_npages
     \/ as[p].as_stackpbase # 0 /\ as[p].as_stackpbase = f

\* A process that runs a program loaded to the end reaches, through the pages
\* of its segments, no page of another process and none of the kernel's,
\* whatever cpus it has been on, however many loads failed before, and
\* although the kernel gives pages back that are handed out again: until a
\* free_kpages frees a page that is not its block's. Then (coremap.c:61,
\* addrspace.c:101-104) a page of an image is handed out a second time.
Isolated ==
  ~ strayed =>
    \A c \in Cpus, p \in Procs :
      running[c] = p /\ pc[p] = "user" /\ image[p] \in {"loaded", "settled"} =>
        \A e \in Entries(c) : Defined(as[p], e.page) =>
          /\ e.frame > used
          /\ \A b \in kblocks : e.frame \notin PagesOf(b)
          /\ \A q \in Procs \ {p} : ~ HasFrame(q, e.frame)

\* A program loaded to the end that had a header to skip has all the pages of
\* its segments, with their privileges: load_elf counts one segment less than
\* there are headers (loadelf.c:219), and the linker always makes one to skip.
WholeImage ==
  \A p \in Procs :
    /\ pc[p] = "user" /\ image[p] \in {"loaded", "settled"}
    /\ \E k \in DOMAIN program[p] : program[p][k].p_type = "skip"
    => /\ as[p].as_stackpbase # 0
       /\ \A k \in DOMAIN program[p] : program[p][k].p_type = "load" =>
            \E l \in 1 .. Segments(p) :
              LET s == as[p].page_table[l] IN
                /\ s.as_vbase = program[p][k].p_vaddr /\ s.as_npages = program[p][k].p_memsz
                /\ s.final_privilege = program[p][k].p_flags /\ s.as_pbase # 0

\* execv.c:51 destroys the old address space before load_elf reads the new
\* program, so a program can be sent back to user mode with an image that is
\* not whole, but only by an execv that failed: runprogram never is.
BrokenOnlyByExecv ==
  \A p \in Procs : pc[p] = "user" /\ image[p] = "broken" => call[p] = "execv"

\* What a program in user mode has of its image.
UserImages == WholeImage /\ BrokenOnlyByExecv

=============================================================================
