-------------------------- MODULE AddressSpaceProofs --------------------------
(***************************************************************************)
(* Proofs about AddressSpace, for any processes, cpus, sizes of the TLB    *)
(* and of memory, executables and programs: what the TLB of a cpu says is  *)
(* what the address space of the process on it says, and, until the kernel *)
(* frees a page that is not its block's, no page of memory is in the       *)
(* images of two processes or in an image and a block of the kernel.       *)
(*                                                                         *)
(* The steps of a process change what is its own and the TLB of its cpu;   *)
(* so the invariant has a part for each process (Local), one for each      *)
(* process and the cpu that runs it (OnCpu), one for each TLB (Distinct)   *)
(* and one on the pages of memory that two could share (Owned, Apart,      *)
(* KernelOwns).                                                            *)
(***************************************************************************)
EXTENDS AddressSpace, FiniteSetTheorems, WellFoundedInduction, TLAPS

USE DEF pool

\* A thread runs on one cpu at a time.
OneCpu == \A c, d \in Cpus : running[c] \in Procs /\ running[c] = running[d] => c = d

\* Where an address space is defined, e is its translation.
Exact(a, e) == Defined(a, e.page) => e = Translation(a, e.page)
SameFrame(a, e) == Defined(a, e.page) => e.frame = Translation(a, e.page).frame
Protects(a, e) == Holding(a, e.page) # {} /\ ReadOnly(Segment(a, e.page).final_privilege) => ~ e.dirty

\* The segments are those of the headers of the program.
SameRegion(s, r) ==
  s.as_vbase = r.as_vbase /\ s.as_npages = r.as_npages /\ s.temp_privilege = r.temp_privilege
Shaped(a, e) ==
  /\ a.no_of_segments = Len(e) - 1
  /\ Len(a.page_table) = Len(e)
  /\ \A k \in 1 .. Len(e) : SameRegion(a.page_table[k], Regions(e, Len(e)).page_table[k])

\* The first n segments have their pages.
Filled(a, n) == \A k \in 1 .. n : a.page_table[k].as_pbase # 0
Whole(a) == Filled(a, a.no_of_segments) /\ a.as_stackpbase # 0
Final(a) == \A k \in 1 .. a.no_of_segments : a.page_table[k].final_privilege = a.page_table[k].temp_privilege

Loaded(p) == image[p] \in {"loaded", "settled"}

\* What a process knows about itself: with no address space it has not begun, is
\* dead, or is in an execv without memory; while a program is loaded the image is broken, and how much of it
\* there is goes with the loop variable; vm_fault works on an access that
\* waits, for the address space as it is.
Staged(p) ==
  /\ as[p] = NULL => pc[p] \in {"new", "activate", "define", "user", "dead"}
  /\ pc[p] = "new" => need[p] = <<>>
  /\ pc[p] \in {"activate", "define", "prepare", "load"} => image[p] = "broken"
  /\ pc[p] \in {"args", "enter"} => Loaded(p)
  /\ pc[p] = "user" /\ image[p] = "broken" => call[p] = "execv"
  /\ need[p] # <<>> => pc[p] \in {"load", "enter", "user"}
  /\ found[p] # NULL => need[p] # <<>> /\ as[p] # NULL /\ Exact(as[p], found[p])
Built(p) ==
  /\ as[p] # NULL => program[p] \in Programs
  /\ pc[p] \in {"prepare", "load"} \/ Loaded(p) => as[p] # NULL /\ Shaped(as[p], program[p])
  /\ pc[p] = "prepare" => i[p] \in 1 .. as[p].no_of_segments + 1 /\ Filled(as[p], i[p] - 1)
  /\ pc[p] = "load" => i[p] # 0
  /\ pc[p] = "load" \/ Loaded(p) => Whole(as[p])
  /\ Loaded(p) => Final(as[p])
Local(p) == Staged(p) /\ Built(p)

\* What the TLB of a cpu has to do with the process it runs.
Active(p) == pc[p] \notin {"new", "activate", "dead"}
OnCpu(c, p) ==
  running[c] = p /\ as[p] # NULL =>
    /\ pc[p] \in {"define", "prepare"} => tlb[c] = Flushed
    /\ \A k \in 1 .. NUM_TLB : tlb[c][k] # NULL =>
         /\ Active(p) => SameFrame(as[p], tlb[c][k])
         /\ Active(p) /\ image[p] = "settled" => Protects(as[p], tlb[c][k])
         /\ found[p] # NULL => tlb[c][k].page # found[p].page

\* No two entries of a TLB are for one page.
Distinct(c) ==
  \A k, l \in 1 .. NUM_TLB :
    k # l /\ tlb[c][k] # NULL /\ tlb[c][l] # NULL => tlb[c][k].page # tlb[c][l].page

\* The pages of memory of an address space.
InBlock(s, f) == s.as_pbase # 0 /\ s.as_pbase <= f /\ f < s.as_pbase + s.as_npages
Holds(a, f) ==
  /\ a # NULL
  /\ \/ \E k \in 1 .. Len(a.page_table) : InBlock(a.page_table[k], f)
     \/ a.as_stackpbase # 0 /\ a.as_stackpbase = f

\* They are pages that getppages handed out, each to one process or to a block of
\* the kernel, as long as no free_kpages went wrong.
FreeAbove == \A f \in free : f > used
Owned(p) == ~ strayed => \A f \in Nat : Holds(as[p], f) => f > used /\ f \notin free
Apart == ~ strayed => \A p, q \in Procs, f \in Nat : Holds(as[p], f) /\ Holds(as[q], f) => p = q
KernelOwns(b) ==
  /\ \A f \in PagesOf(b) : f > used
  /\ ~ strayed => \A f \in PagesOf(b) :
       /\ f \notin free
       /\ \A p \in Procs : ~ Holds(as[p], f)
       /\ \A d \in kblocks : f \in PagesOf(d) => d = b

IInv ==
  /\ TypeOK
  /\ OneCpu
  /\ \A p \in Procs : Local(p)
  /\ \A c \in Cpus, p \in Procs : OnCpu(c, p)
  /\ \A c \in Cpus : Distinct(c)
  /\ FreeAbove
  /\ \A p \in Procs : Owned(p)
  /\ Apart
  /\ \A b \in kblocks : KernelOwns(b)

-----------------------------------------------------------------------------
(* Facts about the operators of the model                                  *)

\* A set of numbers with a number in it has a least one.
LEMMA Least == ASSUME NEW S \in SUBSET Nat, S # {} PROVE \E k \in S : \A l \in S : k <= l
<1> DEFINE R == {ss \in Nat \X Nat : ss[1] < ss[2]}
<1>1. IsWellFoundedOn(R, Nat)
  BY NatLessThanWellFounded DEF OpToRel
<1>2. PICK k \in S : \A l \in S : ~ (<<l, k>> \in R)
  <2> HIDE DEF R
  <2> QED
    BY <1>1, WFMin
<1>3. ASSUME NEW l \in S PROVE k <= l
  <2>1. <<l, k>> \in Nat \X Nat
    OBVIOUS
  <2>2. ~ (l < k)
    BY <1>2, <2>1
  <2>3. QED
    BY <2>2
<1>4. QED
  BY <1>3

\* The number that the loops of the model stop at.
LEMMA LeastChosen ==
  ASSUME NEW S \in SUBSET Nat, S # {}
  PROVE  (CHOOSE k \in S : \A l \in S : k <= l) \in S
BY Least

\* vm_fault translates a page with a segment that holds it.
LEMMA SegmentHolds ==
  ASSUME NEW a, NEW v, Holding(a, v) # {}, a.no_of_segments \in Nat
  PROVE  \E k \in Holding(a, v) : Segment(a, v) = a.page_table[k]
<1>1. Holding(a, v) \in SUBSET Nat
  BY DEF Holding
<1>2. (CHOOSE k \in Holding(a, v) : \A l \in Holding(a, v) : k <= l) \in Holding(a, v)
  BY <1>1, LeastChosen
<1>3. QED
  BY <1>2 DEF Segment

\* The fields of an address space.
LEMMA AddrspaceFields ==
  ASSUME NEW a \in Addrspace, a.no_of_segments <= Len(a.page_table)
  PROVE  /\ a.no_of_segments \in Nat /\ a.page_table \in Seq(Pte) /\ a.as_stackpbase \in Frames
         /\ Len(a.page_table) \in Nat
         /\ \A k \in 1 .. Len(a.page_table) : a.page_table[k] \in Pte
         /\ \A k \in 1 .. a.no_of_segments : k \in 1 .. Len(a.page_table)
<1>1. a.no_of_segments \in Nat /\ a.page_table \in Seq(Pte) /\ a.as_stackpbase \in Frames
  BY DEF Addrspace
<1>2. QED
  BY <1>1

LEMMA PteFields ==
  ASSUME NEW s \in Pte
  PROVE  /\ s.as_vbase \in Nat /\ s.as_npages \in Nat /\ s.as_pbase \in Nat /\ s.as_pbase \in Frames
         /\ s.as_npages \in 0 .. Top /\ s.as_vbase \in 0 .. Top
BY AddressSpaceAssumption DEF Pte, Frames

\* The translation that vm_fault works out is of the page it was asked for, and
\* is one a TLB can hold.
LEMMA TranslationType ==
  ASSUME NEW a \in Addrspace, a.no_of_segments <= Len(a.page_table), NEW v \in VPages
  PROVE  Translation(a, v) \in Entry /\ Translation(a, v).page = v
<1>1. v \in Nat
  BY DEF VPages
<1>2. CASE Holding(a, v) # {}
  <2>1. PICK k \in Holding(a, v) : Segment(a, v) = a.page_table[k]
    BY <1>2, SegmentHolds, AddrspaceFields
  <2>2. PICK s \in Pte : s = a.page_table[k]
    BY AddrspaceFields DEF Holding
  <2>3. s.as_vbase <= v /\ s.as_vbase \in Nat /\ s.as_pbase \in Nat
    BY <2>2, PteFields DEF Holding
  <2>4. s.as_pbase + (v - s.as_vbase) \in Nat
    BY <1>1, <2>3
  <2>5. Translation(a, v) = [page |-> v, frame |-> s.as_pbase + (v - s.as_vbase), dirty |-> ~ ReadOnly(s.final_privilege)]
    BY <1>2, <2>1, <2>2 DEF Translation
  <2>6. (~ ReadOnly(s.final_privilege)) \in BOOLEAN
    BY DEF ReadOnly
  <2>7. QED
    BY <2>4, <2>5, <2>6 DEF Entry
<1>3. CASE Holding(a, v) = {}
  <2>1. a.as_stackpbase \in Nat
    BY AddrspaceFields, AddressSpaceAssumption DEF Frames
  <2>2. QED
    BY <1>3, <2>1 DEF Translation, Entry
<1>4. QED
  BY <1>2, <1>3

\* What is translated, and to which frame, depends on where the segments are and
\* on their pages alone.
LEMMA SameTranslations ==
  ASSUME NEW a, NEW b, NEW v, a.no_of_segments \in Nat, b.no_of_segments = a.no_of_segments,
         b.as_stackpbase = a.as_stackpbase,
         \A k \in 1 .. a.no_of_segments :
           /\ b.page_table[k].as_vbase = a.page_table[k].as_vbase
           /\ b.page_table[k].as_npages = a.page_table[k].as_npages
           /\ b.page_table[k].as_pbase = a.page_table[k].as_pbase
  PROVE  /\ Holding(b, v) = Holding(a, v)
         /\ Defined(b, v) <=> Defined(a, v)
         /\ Translation(b, v).frame = Translation(a, v).frame
<1>1. Holding(b, v) = Holding(a, v)
  BY DEF Holding
<1>2. Defined(b, v) <=> Defined(a, v)
  BY <1>1 DEF Defined
<1>3. CASE Holding(a, v) # {}
  <2>1. PICK k \in Holding(a, v) : k = CHOOSE h \in Holding(a, v) : \A l \in Holding(a, v) : h <= l
    <3>1. Holding(a, v) \in SUBSET Nat
      BY DEF Holding
    <3>2. QED
      BY <1>3, <3>1, LeastChosen
  <2>2. Segment(a, v) = a.page_table[k] /\ Segment(b, v) = b.page_table[k]
    BY <1>1, <2>1 DEF Segment
  <2>3. k \in 1 .. a.no_of_segments
    BY DEF Holding
  <2>4. /\ Translation(a, v).frame = Segment(a, v).as_pbase + (v - Segment(a, v).as_vbase)
        /\ Translation(b, v).frame = Segment(b, v).as_pbase + (v - Segment(b, v).as_vbase)
    BY <1>1, <1>3 DEF Translation
  <2>5. QED
    BY <1>1, <1>2, <2>2, <2>3, <2>4
<1>4. CASE Holding(a, v) = {}
  BY <1>1, <1>2, <1>4 DEF Translation
<1>5. QED
  BY <1>3, <1>4

\* getppages gives out pages that are free, or says that it has none: with 0, or
\* for 0 pages, which is the same.
LEMMA GetppagesGives ==
  ASSUME TypeOK, FreeAbove, NEW n \in Nat
  PROVE  /\ Getppages(n) \in Frames
         /\ Getppages(n) # 0 => \A f \in Nat : Getppages(n) <= f /\ f < Getppages(n) + n => f \in free
<1>1. Frames \subseteq Nat /\ 0 \in Frames
  BY AddressSpaceAssumption DEF Frames
<1>2. CASE RunsOf(n) = {}
  BY <1>1, <1>2 DEF Getppages
<1>3. CASE RunsOf(n) # {}
  <2>1. RunsOf(n) \in SUBSET Nat
    BY <1>1 DEF RunsOf
  <2>2. First(n) \in RunsOf(n)
    BY <1>3, <2>1, LeastChosen DEF First
  <2>3. First(n) \in Frames /\ First(n) .. First(n) + n - 1 \subseteq free
    BY <2>2 DEF RunsOf
  <2>4. PICK g \in Nat : g = First(n)
    BY <1>1, <2>3
  <2>5. ASSUME NEW f \in Nat, g <= f, f < g + n PROVE f \in free
    <3>1. f \in g .. g + n - 1
      BY <2>4, <2>5
    <3>2. QED
      BY <2>3, <2>4, <3>1
  <2>6. QED
    BY <1>3, <2>3, <2>4, <2>5 DEF Getppages
<1>4. QED
  BY <1>2, <1>3

\* What coremap_allocate writes are counts, and the pages are free no longer.
LEMMA HandOutGives ==
  ASSUME TypeOK, NEW pbase \in Frames, NEW n \in Nat, HandOut(pbase, n)
  PROVE  /\ free' \subseteq free /\ chunk' \in [Frames -> Nat]
         /\ \A f \in Nat : f \in free' => f \in free /\ ~ (pbase <= f /\ f < pbase + n)
<1>1. Frames \subseteq Nat /\ pbase \in Nat
  BY AddressSpaceAssumption DEF Frames
<1>2. free' = free \ (pbase .. pbase + n - 1)
  BY DEF HandOut
<1>3. chunk' \in [Frames -> Nat]
  <2>1. SUFFICES ASSUME NEW f \in Frames
                 PROVE  (IF f \in pbase .. pbase + n - 1 THEN pbase + n - f ELSE chunk[f]) \in Nat
    BY DEF HandOut
  <2>2. chunk[f] \in Nat /\ f \in Nat
    BY <1>1 DEF TypeOK
  <2>3. f \in pbase .. pbase + n - 1 => pbase + n - f \in Nat
    BY <1>1, <2>2
  <2>4. QED
    BY <2>2, <2>3
<1>4. ASSUME NEW f \in Nat, f \in free' PROVE f \in free /\ ~ (pbase <= f /\ f < pbase + n)
  <2>1. f \notin pbase .. pbase + n - 1
    BY <1>2, <1>4
  <2>2. QED
    BY <1>1, <1>2, <1>4, <2>1
<1>5. QED
  BY <1>2, <1>3, <1>4

\* What an executable is made of.
LEMMA ProgramFields ==
  ASSUME NEW e \in Programs
  PROVE  /\ Len(e) \in Nat /\ Len(e) >= 1
         /\ \A k \in 1 .. Len(e) : /\ e[k] \in Header
                                   /\ e[k].p_vaddr \in VPages /\ e[k].p_memsz \in VPages
                                   /\ e[k].p_filesz \in Nat /\ e[k].p_flags \in SUBSET {"R", "W", "X"}
                                   /\ e[k].p_vaddr + e[k].p_memsz - 1 \in VPages
<1>1. e \in Seq(Header) /\ e # <<>> /\ \A k \in DOMAIN e : e[k].p_vaddr + e[k].p_memsz - 1 \in VPages
  BY AddressSpaceAssumption
<1>2. Len(e) \in Nat /\ Len(e) >= 1 /\ DOMAIN e = 1 .. Len(e)
  BY <1>1
<1>3. \A k \in 1 .. Len(e) : e[k] \in Header
  BY <1>1, <1>2
<1>4. 0 .. Top \subseteq Nat
  BY AddressSpaceAssumption
<1>5. QED
  BY <1>1, <1>2, <1>3, <1>4 DEF Header

\* The k-th header to load is one, when there are as many.
LEMMA KthLoaded ==
  ASSUME NEW e, NEW n, NEW k, IsRegion(e, n, k)
  PROVE  \E h \in Loads(e, n) : Rank(e, h) = k /\ KthLoad(e, n, k) = e[h]
BY DEF IsRegion, KthLoad

LEMMA NoPteType == NoPte \in Pte /\ NoPte.as_pbase = 0 /\ NoPte.as_npages = 0
BY AddressSpaceAssumption DEF NoPte, Pte, Frames

LEMMA RegionType ==
  ASSUME NEW e \in Programs, NEW h \in 1 .. Len(e)
  PROVE  Region(e[h]) \in Pte /\ Region(e[h]).as_pbase = 0
<1>1. e[h].p_vaddr \in 0 .. Top /\ e[h].p_memsz \in 0 .. Top /\ e[h].p_flags \in SUBSET {"R", "W", "X"}
  BY ProgramFields, AddressSpaceAssumption DEF VPages
<1>2. Region(e[h]) = [as_vbase |-> e[h].p_vaddr, as_npages |-> e[h].p_memsz, as_pbase |-> 0,
                      temp_privilege |-> e[h].p_flags, final_privilege |-> {}]
  BY DEF Region
<1>3. QED
  BY <1>1, <1>2, AddressSpaceAssumption DEF Pte, Frames

\* What load_elf defines is an address space without a page.
LEMMA RegionsType ==
  ASSUME NEW e \in Programs, NEW n \in 0 .. Len(e)
  PROVE  LET a == Regions(e, n) IN
         /\ a \in Addrspace /\ a.no_of_segments <= Len(a.page_table)
         /\ a.no_of_segments = Len(e) - 1 /\ Len(a.page_table) = Len(e) /\ a.as_stackpbase = 0
         /\ \A k \in 1 .. Len(e) : a.page_table[k].as_pbase = 0
<1> DEFINE t == [k \in 1 .. Len(e) |-> IF k < Len(e) /\ IsRegion(e, n, k) THEN Region(KthLoad(e, n, k)) ELSE NoPte]
<1>1. Len(e) \in Nat /\ Len(e) - 1 \in Nat
  BY ProgramFields
<1>2. Regions(e, n) = [no_of_segments |-> Len(e) - 1, page_table |-> t, as_stackpbase |-> 0]
  BY DEF Regions
<1>3. \A k \in 1 .. Len(e) : t[k] \in Pte /\ t[k].as_pbase = 0
  <2>1. SUFFICES ASSUME NEW k \in 1 .. Len(e) PROVE t[k] \in Pte /\ t[k].as_pbase = 0
    OBVIOUS
  <2>2. CASE k < Len(e) /\ IsRegion(e, n, k)
    <3>1. PICK h \in Loads(e, n) : KthLoad(e, n, k) = e[h]
      BY <2>2, KthLoaded
    <3>2. h \in 1 .. Len(e)
      BY <1>1 DEF Loads
    <3>3. t[k] = Region(e[h])
      BY <2>2, <3>1
    <3>4. QED
      BY <3>2, <3>3, RegionType
  <2>3. CASE ~ (k < Len(e) /\ IsRegion(e, n, k))
    <3>1. t[k] = NoPte
      BY <2>3
    <3>2. QED
      BY <3>1, NoPteType
  <2>4. QED
    BY <2>2, <2>3
<1>4. t \in Seq(Pte) /\ Len(t) = Len(e)
  <2>1. DOMAIN t = 1 .. Len(e) /\ t \in [1 .. Len(e) -> Pte]
    BY <1>3
  <2> HIDE DEF t
  <2>2. QED
    BY <1>1, <2>1
<1>5. 0 \in Frames
  BY AddressSpaceAssumption DEF Frames
<1> HIDE DEF t
<1>6. Regions(e, n) \in Addrspace
  BY <1>1, <1>2, <1>4, <1>5 DEF Addrspace
<1>7. QED
  BY <1>1, <1>2, <1>3, <1>4, <1>6

-----------------------------------------------------------------------------
(* What a step must do to keep the invariant                               *)

LEMMA CpuKnown ==
  ASSUME NEW p \in Procs, Runs(p)
  PROVE  CpuOf(p) \in Cpus /\ running[CpuOf(p)] = p
BY DEF Runs, CpuOf

\* A step of p on the cpu c leaves alone what is not p's.
OthersKept(p, c) ==
  /\ running' = running
  /\ \A d \in Cpus : d # c => tlb'[d] = tlb[d]
  /\ \A q \in Procs : q # p =>
       /\ as'[q] = as[q] /\ pc'[q] = pc[q] /\ program'[q] = program[q] /\ call'[q] = call[q]
       /\ i'[q] = i[q] /\ need'[q] = need[q] /\ found'[q] = found[q] /\ image'[q] = image[q]

\* The pages it takes are free ones.
TakesFree(p) ==
  /\ free' \subseteq free /\ UNCHANGED <<kblocks, strayed>>
  /\ ~ strayed => \A f \in Nat : Holds(as'[p], f) => /\ Holds(as[p], f) \/ f \in free
                                                     /\ f \notin free'

LEMMA StepInv ==
  ASSUME IInv, NEW p \in Procs, NEW c \in Cpus, running[c] = p, OthersKept(p, c),
         TypeOK', Local(p)', OnCpu(c, p)', Distinct(c)', TakesFree(p)
  PROVE  IInv'
<1> USE DEF IInv
<1>1. OneCpu'
  BY DEF OneCpu, OthersKept
<1>2. ASSUME NEW q \in Procs PROVE Local(q)'
  <2>1. CASE q = p
    BY <2>1
  <2>2. CASE q # p
    <3>1. Local(q)
      OBVIOUS
    <3>2. /\ as'[q] = as[q] /\ pc'[q] = pc[q] /\ program'[q] = program[q] /\ call'[q] = call[q]
          /\ i'[q] = i[q] /\ need'[q] = need[q] /\ found'[q] = found[q] /\ image'[q] = image[q]
      BY <2>2 DEF OthersKept
    <3>3. Staged(q)'
      BY <3>1, <3>2 DEF Local, Staged, Loaded
    <3>4. Built(q)'
      BY <3>1, <3>2 DEF Local, Built, Loaded
    <3>5. QED
      BY <3>3, <3>4 DEF Local
  <2>3. QED
    BY <2>1, <2>2
<1>3. ASSUME NEW d \in Cpus, NEW q \in Procs PROVE OnCpu(d, q)'
  <2>1. CASE d = c /\ q = p
    BY <2>1
  <2>2. CASE running[d] # q
    BY <2>2 DEF OnCpu, OthersKept
  <2>3. CASE running[d] = q /\ ~ (d = c /\ q = p)
    <3>1. d # c /\ q # p
      BY <2>3 DEF OneCpu
    <3>2. OnCpu(d, q)
      OBVIOUS
    <3>3. /\ tlb'[d] = tlb[d] /\ running'[d] = running[d]
          /\ as'[q] = as[q] /\ pc'[q] = pc[q] /\ found'[q] = found[q] /\ image'[q] = image[q]
      BY <3>1 DEF OthersKept
    <3>4. Active(q)' <=> Active(q)
      BY <3>3 DEF Active
    <3>5. QED
      BY <3>2, <3>3, <3>4 DEF OnCpu
  <2>4. QED
    BY <2>1, <2>2, <2>3
<1>4. ASSUME NEW d \in Cpus PROVE Distinct(d)'
  <2>1. Distinct(d)
    OBVIOUS
  <2>2. QED
    BY <2>1 DEF Distinct, OthersKept
<1>5. FreeAbove'
  BY DEF FreeAbove, TakesFree
<1>6. ASSUME NEW q \in Procs PROVE Owned(q)'
  <2>1. SUFFICES ASSUME ~ strayed, NEW f \in Nat, Holds(as'[q], f) PROVE f > used /\ f \notin free'
    BY DEF Owned, TakesFree
  <2>2. CASE q # p
    BY <2>1, <2>2 DEF Owned, OthersKept, TakesFree
  <2>3. CASE q = p
    BY <2>1, <2>3 DEF Owned, FreeAbove, TakesFree
  <2>4. QED
    BY <2>2, <2>3
<1>7. Apart'
  <2>1. SUFFICES ASSUME ~ strayed, NEW q \in Procs, NEW r \in Procs, NEW f \in Nat,
                        Holds(as'[q], f), Holds(as'[r], f)
                 PROVE  q = r
    BY DEF Apart, TakesFree
  <2>2. ASSUME NEW x \in Procs, x # p, Holds(as'[x], f), Holds(as'[p], f) PROVE FALSE
    <3>1. Holds(as[x], f) /\ f \notin free
      BY <2>1, <2>2 DEF OthersKept, Owned
    <3>2. Holds(as[p], f)
      BY <2>1, <2>2, <3>1 DEF TakesFree
    <3>3. QED
      BY <2>1, <2>2, <3>1, <3>2 DEF Apart
  <2>3. CASE q # p /\ r # p
    BY <2>1, <2>3 DEF Apart, OthersKept
  <2>4. QED
    BY <2>1, <2>2, <2>3
<1>8. ASSUME NEW b \in kblocks' PROVE KernelOwns(b)'
  <2>1. KernelOwns(b) /\ kblocks' = kblocks
    BY <1>8 DEF TakesFree
  <2>2. SUFFICES ASSUME ~ strayed, NEW f \in PagesOf(b)
                 PROVE  /\ f \notin free'
                        /\ \A q \in Procs : ~ Holds(as'[q], f)
                        /\ \A d \in kblocks : f \in PagesOf(d) => d = b
    BY <2>1 DEF KernelOwns, TakesFree
  <2>3. f \notin free /\ (\A q \in Procs : ~ Holds(as[q], f)) /\ f \in Nat
    <3>1. f \in Nat
      BY AddressSpaceAssumption DEF PagesOf, Frames
    <3>2. QED
      BY <2>1, <2>2, <3>1 DEF KernelOwns
  <2>4. ASSUME NEW q \in Procs PROVE ~ Holds(as'[q], f)
    BY <2>2, <2>3 DEF OthersKept, TakesFree
  <2>5. QED
    BY <2>1, <2>2, <2>3, <2>4 DEF KernelOwns, TakesFree
<1>9. QED
  BY <1>1, <1>2, <1>3, <1>4, <1>5, <1>6, <1>7, <1>8

LEMMA InitInv == Init => IInv
<1> SUFFICES ASSUME Init PROVE IInv
  OBVIOUS
<1>1. TypeOK
  <2>1. used \in Nat /\ Memory \in Nat
    BY AddressSpaceAssumption DEF Frames
  <2>2. free \subseteq Frames
    BY <2>1 DEF Init, Frames
  <2>3. need \in [Procs -> Seq(Access)]
    BY DEF Init
  <2>4. execs \in 0 .. MaxExecs
    BY AddressSpaceAssumption DEF Init
  <2>5. chunk \in [Frames -> Nat] /\ kblocks \subseteq Block /\ kallocs \in 0 .. MaxKernel
    BY AddressSpaceAssumption DEF Init
  <2>6. QED
    BY <2>2, <2>3, <2>4, <2>5 DEF Init, TypeOK
<1>2. OneCpu
  BY AddressSpaceAssumption DEF Init, OneCpu
<1>3. \A p \in Procs : Local(p)
  BY DEF Init, Local, Staged, Built, Loaded
<1>4. \A c \in Cpus, p \in Procs : OnCpu(c, p)
  BY AddressSpaceAssumption DEF Init, OnCpu
<1>5. \A c \in Cpus : Distinct(c)
  BY DEF Init, Distinct
<1>6. FreeAbove
  BY AddressSpaceAssumption DEF Init, FreeAbove, Frames
<1>7. (\A p \in Procs : Owned(p)) /\ Apart /\ \A b \in kblocks : KernelOwns(b)
  BY DEF Init, Owned, Apart, Holds
<1>8. QED
  BY <1>1, <1>2, <1>3, <1>4, <1>5, <1>6, <1>7 DEF IInv

\* A step that leaves address spaces, memory and TLBs alone.
LEMMA QuietInv ==
  ASSUME IInv, NEW p \in Procs, NEW c \in Cpus, running[c] = p, UNCHANGED <<as, pool, tlb>>,
         OthersKept(p, c), TypeOK', Local(p)', OnCpu(c, p)'
  PROVE  IInv'
<1>1. Distinct(c)'
  BY DEF IInv, Distinct
<1>2. TakesFree(p)
  BY DEF IInv, TakesFree, Owned
<1>3. QED
  BY <1>1, <1>2, StepInv

\* What the invariant says of the process that takes a step, and of its cpu.
LEMMA StepKnows ==
  ASSUME IInv, NEW p \in Procs, Runs(p)
  PROVE  \E c \in Cpus :
           /\ c = CpuOf(p) /\ running[c] = p
           /\ TypeOK /\ Local(p) /\ OnCpu(c, p) /\ Distinct(c) /\ Owned(p) /\ FreeAbove
BY CpuKnown DEF IInv

\* The access that vm_fault is called for is one that the thread waits for.
LEMMA FaultingType ==
  ASSUME TypeOK, NEW p \in Procs, need[p] # <<>>, Missing(p) # {}
  PROVE  Faulting(p) \in Access
<1>1. need[p] \in Seq(Access)
  BY DEF TypeOK
<1>2. Missing(p) \subseteq DOMAIN need[p] /\ Missing(p) \in SUBSET Nat
  BY <1>1 DEF Missing, Pending
<1>3. (CHOOSE k \in Missing(p) : \A l \in Missing(p) : k <= l) \in DOMAIN need[p]
  BY <1>2, LeastChosen
<1>4. QED
  BY <1>1, <1>3 DEF Faulting

-----------------------------------------------------------------------------
(* Accesses                                                                *)

LEMMA ProceedInv == ASSUME IInv, NEW p \in Procs, Proceed(p) PROVE IInv'
<1>1. /\ Runs(p) /\ need[p] # <<>> /\ found[p] = NULL
      /\ need' = [need EXCEPT ![p] = IF pc[p] = "user" THEN <<>> ELSE Tail(@)]
      /\ UNCHANGED <<as, pool, tlb, running, pc, program, call, i, found, image, execs, panicked>>
  BY DEF Proceed, Accesses
<1>2. PICK c \in Cpus : c = CpuOf(p) /\ running[c] = p /\ TypeOK /\ Local(p) /\ OnCpu(c, p)
  BY <1>1, StepKnows
<1>3. PICK n \in Seq(Access) : need' = [need EXCEPT ![p] = n]
  <2>1. need[p] \in Seq(Access) /\ need \in [Procs -> Seq(Access)]
    BY <1>2 DEF TypeOK
  <2>2. Tail(need[p]) \in Seq(Access) /\ <<>> \in Seq(Access)
    BY <1>1, <2>1
  <2>3. QED
    BY <1>1, <2>2
<1>4. TypeOK'
  <2>1. need' \in [Procs -> Seq(Access)]
    BY <1>2, <1>3 DEF TypeOK
  <2>2. QED
    BY <1>1, <1>2, <2>1 DEF TypeOK
<1>5. OthersKept(p, c)
  BY <1>1, <1>2, <1>3 DEF OthersKept, TypeOK
<1>6. Local(p)'
  BY <1>1, <1>2, <1>3 DEF Local, Staged, Built, Loaded, TypeOK
<1>7. OnCpu(c, p)'
  BY <1>1, <1>2 DEF OnCpu, Active
<1>8. QED
  BY <1>1, <1>2, <1>4, <1>5, <1>6, <1>7, QuietInv

LEMMA FaultFailsInv == ASSUME IInv, NEW p \in Procs, FaultFails(p) PROVE IInv'
<1>1. /\ Runs(p) /\ need[p] # <<>> /\ found[p] = NULL
      /\ need' = [need EXCEPT ![p] = <<>>]
      /\ UNCHANGED <<as, pool, tlb, running, program, call, found, image, execs, panicked>>
  BY DEF FaultFails, Accesses
<1>2. PICK c \in Cpus : c = CpuOf(p) /\ running[c] = p /\ TypeOK /\ Local(p) /\ OnCpu(c, p)
  BY <1>1, StepKnows
<1>3. PICK l \in {"dead", "user"}, n \in Nat :
        /\ pc' = [pc EXCEPT ![p] = l] /\ i' = [i EXCEPT ![p] = n]
        /\ l = "user" => call[p] = "execv"
  <2>1. CASE pc[p] = "user"
    <3>1. i' = [i EXCEPT ![p] = i[p]] /\ i[p] \in Nat
      BY <1>2, <2>1 DEF FaultFails, TypeOK
    <3>2. QED
      BY <2>1, <3>1 DEF FaultFails, Goto
  <2>2. CASE pc[p] # "user"
    <3>1. Fail(p) /\ call[p] \in {"runprogram", "execv"}
      BY <1>2, <2>2 DEF FaultFails, TypeOK
    <3>2. QED
      BY <3>1 DEF Fail, Goto
  <2>3. QED
    BY <2>1, <2>2
<1>4. TypeOK'
  <2>1. need' \in [Procs -> Seq(Access)]
    <3>1. <<>> \in Seq(Access) /\ need \in [Procs -> Seq(Access)]
      BY <1>2 DEF TypeOK
    <3>2. QED
      BY <1>1, <3>1
  <2>2. pc' \in [Procs -> {"new", "activate", "define", "prepare", "load", "args", "enter", "user", "dead"}]
        /\ i' \in [Procs -> Nat]
    BY <1>2, <1>3 DEF TypeOK
  <2>3. QED
    BY <1>1, <1>2, <2>1, <2>2 DEF TypeOK
<1>5. OthersKept(p, c)
  BY <1>1, <1>2, <1>3 DEF OthersKept, TypeOK
<1>6. Local(p)'
  BY <1>1, <1>2, <1>3 DEF Local, Staged, Built, Loaded, TypeOK
<1>7. OnCpu(c, p)'
  <2>1. pc'[p] \in {"dead", "user"} /\ Active(p)
    BY <1>1, <1>2, <1>3 DEF TypeOK, Local, Staged, Active
  <2>2. QED
    BY <1>1, <1>2, <2>1 DEF OnCpu, Active
<1>8. QED
  BY <1>1, <1>2, <1>4, <1>5, <1>6, <1>7, QuietInv

LEMMA FaultLookupInv == ASSUME IInv, NEW p \in Procs, FaultLookup(p) PROVE IInv'
<1>1. /\ Runs(p) /\ need[p] # <<>> /\ found[p] = NULL /\ Missing(p) # {} /\ as[p] # NULL
      /\ ~ Translates(CpuOf(p), Faulting(p))
      /\ UNCHANGED <<as, pool, tlb, running, pc, program, call, i, need, image, execs>>
  BY DEF FaultLookup, Accesses
<1>2. PICK c \in Cpus : c = CpuOf(p) /\ running[c] = p /\ TypeOK /\ Local(p) /\ OnCpu(c, p)
  BY <1>1, StepKnows
<1>3. PICK v \in VPages : v = Faulting(p).page
  BY <1>1, <1>2, FaultingType DEF Access
<1>4. as[p] # NULL /\ as[p] \in Addrspace /\ as[p].no_of_segments <= Len(as[p].page_table)
  BY <1>1, <1>2 DEF TypeOK
<1>5. PICK f \in Entry \cup {NULL} :
        found' = [found EXCEPT ![p] = f] /\ (f # NULL => f.page = v /\ Exact(as[p], f))
  <2>1. CASE Defined(as[p], v) /\ found' = [found EXCEPT ![p] = Translation(as[p], v)]
    <3>1. Translation(as[p], v) \in Entry /\ Translation(as[p], v).page = v
      BY <1>4, TranslationType
    <3>2. QED
      BY <2>1, <3>1 DEF Exact
  <2>2. CASE /\ ~ Defined(as[p], v)
             /\ \E g \in Garbage, d \in Writable(as[p]) :
                  found' = [found EXCEPT ![p] = [page |-> v, frame |-> g, dirty |-> d]]
    <3>1. PICK g \in Garbage, d \in Writable(as[p]) : found' = [found EXCEPT ![p] = [page |-> v, frame |-> g, dirty |-> d]]
      BY <2>2
    <3>2. g \in Nat /\ d \in BOOLEAN
      <4>1. g \in Nat
        BY AddressSpaceAssumption DEF Frames
      <4>2. Writable(as[p]) \subseteq BOOLEAN
        BY DEF Writable
      <4>3. QED
        BY <4>1, <4>2
    <3>3. PICK e \in Entry : e = [page |-> v, frame |-> g, dirty |-> d]
      BY <3>2 DEF Entry
    <3>4. e.page = v /\ found' = [found EXCEPT ![p] = e]
      BY <3>1, <3>3
    <3>5. QED
      BY <2>2, <3>4 DEF Exact
  <2>3. CASE UNCHANGED found
    BY <1>1, <1>2, <2>3 DEF TypeOK
  <2>4. QED
    BY <1>3, <2>1, <2>2, <2>3 DEF FaultLookup
<1>6. panicked' \in BOOLEAN
  BY <1>2 DEF FaultLookup, TypeOK
<1>7. TypeOK'
  BY <1>1, <1>2, <1>5, <1>6 DEF TypeOK
<1>8. OthersKept(p, c)
  BY <1>1, <1>2, <1>5 DEF OthersKept, TypeOK
<1>9. found'[p] = f
  BY <1>2, <1>5 DEF TypeOK
<1>10. Local(p)'
  <2>1. Staged(p)'
    BY <1>1, <1>2, <1>5, <1>9 DEF Local, Staged, Loaded
  <2>2. Built(p)'
    BY <1>1, <1>2 DEF Local, Built, Loaded
  <2>3. QED
    BY <2>1, <2>2 DEF Local
<1>11. OnCpu(c, p)'
  <2>1. \A k \in 1 .. NUM_TLB : tlb[c][k] # NULL => tlb[c][k].page # v
    BY <1>1, <1>2, <1>3 DEF Translates
  <2>2. QED
    BY <1>1, <1>2, <1>5, <1>9, <2>1 DEF OnCpu, Active
<1>12. QED
  BY <1>1, <1>2, <1>7, <1>8, <1>10, <1>11, QuietInv

\* An exact translation protects what is read-only.
LEMMA ExactEntry ==
  ASSUME NEW a, NEW e, Exact(a, e)
  PROVE  SameFrame(a, e) /\ Protects(a, e)
<1>1. SameFrame(a, e)
  BY DEF Exact, SameFrame
<1>2. Protects(a, e)
  <2>1. SUFFICES ASSUME Holding(a, e.page) # {}, ReadOnly(Segment(a, e.page).final_privilege) PROVE ~ e.dirty
    BY DEF Protects
  <2>2. e = Translation(a, e.page)
    BY <2>1 DEF Exact, Defined
  <2>3. PICK v : v = e.page
    OBVIOUS
  <2>4. Translation(a, v).dirty = ~ ReadOnly(Segment(a, v).final_privilege)
    BY <2>1, <2>3 DEF Translation
  <2>5. QED
    BY <2>1, <2>2, <2>3, <2>4
<1>3. QED
  BY <1>1, <1>2

LEMMA FaultFillInv == ASSUME IInv, NEW p \in Procs, FaultFill(p) PROVE IInv'
<1>1. /\ Runs(p) /\ found[p] # NULL
      /\ found' = [found EXCEPT ![p] = NULL]
      /\ UNCHANGED <<as, pool, running, pc, program, call, i, need, image, execs, panicked>>
  BY DEF FaultFill
<1>2. PICK c \in Cpus : /\ c = CpuOf(p) /\ running[c] = p
                        /\ TypeOK /\ Local(p) /\ OnCpu(c, p) /\ Distinct(c) /\ Owned(p)
  BY <1>1, StepKnows
<1>3. PICK f \in Entry : f = found[p] /\ Exact(as[p], f)
  BY <1>1, <1>2 DEF TypeOK, Local, Staged
<1>4. PICK k \in 1 .. NUM_TLB, x \in {f, NULL} : tlb' = [tlb EXCEPT ![c][k] = x]
  <2>1. CASE Empty(c) = {}
    <3>1. NUM_TLB \in 1 .. NUM_TLB
      BY AddressSpaceAssumption
    <3>2. QED
      BY <1>2, <2>1, <3>1 DEF FaultFill
  <2>2. CASE Empty(c) # {}
    <3>1. PICK k \in Empty(c) : k = CHOOSE m \in Empty(c) : \A l \in Empty(c) : m <= l
      <4>1. Empty(c) \in SUBSET Nat
        BY DEF Empty
      <4>2. QED
        BY <2>2, <4>1, LeastChosen
    <3>2. k \in 1 .. NUM_TLB
      BY DEF Empty
    <3>3. QED
      BY <1>2, <1>3, <2>2, <3>1, <3>2 DEF FaultFill
  <2>3. QED
    BY <2>1, <2>2
<1>5. tlb[c] \in [1 .. NUM_TLB -> Entry \cup {NULL}]
  BY <1>2 DEF TypeOK
<1>6. /\ tlb'[c] \in [1 .. NUM_TLB -> Entry \cup {NULL}]
      /\ \A j \in 1 .. NUM_TLB : tlb'[c][j] = IF j = k THEN x ELSE tlb[c][j]
      /\ \A d \in Cpus : d # c => tlb'[d] = tlb[d]
  BY <1>2, <1>4, <1>5 DEF TypeOK
<1>7. TypeOK'
  <2>1. tlb' \in [Cpus -> [1 .. NUM_TLB -> Entry \cup {NULL}]]
    BY <1>2, <1>4, <1>6 DEF TypeOK
  <2>2. QED
    BY <1>1, <1>2, <2>1 DEF TypeOK
<1>8. OthersKept(p, c)
  BY <1>1, <1>2, <1>6 DEF OthersKept, TypeOK
<1>9. found'[p] = NULL
  BY <1>1, <1>2 DEF TypeOK
<1>10. Local(p)'
  BY <1>1, <1>2, <1>9 DEF Local, Staged, Built, Loaded
<1>11. OnCpu(c, p)'
  <2>1. pc'[p] \notin {"define", "prepare"} /\ UNCHANGED <<as, image, pc>>
    BY <1>1, <1>2 DEF Local, Staged
  <2>2. SameFrame(as[p], f) /\ Protects(as[p], f)
    BY <1>3, ExactEntry
  <2>3. \A j \in 1 .. NUM_TLB : tlb'[c][j] = f \/ tlb'[c][j] = NULL \/ tlb'[c][j] = tlb[c][j]
    BY <1>6
  <2>4. QED
    BY <1>2, <1>9, <2>1, <2>2, <2>3 DEF OnCpu, Active
<1>12. Distinct(c)'
  <2>1. \A j \in 1 .. NUM_TLB : tlb[c][j] # NULL => tlb[c][j].page # f.page
    BY <1>1, <1>2, <1>3 DEF OnCpu, Local, Staged
  <2>2. \A j \in 1 .. NUM_TLB : \/ tlb'[c][j] = NULL
                                \/ j # k /\ tlb'[c][j] = tlb[c][j]
                                \/ j = k /\ tlb'[c][j] = f
    BY <1>6
  <2>3. QED
    BY <1>2, <2>1, <2>2 DEF Distinct
<1>13. TakesFree(p)
  BY <1>1, <1>2 DEF TakesFree, Owned
<1>14. QED
  BY <1>2, <1>7, <1>8, <1>10, <1>11, <1>12, <1>13, StepInv

-----------------------------------------------------------------------------
(* Steps of a program that change its place in it, and what it waits for   *)

LEMMA MoveInv ==
  ASSUME IInv, NEW p \in Procs, Runs(p), found[p] = NULL,
         NEW l \in {"args", "enter", "load", "user", "dead"}, NEW n \in Nat, NEW m \in Seq(Access),
         pc' = [pc EXCEPT ![p] = l], i' = [i EXCEPT ![p] = n], need' = [need EXCEPT ![p] = m],
         UNCHANGED <<as, pool, tlb, running, program, call, found, image, panicked>>,
         execs' \in 0 .. MaxExecs, l = "dead" \/ Active(p), Local(p)'
  PROVE  IInv'
<1>1. PICK c \in Cpus : c = CpuOf(p) /\ running[c] = p /\ TypeOK /\ OnCpu(c, p)
  BY StepKnows
<1>2. TypeOK'
  <2>1. need' \in [Procs -> Seq(Access)]
    BY <1>1 DEF TypeOK
  <2>2. pc' \in [Procs -> {"new", "activate", "define", "prepare", "load", "args", "enter", "user", "dead"}]
        /\ i' \in [Procs -> Nat]
    BY <1>1 DEF TypeOK
  <2>3. QED
    BY <1>1, <2>1, <2>2 DEF TypeOK
<1>3. OthersKept(p, c)
  BY <1>1 DEF OthersKept, TypeOK
<1>4. OnCpu(c, p)'
  <2>1. pc'[p] = l
    BY <1>1 DEF TypeOK
  <2>2. QED
    BY <1>1, <2>1 DEF OnCpu, Active
<1>5. QED
  BY <1>1, <1>2, <1>3, <1>4, QuietInv

\* A process between two accesses, and the variables of a step that change one
\* of its fields, or none.
LEMMA AtKnows ==
  ASSUME IInv, NEW p \in Procs, NEW label, At(p, label)
  PROVE  /\ Runs(p) /\ pc[p] = label /\ need[p] = <<>> /\ found[p] = NULL
         /\ TypeOK /\ Local(p)
         /\ i[p] \in Nat /\ i = [i EXCEPT ![p] = i[p]]
         /\ <<>> \in Seq(Access) /\ need = [need EXCEPT ![p] = <<>>]
<1>1. Runs(p) /\ pc[p] = label /\ need[p] = <<>>
  BY DEF At
<1>2. TypeOK /\ Local(p)
  BY <1>1, StepKnows
<1>3. need \in [Procs -> Seq(Access)] /\ i \in [Procs -> Nat]
  BY <1>2 DEF TypeOK
<1>4. i[p] \in Nat /\ i = [i EXCEPT ![p] = i[p]] /\ need = [need EXCEPT ![p] = <<>>]
  BY <1>1, <1>3
<1>5. <<>> \in Seq(Access)
  OBVIOUS
<1>6. found[p] = NULL
  BY <1>1, <1>2 DEF Local, Staged
<1>7. QED
  BY <1>1, <1>2, <1>4, <1>5, <1>6

\* Where a load that fails leaves the process.
LEMMA FailGoes ==
  ASSUME TypeOK, NEW p \in Procs, Fail(p)
  PROVE  \E l \in {"user", "dead"} :
           /\ pc' = [pc EXCEPT ![p] = l] /\ i' = [i EXCEPT ![p] = 0]
           /\ l = "user" => call[p] = "execv"
<1>1. call[p] \in {"runprogram", "execv"}
  BY DEF TypeOK
<1>2. QED
  BY <1>1 DEF Fail, Goto

LEMMA RunProgramFailsInv == ASSUME IInv, NEW p \in Procs, RunProgramFails(p) PROVE IInv'
<1>1. /\ At(p, "new") /\ pc' = [pc EXCEPT ![p] = "dead"]
      /\ UNCHANGED <<as, pool, tlb, running, program, call, i, need, found, image, execs, panicked>>
  BY DEF RunProgramFails, Goto
<1>2. /\ Runs(p) /\ pc[p] = "new" /\ need[p] = <<>> /\ found[p] = NULL /\ TypeOK /\ Local(p)
      /\ i[p] \in Nat /\ i' = [i EXCEPT ![p] = i[p]]
      /\ <<>> \in Seq(Access) /\ need' = [need EXCEPT ![p] = <<>>]
  BY <1>1, AtKnows
<1>3. Local(p)'
  <2>1. pc'[p] = "dead"
    BY <1>1, <1>2 DEF TypeOK
  <2>2. QED
    BY <1>1, <1>2, <2>1 DEF Local, Staged, Built, Loaded
<1>4. execs' \in 0 .. MaxExecs
  BY <1>1, <1>2 DEF TypeOK
<1>5. QED
  BY <1>1, <1>2, <1>3, <1>4, MoveInv

LEMMA LoadFailsInv == ASSUME IInv, NEW p \in Procs, LoadFails(p) PROVE IInv'
<1>1. /\ At(p, "load") /\ Fail(p)
      /\ UNCHANGED <<as, pool, tlb, running, program, call, need, found, image, execs, panicked>>
  BY DEF LoadFails
<1>2. /\ Runs(p) /\ pc[p] = "load" /\ need[p] = <<>> /\ found[p] = NULL /\ TypeOK /\ Local(p)
      /\ <<>> \in Seq(Access) /\ need' = [need EXCEPT ![p] = <<>>]
  BY <1>1, AtKnows
<1>3. PICK l \in {"user", "dead"} : /\ pc' = [pc EXCEPT ![p] = l] /\ i' = [i EXCEPT ![p] = 0]
                                    /\ l = "user" => call[p] = "execv"
  BY <1>1, <1>2, FailGoes
<1>4. Local(p)'
  <2>1. pc'[p] = l
    BY <1>2, <1>3 DEF TypeOK
  <2>2. QED
    BY <1>1, <1>2, <1>3, <2>1 DEF Local, Staged, Built, Loaded
<1>5. execs' \in 0 .. MaxExecs /\ Active(p)
  BY <1>1, <1>2 DEF TypeOK, Active
<1>6. QED
  BY <1>1, <1>2, <1>3, <1>4, <1>5, MoveInv

LEMMA LoadSegmentInv == ASSUME IInv, NEW p \in Procs, LoadSegment(p) PROVE IInv'
<1>1. /\ At(p, "load") /\ i[p] <= Len(program[p])
      /\ i' = [i EXCEPT ![p] = i[p] + 1]
      /\ UNCHANGED <<as, pool, tlb, running, pc, program, call, found, image, execs, panicked>>
  BY DEF LoadSegment, SetI
<1>2. /\ Runs(p) /\ pc[p] = "load" /\ need[p] = <<>> /\ found[p] = NULL /\ TypeOK /\ Local(p)
      /\ i[p] \in Nat /\ <<>> \in Seq(Access)
  BY <1>1, AtKnows
<1>3. PICK e \in Programs : e = program[p]
  BY <1>2 DEF Local, Staged, Built
<1>4. PICK ph \in Header : ph = e[i[p]] /\ ph.p_vaddr \in VPages /\ ph.p_memsz \in VPages
                           /\ ph.p_filesz \in Nat /\ ph.p_vaddr + ph.p_memsz - 1 \in VPages
  <2>1. i[p] \in 1 .. Len(e)
    BY <1>1, <1>2, <1>3, ProgramFields DEF Local, Built
  <2>2. QED
    BY <2>1, ProgramFields
<1>5. [k \in 1 .. Copied(ph) |-> [page |-> ph.p_vaddr + k - 1, write |-> TRUE]] \in Seq(Access)
  <2>1. ph.p_vaddr \in Nat /\ ph.p_vaddr >= 1 /\ ph.p_memsz \in Nat /\ Top \in Nat
        /\ ph.p_vaddr + ph.p_memsz - 1 <= Top
    BY <1>4, AddressSpaceAssumption DEF VPages
  <2>2. PICK n \in Nat : n = Copied(ph) /\ n <= ph.p_memsz
    BY <1>4, <2>1 DEF Copied
  <2>3. ASSUME NEW k \in 1 .. n PROVE [page |-> ph.p_vaddr + k - 1, write |-> TRUE] \in Access
    <3>1. ph.p_vaddr + k - 1 \in VPages
      BY <2>1, <2>2 DEF VPages
    <3>2. QED
      BY <3>1 DEF Access
  <2>4. QED
    BY <2>2, <2>3
<1>6. PICK m \in Seq(Access) : need' = [need EXCEPT ![p] = m]
  BY <1>2, <1>3, <1>4, <1>5 DEF LoadSegment
<1>7. pc' = [pc EXCEPT ![p] = "load"]
  BY <1>1, <1>2 DEF TypeOK
<1>8. Local(p)'
  <2>1. i'[p] = i[p] + 1
    BY <1>1, <1>2 DEF TypeOK
  <2>2. i'[p] # 0
    BY <1>2, <2>1
  <2>3. Staged(p)'
    BY <1>1, <1>2 DEF Local, Staged, Loaded
  <2>4. Built(p)'
    BY <1>1, <1>2, <2>2 DEF Local, Built, Loaded
  <2>5. QED
    BY <2>3, <2>4 DEF Local
<1>9. execs' \in 0 .. MaxExecs /\ Active(p) /\ i[p] + 1 \in Nat
  BY <1>1, <1>2 DEF TypeOK, Active
<1>10. QED
  BY <1>1, <1>2, <1>6, <1>7, <1>8, <1>9, MoveInv

LEMMA CopyArgsInv == ASSUME IInv, NEW p \in Procs, CopyArgs(p) PROVE IInv'
<1>1. /\ At(p, "args") /\ pc' = [pc EXCEPT ![p] = "enter"]
      /\ need' = [need EXCEPT ![p] = <<[page |-> Stack, write |-> TRUE]>>]
      /\ UNCHANGED <<as, pool, tlb, running, program, call, i, found, image, execs, panicked>>
  BY DEF CopyArgs, Goto
<1>2. /\ Runs(p) /\ pc[p] = "args" /\ found[p] = NULL /\ TypeOK /\ Local(p)
      /\ i[p] \in Nat /\ i' = [i EXCEPT ![p] = i[p]]
  BY <1>1, AtKnows
<1>3. <<[page |-> Stack, write |-> TRUE]>> \in Seq(Access)
  <2>1. [page |-> Stack, write |-> TRUE] \in Access
    BY AddressSpaceAssumption DEF Access, Stack, VPages
  <2>2. QED
    BY <2>1
<1>4. Local(p)'
  <2>1. pc'[p] = "enter"
    BY <1>1, <1>2 DEF TypeOK
  <2>2. QED
    BY <1>1, <1>2, <2>1 DEF Local, Staged, Built, Loaded
<1>5. execs' \in 0 .. MaxExecs /\ Active(p)
  BY <1>1, <1>2 DEF TypeOK, Active
<1>6. QED
  BY <1>1, <1>2, <1>3, <1>4, <1>5, MoveInv

LEMMA EnterNewProcessInv == ASSUME IInv, NEW p \in Procs, EnterNewProcess(p) PROVE IInv'
<1>1. /\ At(p, "enter") /\ pc' = [pc EXCEPT ![p] = "user"]
      /\ UNCHANGED <<as, pool, tlb, running, program, call, i, need, found, image, execs, panicked>>
  BY DEF EnterNewProcess, Goto
<1>2. /\ Runs(p) /\ pc[p] = "enter" /\ need[p] = <<>> /\ found[p] = NULL /\ TypeOK /\ Local(p)
      /\ i[p] \in Nat /\ i' = [i EXCEPT ![p] = i[p]]
      /\ <<>> \in Seq(Access) /\ need' = [need EXCEPT ![p] = <<>>]
  BY <1>1, AtKnows
<1>3. Local(p)'
  <2>1. pc'[p] = "user"
    BY <1>1, <1>2 DEF TypeOK
  <2>2. QED
    BY <1>1, <1>2, <2>1 DEF Local, Staged, Built, Loaded
<1>4. execs' \in 0 .. MaxExecs /\ Active(p)
  BY <1>1, <1>2 DEF TypeOK, Active
<1>5. QED
  BY <1>1, <1>2, <1>3, <1>4, MoveInv

LEMMA ExecuteInv == ASSUME IInv, NEW p \in Procs, Execute(p) PROVE IInv'
<1>1. PICK m \in Instructions :
        /\ At(p, "user") /\ need' = [need EXCEPT ![p] = m]
        /\ UNCHANGED <<as, pool, tlb, running, pc, program, call, i, found, image, execs, panicked>>
  BY DEF Execute
<1>2. /\ Runs(p) /\ pc[p] = "user" /\ found[p] = NULL /\ TypeOK /\ Local(p)
      /\ i[p] \in Nat /\ i' = [i EXCEPT ![p] = i[p]]
  BY <1>1, AtKnows
<1>3. m \in Seq(Access)
  BY AddressSpaceAssumption
<1>4. pc' = [pc EXCEPT ![p] = "user"]
  BY <1>1, <1>2 DEF TypeOK
<1>5. Local(p)'
  BY <1>1, <1>2 DEF Local, Staged, Built, Loaded
<1>6. execs' \in 0 .. MaxExecs /\ Active(p)
  BY <1>1, <1>2 DEF TypeOK, Active
<1>7. QED
  BY <1>1, <1>2, <1>3, <1>4, <1>5, <1>6, MoveInv

LEMMA ExitInv == ASSUME IInv, NEW p \in Procs, Exit(p) PROVE IInv'
<1>1. /\ At(p, "user") /\ pc' = [pc EXCEPT ![p] = "dead"]
      /\ UNCHANGED <<as, pool, tlb, running, program, call, i, need, found, image, execs, panicked>>
  BY DEF Exit, Goto
<1>2. /\ Runs(p) /\ pc[p] = "user" /\ need[p] = <<>> /\ found[p] = NULL /\ TypeOK /\ Local(p)
      /\ i[p] \in Nat /\ i' = [i EXCEPT ![p] = i[p]]
      /\ <<>> \in Seq(Access) /\ need' = [need EXCEPT ![p] = <<>>]
  BY <1>1, AtKnows
<1>3. Local(p)'
  <2>1. pc'[p] = "dead"
    BY <1>1, <1>2 DEF TypeOK
  <2>2. QED
    BY <1>1, <1>2, <2>1 DEF Local, Staged, Built, Loaded
<1>4. execs' \in 0 .. MaxExecs
  BY <1>1, <1>2 DEF TypeOK
<1>5. QED
  BY <1>1, <1>2, <1>3, <1>4, MoveInv

-----------------------------------------------------------------------------
(* Steps that make or change an address space                              *)

\* A step of p that gives it the address space a, and sets its other fields.
Reshapes(p, a, l, n, e, which, im) ==
  /\ a \in Addrspace \cup {NULL} /\ (a # NULL => a.no_of_segments <= Len(a.page_table))
  /\ l \in {"activate", "define", "prepare", "load", "args", "user", "dead"} /\ n \in Nat
  /\ e \in Programs /\ which \in {"runprogram", "execv"} /\ im \in {"broken", "loaded", "settled"}
  /\ as' = [as EXCEPT ![p] = a] /\ pc' = [pc EXCEPT ![p] = l] /\ i' = [i EXCEPT ![p] = n]
  /\ program' = [program EXCEPT ![p] = e] /\ call' = [call EXCEPT ![p] = which]
  /\ image' = [image EXCEPT ![p] = im]
  /\ need[p] = <<>> /\ UNCHANGED <<tlb, running, need, found, panicked>>
  /\ execs' \in 0 .. MaxExecs
  /\ free' \subseteq free /\ chunk' \in [Frames -> Nat] /\ UNCHANGED <<kblocks, kallocs, strayed>>
  /\ ~ strayed => \A f \in Nat : Holds(a, f) => (Holds(as[p], f) \/ f \in free) /\ f \notin free'

\* Such a step keeps the invariant when the process and the TLB go with the new
\* address space: the pages it gains were free ones.
LEMMA ReshapeInv ==
  ASSUME IInv, NEW p \in Procs, NEW c \in Cpus, running[c] = p,
         NEW a, NEW l, NEW n, NEW e, NEW which, NEW im, Reshapes(p, a, l, n, e, which, im),
         Local(p)', OnCpu(c, p)'
  PROVE  IInv'
<1> USE DEF Reshapes
<1>1. TypeOK
  BY DEF IInv
<1>2. as' \in [Procs -> Addrspace \cup {NULL}]
  BY <1>1 DEF TypeOK
<1>3. as'[p] = a /\ \A q \in Procs : q # p => as'[q] = as[q]
  BY <1>1 DEF TypeOK
<1>4. \A q \in Procs : as'[q] # NULL => as'[q].no_of_segments <= Len(as'[q].page_table)
  BY <1>1, <1>3 DEF TypeOK
<1>5. TypeOK'
  <2>1. need' \in [Procs -> Seq(Access)] /\ free' \subseteq Frames
    BY <1>1 DEF TypeOK
  <2>2. pc' \in [Procs -> {"new", "activate", "define", "prepare", "load", "args", "enter", "user", "dead"}]
        /\ i' \in [Procs -> Nat]
    BY <1>1 DEF TypeOK
  <2>3. program' \in [Procs -> Programs \cup {<<>>}] /\ call' \in [Procs -> {"runprogram", "execv"}]
        /\ image' \in [Procs -> {"none", "broken", "loaded", "settled"}]
    BY <1>1 DEF TypeOK
  <2>4. /\ tlb' \in [Cpus -> [1 .. NUM_TLB -> Entry \cup {NULL}]]
        /\ running' \in [Cpus -> Procs \cup {Kernel}]
        /\ found' \in [Procs -> Entry \cup {NULL}] /\ panicked' \in BOOLEAN
    BY <1>1 DEF TypeOK
  <2>5. /\ chunk' \in [Frames -> Nat] /\ kblocks' \subseteq Block /\ kallocs' \in 0 .. MaxKernel
        /\ strayed' \in BOOLEAN
    BY <1>1 DEF TypeOK
  <2>6. QED
    BY <1>2, <1>4, <2>1, <2>2, <2>3, <2>4, <2>5 DEF TypeOK
<1>6. OthersKept(p, c)
  BY <1>1, <1>3 DEF OthersKept, TypeOK
<1>7. Distinct(c)'
  BY DEF IInv, Distinct
<1>8. TakesFree(p)
  BY <1>3 DEF TakesFree
<1>9. QED
  BY <1>5, <1>6, <1>7, <1>8, StepInv

LEMMA FlushedIsEmpty == \A k \in 1 .. NUM_TLB : Flushed[k] = NULL
BY DEF Flushed

\* A TLB without entries says nothing wrong.
LEMMA EmptyTlb ==
  ASSUME NEW p \in Procs, NEW c \in Cpus, tlb'[c] = Flushed
  PROVE  OnCpu(c, p)' /\ Distinct(c)'
BY FlushedIsEmpty DEF OnCpu, Distinct

\* A new address space has no pages.
LEMMA NoPages ==
  ASSUME NEW a, a.as_stackpbase = 0, \A k \in 1 .. Len(a.page_table) : a.page_table[k].as_pbase = 0,
         NEW f
  PROVE  ~ Holds(a, f)
BY DEF Holds, InBlock

\* The fields of one process, when they are not changed.
LEMMA FieldsKept ==
  ASSUME TypeOK, NEW p \in Procs
  PROVE  /\ program = [program EXCEPT ![p] = program[p]] /\ call = [call EXCEPT ![p] = call[p]]
         /\ image = [image EXCEPT ![p] = image[p]] /\ i = [i EXCEPT ![p] = i[p]]
         /\ pc = [pc EXCEPT ![p] = pc[p]]
         /\ call[p] \in {"runprogram", "execv"} /\ i[p] \in Nat
BY DEF TypeOK

\* as_create in runprogram and in execv.
LEMMA NewAsInv ==
  ASSUME IInv, NEW p \in Procs, NEW which \in {"runprogram", "execv"}, NEW label, At(p, label),
         NewAs(p, which), execs' \in 0 .. MaxExecs,
         UNCHANGED <<pool, tlb, running, i, need, found, panicked>>
  PROVE  IInv'
<1>1. PICK e \in Programs : program' = [program EXCEPT ![p] = e]
  BY DEF NewAs
<1>2. PICK a \in {NewAddrspace, NULL} : as' = [as EXCEPT ![p] = a]
  BY DEF NewAs
<1>3. /\ call' = [call EXCEPT ![p] = which]
      /\ image' = [image EXCEPT ![p] = "broken"] /\ pc' = [pc EXCEPT ![p] = "activate"]
  BY DEF NewAs, Goto
<1>4. Runs(p) /\ need[p] = <<>> /\ found[p] = NULL /\ TypeOK /\ i[p] \in Nat /\ i' = [i EXCEPT ![p] = i[p]]
  BY AtKnows
<1>5. PICK c \in Cpus : c = CpuOf(p) /\ running[c] = p
  BY <1>4, StepKnows
<1>6. a \in Addrspace \cup {NULL} /\ (a # NULL => a.no_of_segments <= Len(a.page_table))
      /\ \A f \in Nat : ~ Holds(a, f)
  <2>1. CASE a = NULL
    BY <2>1 DEF Holds
  <2>2. CASE a = NewAddrspace
    <3>1. <<>> \in Seq(Pte) /\ 0 \in Frames /\ Len(<<>>) = 0
      BY AddressSpaceAssumption DEF Frames
    <3>2. a \in Addrspace /\ a.no_of_segments <= Len(a.page_table)
      BY <2>2, <3>1 DEF NewAddrspace, Addrspace
    <3>3. a.as_stackpbase = 0 /\ \A k \in 1 .. Len(a.page_table) : a.page_table[k].as_pbase = 0
      BY <2>2, <3>1 DEF NewAddrspace
    <3>4. QED
      BY <3>2, <3>3, NoPages
  <2>3. QED
    BY <2>1, <2>2
<1>7. chunk' \in [Frames -> Nat] /\ UNCHANGED <<free, kblocks, kallocs, strayed>>
  BY <1>4 DEF TypeOK
<1>8. /\ as'[p] = a /\ pc'[p] = "activate" /\ image'[p] = "broken" /\ program'[p] = e
      /\ need'[p] = <<>> /\ found'[p] = NULL
  BY <1>1, <1>2, <1>3, <1>4 DEF TypeOK
<1>9. Local(p)'
  BY <1>8 DEF Local, Staged, Built, Loaded
<1>10. OnCpu(c, p)'
  BY <1>8 DEF OnCpu, Active
<1>11. Reshapes(p, a, "activate", i[p], e, which, "broken")
  BY <1>1, <1>2, <1>3, <1>4, <1>6, <1>7 DEF Reshapes
<1>12. QED
  BY <1>5, <1>9, <1>10, <1>11, ReshapeInv

LEMMA RunProgramInv == ASSUME IInv, NEW p \in Procs, RunProgram(p) PROVE IInv'
<1>1. /\ At(p, "new") /\ NewAs(p, "runprogram")
      /\ UNCHANGED <<pool, tlb, running, i, need, found, execs, panicked>>
  BY DEF RunProgram
<1>2. execs' \in 0 .. MaxExecs
  BY <1>1 DEF IInv, TypeOK
<1>3. QED
  BY <1>1, <1>2, NewAsInv

LEMMA ExecvInv == ASSUME IInv, NEW p \in Procs, Execv(p) PROVE IInv'
<1>1. /\ At(p, "user") /\ execs < MaxExecs /\ execs' = execs + 1
      /\ UNCHANGED <<pool, tlb, running, i, need, found, panicked>>
  BY DEF Execv
<1>2. execs' \in 0 .. MaxExecs
  BY <1>1, AddressSpaceAssumption DEF IInv, TypeOK
<1>3. CASE NewAs(p, "execv")
  BY <1>1, <1>2, <1>3, NewAsInv
<1>4. CASE UNCHANGED <<as, program, call, image, pc>>
  <2>1. /\ Runs(p) /\ pc[p] = "user" /\ need[p] = <<>> /\ found[p] = NULL /\ TypeOK /\ Local(p)
        /\ i[p] \in Nat /\ i' = [i EXCEPT ![p] = i[p]]
        /\ <<>> \in Seq(Access) /\ need' = [need EXCEPT ![p] = <<>>]
    BY <1>1, AtKnows
  <2>2. pc' = [pc EXCEPT ![p] = "user"]
    BY <1>4, <2>1 DEF TypeOK
  <2>3. Local(p)'
    BY <1>1, <1>4, <2>1 DEF Local, Staged, Built, Loaded
  <2>4. Active(p)
    BY <2>1 DEF Active
  <2>5. QED
    BY <1>1, <1>2, <1>4, <2>1, <2>2, <2>3, <2>4, MoveInv
<1>5. QED
  BY <1>3, <1>4 DEF Execv

LEMMA ActivateInv == ASSUME IInv, NEW p \in Procs, Activate(p) PROVE IInv'
<1>1. /\ At(p, "activate") /\ tlb' = IF as[p] = NULL THEN tlb ELSE [tlb EXCEPT ![CpuOf(p)] = Flushed]
      /\ pc' = [pc EXCEPT ![p] = "define"]
      /\ UNCHANGED <<as, pool, running, program, call, i, need, found, image, execs, panicked>>
  BY DEF Activate, Goto
<1>2. Runs(p) /\ pc[p] = "activate" /\ need[p] = <<>> /\ found[p] = NULL /\ TypeOK /\ Local(p)
  BY <1>1, AtKnows
<1>3. PICK c \in Cpus : c = CpuOf(p) /\ running[c] = p /\ Owned(p) /\ Distinct(c)
  BY <1>2, StepKnows
<1>4. /\ tlb'[c] = IF as[p] = NULL THEN tlb[c] ELSE Flushed
      /\ pc'[p] = "define" /\ \A d \in Cpus : d # c => tlb'[d] = tlb[d]
  BY <1>1, <1>2, <1>3 DEF TypeOK
<1>5. TypeOK'
  <2>1. Flushed \in [1 .. NUM_TLB -> Entry \cup {NULL}]
    BY DEF Flushed
  <2>2. tlb' \in [Cpus -> [1 .. NUM_TLB -> Entry \cup {NULL}]]
    BY <1>1, <1>2, <1>3, <2>1 DEF TypeOK
  <2>3. QED
    BY <1>1, <1>2, <2>2 DEF TypeOK
<1>6. OthersKept(p, c)
  BY <1>1, <1>2, <1>4 DEF OthersKept, TypeOK
<1>7. Local(p)'
  BY <1>1, <1>2, <1>4 DEF Local, Staged, Built, Loaded
<1>8. TakesFree(p)
  BY <1>1, <1>3 DEF TakesFree, Owned
<1>9. OnCpu(c, p)' /\ Distinct(c)'
  <2>1. CASE as[p] = NULL
    BY <1>1, <1>3, <1>4, <2>1 DEF OnCpu, Distinct
  <2>2. CASE as[p] # NULL
    BY <1>4, <2>2, EmptyTlb
  <2>3. QED
    BY <2>1, <2>2
<1>10. QED
  BY <1>3, <1>5, <1>6, <1>7, <1>8, <1>9, StepInv

LEMMA DefineFailsInv == ASSUME IInv, NEW p \in Procs, DefineFails(p) PROVE IInv'
<1>1. /\ At(p, "define") /\ Fail(p)
      /\ UNCHANGED <<pool, tlb, running, program, call, need, found, image, execs, panicked>>
  BY DEF DefineFails
<1>2. /\ Runs(p) /\ pc[p] = "define" /\ need[p] = <<>> /\ found[p] = NULL /\ TypeOK /\ Local(p)
      /\ <<>> \in Seq(Access) /\ need' = [need EXCEPT ![p] = <<>>]
  BY <1>1, AtKnows
<1>3. PICK l \in {"user", "dead"} : /\ pc' = [pc EXCEPT ![p] = l] /\ i' = [i EXCEPT ![p] = 0]
                                    /\ l = "user" => call[p] = "execv"
  BY <1>1, <1>2, FailGoes
<1>4. pc'[p] = l
  BY <1>2, <1>3 DEF TypeOK
<1>5. execs' \in 0 .. MaxExecs
  BY <1>1, <1>2 DEF TypeOK
<1>6. image[p] = "broken"
  BY <1>2 DEF Local, Staged
<1>7. CASE UNCHANGED as
  <2>1. Local(p)'
    BY <1>1, <1>2, <1>3, <1>4, <1>7 DEF Local, Staged, Built, Loaded
  <2>2. Active(p)
    BY <1>2 DEF Active
  <2>3. QED
    BY <1>1, <1>2, <1>3, <1>5, <1>7, <2>1, <2>2, MoveInv
<1>8. CASE ~ UNCHANGED as
  <2>1. PICK e \in Programs : e = program[p] /\ as[p] # NULL
    BY <1>2, <1>8 DEF DefineFails, Local, Built
  <2>2. PICK n \in 0 .. Len(e) - 1 : as' = [as EXCEPT ![p] = Regions(e, n)]
    BY <1>8, <2>1 DEF DefineFails
  <2>3. n \in 0 .. Len(e)
    BY <2>1, ProgramFields
  <2>4. PICK a \in Addrspace : /\ a = Regions(e, n) /\ a.no_of_segments <= Len(a.page_table)
                               /\ Len(a.page_table) = Len(e) /\ a.as_stackpbase = 0
                               /\ \A k \in 1 .. Len(e) : a.page_table[k].as_pbase = 0
    BY <2>3, RegionsType
  <2>5. \A f \in Nat : ~ Holds(a, f)
    BY <2>4, NoPages
  <2>6. /\ program' = [program EXCEPT ![p] = e] /\ call' = [call EXCEPT ![p] = call[p]]
        /\ image' = [image EXCEPT ![p] = "broken"] /\ call[p] \in {"runprogram", "execv"}
    BY <1>1, <1>2, <1>6, <2>1, FieldsKept
  <2>7. PICK c \in Cpus : c = CpuOf(p) /\ running[c] = p /\ OnCpu(c, p)
    BY <1>2, StepKnows
  <2>8. OnCpu(c, p)'
    <3>1. tlb'[c] = Flushed
      BY <1>1, <1>2, <2>1, <2>7 DEF OnCpu
    <3>2. QED
      BY <3>1, EmptyTlb
  <2>9. as'[p] = a /\ a # NULL
    BY <1>2, <2>2, <2>4, AddressSpaceAssumption DEF TypeOK
  <2>10. Local(p)'
    BY <1>1, <1>2, <1>3, <1>4, <1>6, <2>1, <2>9 DEF Local, Staged, Built, Loaded
  <2>11. as' = [as EXCEPT ![p] = a] /\ free' \subseteq free /\ chunk' \in [Frames -> Nat] /\ 0 \in Nat
    BY <1>1, <1>2, <2>2, <2>4 DEF TypeOK
  <2>12. Reshapes(p, a, l, 0, e, call[p], "broken")
    BY <1>1, <1>2, <1>3, <1>5, <2>4, <2>5, <2>6, <2>11 DEF Reshapes
  <2>13. QED
    BY <2>7, <2>8, <2>10, <2>12, ReshapeInv
<1>9. QED
  BY <1>7, <1>8

LEMMA DefinePanicsInv == ASSUME IInv, NEW p \in Procs, DefinePanics(p) PROVE IInv'
<1>1. /\ At(p, "define") /\ panicked' = TRUE
      /\ UNCHANGED <<as, pool, tlb, running, pc, program, call, i, need, found, image, execs>>
  BY DEF DefinePanics
<1>2. Runs(p)
  BY <1>1, AtKnows
<1>3. PICK c \in Cpus : running[c] = p /\ TypeOK /\ Local(p) /\ OnCpu(c, p)
  BY <1>2, StepKnows
<1>4. TypeOK'
  BY <1>1, <1>3 DEF TypeOK
<1>5. OthersKept(p, c)
  BY <1>1 DEF OthersKept
<1>6. Local(p)'
  BY <1>1, <1>3 DEF Local, Staged, Built, Loaded
<1>7. OnCpu(c, p)'
  BY <1>1, <1>3 DEF OnCpu, Active
<1>8. QED
  BY <1>1, <1>3, <1>4, <1>5, <1>6, <1>7, QuietInv

LEMMA DefineRegionsInv == ASSUME IInv, NEW p \in Procs, DefineRegions(p) PROVE IInv'
<1>1. /\ At(p, "define") /\ as[p] # NULL /\ as' = [as EXCEPT ![p] = Regions(program[p], Len(program[p]))]
      /\ i' = [i EXCEPT ![p] = 1] /\ pc' = [pc EXCEPT ![p] = "prepare"]
      /\ UNCHANGED <<pool, tlb, running, program, call, need, found, image, execs, panicked>>
  BY DEF DefineRegions, SetI, Goto
<1>2. Runs(p) /\ pc[p] = "define" /\ need[p] = <<>> /\ found[p] = NULL /\ TypeOK /\ Local(p)
  BY <1>1, AtKnows
<1>3. program[p] \in Programs /\ image[p] = "broken"
  BY <1>1, <1>2 DEF Local, Staged, Built
<1>4. PICK e \in Programs : e = program[p]
  BY <1>3
<1>5. Len(e) \in 0 .. Len(e) /\ Len(e) - 1 \in Nat
  BY ProgramFields
<1>6. PICK a \in Addrspace : /\ a = Regions(e, Len(e)) /\ a.no_of_segments <= Len(a.page_table)
                             /\ a.no_of_segments = Len(e) - 1
                             /\ Len(a.page_table) = Len(e) /\ a.as_stackpbase = 0
                             /\ \A k \in 1 .. Len(e) : a.page_table[k].as_pbase = 0
  BY <1>5, RegionsType
<1>7. as' = [as EXCEPT ![p] = a]
  BY <1>1, <1>4, <1>6
<1>8. \A f \in Nat : ~ Holds(a, f)
  BY <1>6, NoPages
<1>9. /\ program' = [program EXCEPT ![p] = e] /\ call' = [call EXCEPT ![p] = call[p]]
      /\ image' = [image EXCEPT ![p] = "broken"] /\ call[p] \in {"runprogram", "execv"}
  BY <1>1, <1>2, <1>3, <1>4, FieldsKept
<1>10. PICK c \in Cpus : c = CpuOf(p) /\ running[c] = p /\ OnCpu(c, p)
  BY <1>2, StepKnows
<1>11. OnCpu(c, p)'
  <2>1. tlb'[c] = Flushed
    BY <1>1, <1>2, <1>10 DEF OnCpu
  <2>2. QED
    BY <2>1, EmptyTlb
<1>12. as'[p] = a /\ a # NULL /\ pc'[p] = "prepare" /\ i'[p] = 1
  BY <1>1, <1>2, <1>7, AddressSpaceAssumption DEF TypeOK
<1>13. Shaped(a, e) /\ 1 \in 1 .. a.no_of_segments + 1 /\ Filled(a, 1 - 1)
  BY <1>5, <1>6 DEF Shaped, SameRegion, Filled
<1>14. Local(p)'
  <2>1. Staged(p)'
    BY <1>1, <1>2, <1>3, <1>12 DEF Local, Staged, Loaded
  <2>2. Built(p)'
    BY <1>1, <1>2, <1>3, <1>4, <1>12, <1>13 DEF Local, Built, Loaded
  <2>3. QED
    BY <2>1, <2>2 DEF Local
<1>15. execs' \in 0 .. MaxExecs /\ chunk' \in [Frames -> Nat]
  BY <1>1, <1>2 DEF TypeOK
<1>16. Reshapes(p, a, "prepare", 1, e, call[p], "broken")
  BY <1>1, <1>2, <1>6, <1>7, <1>8, <1>9, <1>15 DEF Reshapes
<1>17. QED
  BY <1>10, <1>11, <1>14, <1>16, ReshapeInv

\* An address space that has got the pages of one of its segments.
WithPbase(a, k, pbase) == [a EXCEPT !.page_table[k].as_pbase = pbase]

LEMMA OnePbase ==
  ASSUME NEW a \in Addrspace, a.no_of_segments <= Len(a.page_table),
         NEW k \in 1 .. a.no_of_segments, NEW pbase \in Frames,
         NEW b, b = WithPbase(a, k, pbase)
  PROVE  /\ b \in Addrspace /\ b.no_of_segments = a.no_of_segments
         /\ Len(b.page_table) = Len(a.page_table) /\ b.as_stackpbase = a.as_stackpbase
         /\ \A l \in 1 .. Len(a.page_table) :
              /\ SameRegion(b.page_table[l], a.page_table[l])
              /\ b.page_table[l].as_pbase = IF l = k THEN pbase ELSE a.page_table[l].as_pbase
<1>1. PICK t \in Seq(Pte) : t = a.page_table
  BY DEF Addrspace
<1>2. a.no_of_segments \in Nat /\ k \in 1 .. Len(t) /\ Len(t) \in Nat /\ t[k] \in Pte
  BY <1>1, AddrspaceFields
<1>3. PICK s : s = [t[k] EXCEPT !.as_pbase = pbase]
  OBVIOUS
<1>4. /\ s \in Pte /\ SameRegion(s, t[k]) /\ s.as_pbase = pbase
  BY <1>2, <1>3 DEF Pte, SameRegion
<1>5. PICK u : u = [t EXCEPT ![k] = s]
  OBVIOUS
<1>6. u \in Seq(Pte) /\ Len(u) = Len(t) /\ \A l \in 1 .. Len(t) : u[l] = IF l = k THEN s ELSE t[l]
  BY <1>2, <1>4, <1>5
<1>7. b = [a EXCEPT !.page_table = u]
  BY <1>1, <1>3, <1>5 DEF WithPbase
<1>8. /\ b \in Addrspace /\ b.no_of_segments = a.no_of_segments /\ b.page_table = u
      /\ b.as_stackpbase = a.as_stackpbase
  BY <1>6, <1>7 DEF Addrspace
<1>9. QED
  BY <1>1, <1>4, <1>6, <1>8 DEF SameRegion

\* The segments stay those of the headers.
LEMMA SameShape ==
  ASSUME NEW a, NEW b, NEW e, Shaped(a, e), b.no_of_segments = a.no_of_segments,
         Len(b.page_table) = Len(a.page_table),
         \A l \in 1 .. Len(a.page_table) : SameRegion(b.page_table[l], a.page_table[l])
  PROVE  Shaped(b, e)
<1>1. PICK r : r = Regions(e, Len(e)).page_table
  OBVIOUS
<1>2. \A k \in 1 .. Len(e) : SameRegion(b.page_table[k], r[k])
  BY <1>1 DEF Shaped, SameRegion
<1>3. QED
  BY <1>1, <1>2 DEF Shaped

\* While as_prepare_load runs nothing is in the TLB, and no image is there yet.
LEMMA PreparingKnows ==
  ASSUME IInv, NEW p \in Procs, At(p, "prepare")
  PROVE  \E c \in Cpus, a \in Addrspace, e \in Programs :
           /\ c = CpuOf(p) /\ running[c] = p /\ tlb[c] = Flushed
           /\ a = as[p] /\ a.no_of_segments <= Len(a.page_table)
           /\ e = program[p] /\ Shaped(a, e) /\ image[p] = "broken"
           /\ i[p] \in 1 .. a.no_of_segments + 1 /\ Filled(a, i[p] - 1)
           /\ ~ strayed => \A f \in Nat : Holds(a, f) => f > used /\ f \notin free
           /\ program = [program EXCEPT ![p] = e] /\ call = [call EXCEPT ![p] = call[p]]
           /\ image = [image EXCEPT ![p] = "broken"] /\ call[p] \in {"runprogram", "execv"}
<1>1. /\ Runs(p) /\ pc[p] = "prepare" /\ TypeOK /\ Local(p)
  BY AtKnows
<1>2. PICK c \in Cpus : c = CpuOf(p) /\ running[c] = p /\ OnCpu(c, p) /\ Owned(p)
  BY <1>1, StepKnows
<1>3. tlb[c] = Flushed
  BY <1>1, <1>2 DEF OnCpu, Local, Built
<1>4. /\ as[p] \in Addrspace /\ as[p].no_of_segments <= Len(as[p].page_table)
      /\ program[p] \in Programs /\ Shaped(as[p], program[p]) /\ image[p] = "broken"
      /\ i[p] \in 1 .. as[p].no_of_segments + 1 /\ Filled(as[p], i[p] - 1)
  BY <1>1 DEF TypeOK, Local, Staged, Built
<1>5. /\ program = [program EXCEPT ![p] = program[p]] /\ call = [call EXCEPT ![p] = call[p]]
      /\ image = [image EXCEPT ![p] = "broken"] /\ call[p] \in {"runprogram", "execv"}
  BY <1>1, <1>4, FieldsKept
<1>6. QED
  BY <1>2, <1>3, <1>4, <1>5 DEF Owned

LEMMA PrepareSegmentInv == ASSUME IInv, NEW p \in Procs, PrepareSegment(p) PROVE IInv'
<1>1. /\ At(p, "prepare")
      /\ UNCHANGED <<kblocks, kallocs, strayed, tlb, running, program, call, need, found, image, execs, panicked>>
  BY DEF PrepareSegment
<1>2. Runs(p) /\ pc[p] = "prepare" /\ need[p] = <<>> /\ found[p] = NULL /\ TypeOK /\ Local(p)
  BY <1>1, AtKnows
<1>3. PICK c \in Cpus, a \in Addrspace, e \in Programs :
           /\ c = CpuOf(p) /\ running[c] = p /\ tlb[c] = Flushed
           /\ a = as[p] /\ a.no_of_segments <= Len(a.page_table)
           /\ e = program[p] /\ Shaped(a, e) /\ image[p] = "broken"
           /\ i[p] \in 1 .. a.no_of_segments + 1 /\ Filled(a, i[p] - 1)
           /\ ~ strayed => \A f \in Nat : Holds(a, f) => f > used /\ f \notin free
           /\ program = [program EXCEPT ![p] = e] /\ call = [call EXCEPT ![p] = call[p]]
           /\ image = [image EXCEPT ![p] = "broken"] /\ call[p] \in {"runprogram", "execv"}
  BY <1>1, PreparingKnows
<1>4. PICK k \in 1 .. a.no_of_segments : k = i[p]
  <2>1. i[p] <= a.no_of_segments
    BY <1>3 DEF PrepareSegment, Segments
  <2>2. i[p] \in 1 .. a.no_of_segments + 1 /\ a.no_of_segments \in Nat
    BY <1>3, AddrspaceFields
  <2>3. QED
    BY <2>1, <2>2
<1>5. /\ k \in 1 .. Len(a.page_table) /\ a.page_table[k] \in Pte
      /\ a.no_of_segments \in Nat /\ Len(a.page_table) \in Nat
      /\ a.no_of_segments <= Len(a.page_table)
  BY <1>3, <1>4, AddrspaceFields
<1>6. PICK n \in Nat : n = a.page_table[k].as_npages
  BY <1>5, PteFields
<1>7. PICK pbase \in Frames : /\ pbase = Getppages(n)
                              /\ pbase # 0 => \A f \in Nat : pbase <= f /\ f < pbase + n => f \in free
  BY <1>2, GetppagesGives DEF IInv
<1>8. PICK b : b = WithPbase(a, k, pbase)
  OBVIOUS
<1>9. /\ b \in Addrspace /\ b.no_of_segments = a.no_of_segments
      /\ Len(b.page_table) = Len(a.page_table) /\ b.as_stackpbase = a.as_stackpbase
      /\ \A l \in 1 .. Len(a.page_table) :
           /\ SameRegion(b.page_table[l], a.page_table[l])
           /\ b.page_table[l].as_pbase = IF l = k THEN pbase ELSE a.page_table[l].as_pbase
  BY <1>5, <1>8, OnePbase
<1>10. /\ as' = [as EXCEPT ![p] = b]
       /\ IF pbase = 0 THEN Fail(p) /\ UNCHANGED <<free, chunk>>
          ELSE SetI(p, i[p] + 1) /\ HandOut(pbase, n) /\ UNCHANGED pc
  BY <1>3, <1>4, <1>6, <1>7, <1>8 DEF PrepareSegment, WithPbase
<1>10a. /\ free' \subseteq free /\ chunk' \in [Frames -> Nat]
        /\ pbase # 0 => \A f \in Nat : f \in free' => ~ (pbase <= f /\ f < pbase + n)
  <2>1. CASE pbase = 0
    BY <1>2, <1>10, <2>1 DEF TypeOK
  <2>2. CASE pbase # 0
    BY <1>2, <1>10, <2>2, HandOutGives
  <2>3. QED
    BY <2>1, <2>2
<1>11. ~ strayed => \A f \in Nat : Holds(b, f) => (Holds(as[p], f) \/ f \in free) /\ f \notin free'
  <2>1. SUFFICES ASSUME ~ strayed, NEW f \in Nat, Holds(b, f) PROVE (Holds(a, f) \/ f \in free) /\ f \notin free'
    BY <1>3
  <2>2. Holds(a, f) => f \notin free'
    BY <1>3, <1>10a, <2>1
  <2>3. CASE b.as_stackpbase # 0 /\ b.as_stackpbase = f
    <3>1. Holds(a, f)
      BY <1>3, <1>9, <2>3, AddressSpaceAssumption DEF Holds
    <3>2. QED
      BY <2>2, <3>1
  <2>4. CASE \E l \in 1 .. Len(a.page_table) : InBlock(b.page_table[l], f)
    <3>1. PICK l \in 1 .. Len(a.page_table) : InBlock(b.page_table[l], f)
      BY <2>4
    <3>2. CASE l # k
      <4>1. InBlock(a.page_table[l], f)
        BY <1>9, <3>1, <3>2 DEF InBlock, SameRegion
      <4>2. Holds(a, f)
        BY <4>1, AddressSpaceAssumption DEF Holds
      <4>3. QED
        BY <2>2, <4>2
    <3>3. CASE l = k
      <4>1. pbase # 0 /\ pbase <= f /\ f < pbase + n
        BY <1>6, <1>9, <3>1, <3>3 DEF InBlock, SameRegion
      <4>2. QED
        BY <1>7, <1>10a, <4>1
    <3>4. QED
      BY <3>2, <3>3
  <2>5. QED
    BY <1>9, <2>1, <2>3, <2>4 DEF Holds
<1>12. as'[p] = b /\ b # NULL
  BY <1>2, <1>9, <1>10, AddressSpaceAssumption DEF TypeOK
<1>13. OnCpu(c, p)'
  BY <1>1, <1>3, EmptyTlb
<1>14. execs' \in 0 .. MaxExecs /\ b.no_of_segments <= Len(b.page_table)
  BY <1>1, <1>2, <1>3, <1>9 DEF TypeOK
<1>15. CASE pbase = 0
  <2>1. PICK l \in {"user", "dead"} : /\ pc' = [pc EXCEPT ![p] = l] /\ i' = [i EXCEPT ![p] = 0]
                                      /\ l = "user" => call[p] = "execv"
    BY <1>2, <1>10, <1>15, FailGoes
  <2>2. pc'[p] = l
    BY <1>2, <2>1 DEF TypeOK
  <2>3. Local(p)'
    BY <1>1, <1>2, <1>3, <1>12, <2>1, <2>2 DEF Local, Staged, Built, Loaded
  <2>4. Reshapes(p, b, l, 0, e, call[p], "broken")
    BY <1>1, <1>2, <1>3, <1>9, <1>10, <1>10a, <1>11, <1>14, <2>1 DEF Reshapes
  <2>5. QED
    BY <1>3, <1>13, <2>3, <2>4, ReshapeInv
<1>16. CASE pbase # 0
  <2>1. i' = [i EXCEPT ![p] = k + 1] /\ pc' = [pc EXCEPT ![p] = "prepare"] /\ k + 1 \in Nat
    BY <1>2, <1>4, <1>10, <1>16 DEF SetI, TypeOK
  <2>2. pc'[p] = "prepare" /\ i'[p] = k + 1
    BY <1>2, <2>1 DEF TypeOK
  <2>3. Shaped(b, e)
    BY <1>3, <1>9, SameShape
  <2>4. k + 1 \in 1 .. b.no_of_segments + 1
    BY <1>5, <1>9
  <2>5. Filled(b, (k + 1) - 1)
    <3>1. SUFFICES ASSUME NEW l \in 1 .. (k + 1) - 1 PROVE b.page_table[l].as_pbase # 0
      BY DEF Filled
    <3>2. l \in 1 .. Len(a.page_table) /\ (l = k \/ l \in 1 .. k - 1)
      BY <1>5
    <3>3. QED
      BY <1>3, <1>4, <1>9, <1>16, <3>2 DEF Filled
  <2>6. Staged(p)'
    BY <1>1, <1>2, <1>3, <1>12, <2>2 DEF Local, Staged, Loaded
  <2>7. Built(p)'
    BY <1>1, <1>3, <1>12, <2>2, <2>3, <2>4, <2>5 DEF Built, Loaded
  <2>8. Local(p)'
    BY <2>6, <2>7 DEF Local
  <2>9. Reshapes(p, b, "prepare", k + 1, e, call[p], "broken")
    BY <1>1, <1>2, <1>3, <1>9, <1>10, <1>10a, <1>11, <1>14, <2>1 DEF Reshapes
  <2>10. QED
    BY <1>3, <1>13, <2>8, <2>9, ReshapeInv
<1>17. QED
  BY <1>15, <1>16

LEMMA PrepareStackInv == ASSUME IInv, NEW p \in Procs, PrepareStack(p) PROVE IInv'
<1>1. /\ At(p, "prepare")
      /\ UNCHANGED <<kblocks, kallocs, strayed, tlb, running, program, call, need, found, image, execs, panicked>>
  BY DEF PrepareStack
<1>2. Runs(p) /\ pc[p] = "prepare" /\ need[p] = <<>> /\ found[p] = NULL /\ TypeOK /\ Local(p)
  BY <1>1, AtKnows
<1>3. PICK c \in Cpus, a \in Addrspace, e \in Programs :
           /\ c = CpuOf(p) /\ running[c] = p /\ tlb[c] = Flushed
           /\ a = as[p] /\ a.no_of_segments <= Len(a.page_table)
           /\ e = program[p] /\ Shaped(a, e) /\ image[p] = "broken"
           /\ i[p] \in 1 .. a.no_of_segments + 1 /\ Filled(a, i[p] - 1)
           /\ ~ strayed => \A f \in Nat : Holds(a, f) => f > used /\ f \notin free
           /\ program = [program EXCEPT ![p] = e] /\ call = [call EXCEPT ![p] = call[p]]
           /\ image = [image EXCEPT ![p] = "broken"] /\ call[p] \in {"runprogram", "execv"}
  BY <1>1, PreparingKnows
<1>4. a.no_of_segments \in Nat /\ Len(a.page_table) \in Nat
  BY <1>3, AddrspaceFields
<1>5. Filled(a, a.no_of_segments)
  <2>1. i[p] > a.no_of_segments
    BY <1>3 DEF PrepareStack, Segments
  <2>2. PICK n \in 1 .. a.no_of_segments + 1 : n = i[p]
    BY <1>3
  <2>3. n - 1 = a.no_of_segments
    BY <1>4, <2>1, <2>2
  <2>4. QED
    BY <1>3, <2>2, <2>3
<1>6. PICK pbase \in Frames : pbase = Getppages(1) /\ (pbase # 0 => pbase \in free)
  <2>1. \A f \in Frames : f \in Nat /\ f <= f /\ f < f + 1
    BY AddressSpaceAssumption DEF Frames
  <2>2. QED
    BY <1>2, <2>1, GetppagesGives DEF IInv
<1>7. PICK b : b = [a EXCEPT !.as_stackpbase = pbase]
  OBVIOUS
<1>8. /\ b \in Addrspace /\ b.no_of_segments = a.no_of_segments
      /\ b.page_table = a.page_table /\ b.as_stackpbase = pbase
  BY <1>7 DEF Addrspace
<1>9. /\ as' = [as EXCEPT ![p] = b]
      /\ IF pbase = 0 THEN Fail(p) /\ UNCHANGED <<free, chunk>>
         ELSE SetI(p, 1) /\ HandOut(pbase, 1) /\ Goto(p, "load")
  BY <1>3, <1>6, <1>7 DEF PrepareStack
<1>9a. free' \subseteq free /\ chunk' \in [Frames -> Nat] /\ (pbase # 0 => pbase \notin free')
  <2>1. CASE pbase = 0
    BY <1>2, <1>9, <2>1 DEF TypeOK
  <2>2. CASE pbase # 0
    <3>1. pbase \in Nat /\ pbase <= pbase /\ pbase < pbase + 1
      BY AddressSpaceAssumption DEF Frames
    <3>2. QED
      BY <1>2, <1>9, <2>2, <3>1, HandOutGives
  <2>3. QED
    BY <2>1, <2>2
<1>10. ~ strayed => \A f \in Nat : Holds(b, f) => (Holds(as[p], f) \/ f \in free) /\ f \notin free'
  <2>1. SUFFICES ASSUME ~ strayed, NEW f \in Nat, Holds(b, f) PROVE (Holds(a, f) \/ f \in free) /\ f \notin free'
    BY <1>3
  <2>2. CASE pbase # 0 /\ pbase = f
    BY <1>6, <1>9a, <2>2
  <2>3. CASE \E l \in 1 .. Len(a.page_table) : InBlock(a.page_table[l], f)
    <3>1. Holds(a, f)
      BY <2>3, AddressSpaceAssumption DEF Holds
    <3>2. QED
      BY <1>3, <1>9a, <2>1, <3>1
  <2>4. QED
    BY <1>8, <2>1, <2>2, <2>3 DEF Holds
<1>11. as'[p] = b /\ b # NULL
  BY <1>2, <1>8, <1>9, AddressSpaceAssumption DEF TypeOK
<1>12. OnCpu(c, p)'
  BY <1>1, <1>3, EmptyTlb
<1>13. execs' \in 0 .. MaxExecs /\ b.no_of_segments <= Len(b.page_table)
  BY <1>1, <1>2, <1>3, <1>8 DEF TypeOK
<1>14. CASE pbase = 0
  <2>1. PICK l \in {"user", "dead"} : /\ pc' = [pc EXCEPT ![p] = l] /\ i' = [i EXCEPT ![p] = 0]
                                      /\ l = "user" => call[p] = "execv"
    BY <1>2, <1>9, <1>14, FailGoes
  <2>2. pc'[p] = l
    BY <1>2, <2>1 DEF TypeOK
  <2>3. Local(p)'
    BY <1>1, <1>2, <1>3, <1>11, <2>1, <2>2 DEF Local, Staged, Built, Loaded
  <2>4. Reshapes(p, b, l, 0, e, call[p], "broken")
    BY <1>1, <1>2, <1>3, <1>8, <1>9, <1>9a, <1>10, <1>13, <2>1 DEF Reshapes
  <2>5. QED
    BY <1>3, <1>12, <2>3, <2>4, ReshapeInv
<1>15. CASE pbase # 0
  <2>1. i' = [i EXCEPT ![p] = 1] /\ pc' = [pc EXCEPT ![p] = "load"]
    BY <1>9, <1>15 DEF SetI, Goto
  <2>2. pc'[p] = "load" /\ i'[p] = 1
    BY <1>2, <2>1 DEF TypeOK
  <2>3. Shaped(b, e)
    BY <1>3, <1>8 DEF Shaped
  <2>4. Whole(b)
    BY <1>5, <1>8, <1>15 DEF Whole, Filled
  <2>5. Staged(p)'
    BY <1>1, <1>2, <1>3, <1>11, <2>2 DEF Local, Staged, Loaded
  <2>6. Built(p)'
    BY <1>1, <1>3, <1>11, <2>2, <2>3, <2>4 DEF Built, Loaded
  <2>7. Local(p)'
    BY <2>5, <2>6 DEF Local
  <2>8. Reshapes(p, b, "load", 1, e, call[p], "broken")
    BY <1>1, <1>2, <1>3, <1>8, <1>9, <1>9a, <1>10, <1>13, <2>1 DEF Reshapes
  <2>9. QED
    BY <1>3, <1>12, <2>7, <2>8, ReshapeInv
<1>16. QED
  BY <1>14, <1>15

\* An address space with the privileges of as_complete_load.
Completed(a) ==
  [a EXCEPT !.page_table =
     [k \in DOMAIN a.page_table |->
        IF k <= a.no_of_segments
        THEN [a.page_table[k] EXCEPT !.final_privilege = a.page_table[k].temp_privilege]
        ELSE a.page_table[k]]]

LEMMA CompletedFields ==
  ASSUME NEW a \in Addrspace, a.no_of_segments <= Len(a.page_table),
         NEW b, b = Completed(a)
  PROVE  /\ b \in Addrspace /\ b.no_of_segments = a.no_of_segments
         /\ Len(b.page_table) = Len(a.page_table) /\ b.as_stackpbase = a.as_stackpbase
         /\ \A k \in 1 .. Len(a.page_table) :
              /\ SameRegion(b.page_table[k], a.page_table[k])
              /\ b.page_table[k].as_pbase = a.page_table[k].as_pbase
         /\ Final(b)
<1>1. PICK t \in Seq(Pte) : t = a.page_table
  BY DEF Addrspace
<1>2. PICK n \in Nat : n = a.no_of_segments
  BY DEF Addrspace
<1>3. PICK u : u = [k \in DOMAIN t |-> IF k <= n THEN [t[k] EXCEPT !.final_privilege = t[k].temp_privilege] ELSE t[k]]
  OBVIOUS
<1>4. Len(t) \in Nat /\ DOMAIN t = 1 .. Len(t) /\ DOMAIN u = 1 .. Len(t)
  BY <1>3
<1>5. ASSUME NEW k \in 1 .. Len(t)
      PROVE  /\ u[k] \in Pte /\ SameRegion(u[k], t[k]) /\ u[k].as_pbase = t[k].as_pbase
             /\ k <= n => u[k].final_privilege = u[k].temp_privilege
  <2>1. PICK s \in Pte : s = t[k]
    OBVIOUS
  <2>2. PICK s2 : s2 = [s EXCEPT !.final_privilege = s.temp_privilege]
    OBVIOUS
  <2>3. /\ s2 \in Pte /\ SameRegion(s2, s) /\ s2.as_pbase = s.as_pbase
        /\ s2.final_privilege = s2.temp_privilege
    BY <2>2 DEF Pte, SameRegion
  <2>4. u[k] = IF k <= n THEN s2 ELSE s
    BY <1>3, <1>4, <2>1, <2>2
  <2>5. QED
    BY <2>1, <2>3, <2>4 DEF SameRegion
<1>6. u \in Seq(Pte) /\ Len(u) = Len(t)
  <2>1. u \in [1 .. Len(t) -> Pte]
    BY <1>3, <1>4, <1>5
  <2>2. QED
    BY <1>4, <2>1
<1>7. b = [a EXCEPT !.page_table = u]
  BY <1>1, <1>2, <1>3 DEF Completed
<1>8. /\ b \in Addrspace /\ b.no_of_segments = n /\ b.page_table = u
      /\ b.as_stackpbase = a.as_stackpbase
  BY <1>2, <1>6, <1>7 DEF Addrspace
<1>9. \A k \in 1 .. n : k \in 1 .. Len(t) /\ k <= n
  BY <1>1, <1>2, <1>4
<1>10. Final(b)
  BY <1>5, <1>8, <1>9 DEF Final
<1>11. QED
  BY <1>1, <1>2, <1>5, <1>6, <1>8, <1>10

LEMMA CompleteLoadInv == ASSUME IInv, NEW p \in Procs, CompleteLoad(p) PROVE IInv'
<1>1. /\ At(p, "load") /\ image' = [image EXCEPT ![p] = "loaded"] /\ i' = [i EXCEPT ![p] = 0]
      /\ UNCHANGED <<pool, tlb, running, program, call, need, found, execs, panicked>>
  BY DEF CompleteLoad, SetI
<1>2. Runs(p) /\ pc[p] = "load" /\ need[p] = <<>> /\ found[p] = NULL /\ TypeOK /\ Local(p)
  BY <1>1, AtKnows
<1>3. PICK c \in Cpus : c = CpuOf(p) /\ running[c] = p /\ OnCpu(c, p) /\ Owned(p)
  BY <1>2, StepKnows
<1>4. PICK a \in Addrspace, e \in Programs :
        /\ a = as[p] /\ a.no_of_segments <= Len(a.page_table)
        /\ e = program[p] /\ Shaped(a, e) /\ Whole(a)
  BY <1>2 DEF TypeOK, Local, Staged, Built
<1>5. PICK b : b = Completed(a)
  OBVIOUS
<1>6. as' = [as EXCEPT ![p] = b]
  BY <1>4, <1>5 DEF CompleteLoad, Completed, Segments
<1>7. PICK l \in {"args", "user"} : pc' = [pc EXCEPT ![p] = l]
  BY DEF CompleteLoad, Goto
<1>8. /\ b \in Addrspace /\ b.no_of_segments = a.no_of_segments
      /\ Len(b.page_table) = Len(a.page_table) /\ b.as_stackpbase = a.as_stackpbase
      /\ \A k \in 1 .. Len(a.page_table) :
           /\ SameRegion(b.page_table[k], a.page_table[k])
           /\ b.page_table[k].as_pbase = a.page_table[k].as_pbase
      /\ Final(b)
  BY <1>4, <1>5, CompletedFields
<1>9. /\ a.no_of_segments \in Nat /\ Len(a.page_table) \in Nat
      /\ \A k \in 1 .. a.no_of_segments : k \in 1 .. Len(a.page_table)
  BY <1>4, AddrspaceFields
<1>10. ~ strayed => \A f \in Nat : Holds(b, f) => (Holds(as[p], f) \/ f \in free) /\ f \notin free'
  <2>1. SUFFICES ASSUME ~ strayed, NEW f \in Nat, Holds(b, f) PROVE Holds(a, f)
    BY <1>1, <1>3, <1>4 DEF Owned
  <2>2. \A k \in 1 .. Len(a.page_table) : InBlock(b.page_table[k], f) => InBlock(a.page_table[k], f)
    BY <1>8 DEF InBlock, SameRegion
  <2>3. a # NULL
    BY AddressSpaceAssumption
  <2>4. QED
    BY <1>8, <2>1, <2>2, <2>3 DEF Holds
<1>11. /\ as'[p] = b /\ b # NULL /\ pc'[p] = l /\ image'[p] = "loaded" /\ program'[p] = e
       /\ need'[p] = <<>> /\ found'[p] = NULL
  BY <1>1, <1>2, <1>4, <1>6, <1>7, <1>8, AddressSpaceAssumption DEF TypeOK
<1>12. Shaped(b, e)
  BY <1>4, <1>8, SameShape
<1>13. Whole(b)
  BY <1>4, <1>8, <1>9 DEF Whole, Filled
<1>14. Local(p)'
  <2>1. Staged(p)'
    BY <1>11 DEF Staged, Loaded
  <2>2. Built(p)'
    BY <1>8, <1>11, <1>12, <1>13 DEF Built, Loaded
  <2>3. QED
    BY <2>1, <2>2 DEF Local
<1>15. OnCpu(c, p)'
  <2>1. ASSUME NEW k \in 1 .. NUM_TLB, tlb[c][k] # NULL PROVE SameFrame(b, tlb[c][k])
    <3>1. PICK v : v = tlb[c][k].page
      OBVIOUS
    <3>2. SameFrame(a, tlb[c][k])
      BY <1>2, <1>3, <1>4, <2>1, AddressSpaceAssumption DEF OnCpu, Active
    <3>3. /\ Defined(b, v) <=> Defined(a, v)
          /\ Translation(b, v).frame = Translation(a, v).frame
      BY <1>8, <1>9, SameTranslations DEF SameRegion
    <3>4. QED
      BY <3>1, <3>2, <3>3 DEF SameFrame
  <2>2. QED
    BY <1>1, <1>11, <2>1 DEF OnCpu
<1>16. /\ program' = [program EXCEPT ![p] = e] /\ call' = [call EXCEPT ![p] = call[p]]
       /\ call[p] \in {"runprogram", "execv"} /\ execs' \in 0 .. MaxExecs /\ free' \subseteq free
       /\ chunk' \in [Frames -> Nat] /\ b.no_of_segments <= Len(b.page_table)
  <2>1. execs \in 0 .. MaxExecs /\ chunk \in [Frames -> Nat]
    BY <1>2 DEF TypeOK
  <2>2. QED
    BY <1>1, <1>2, <1>4, <1>8, <2>1, FieldsKept
<1>17. Reshapes(p, b, l, 0, e, call[p], "loaded")
  BY <1>1, <1>2, <1>6, <1>7, <1>8, <1>10, <1>16 DEF Reshapes
<1>18. QED
  BY <1>3, <1>14, <1>15, <1>17, ReshapeInv

-----------------------------------------------------------------------------
(* The kernel's pages                                                      *)

\* A step that changes who has which page, and nothing of a process or a TLB.
LEMMA PoolInv ==
  ASSUME IInv,
         UNCHANGED <<as, tlb, running, pc, program, call, i, need, found, image, execs, panicked>>,
         TypeOK', FreeAbove', \A p \in Procs : Owned(p)', Apart', \A b \in kblocks' : KernelOwns(b)'
  PROVE  IInv'
<1>1. OneCpu'
  BY DEF IInv, OneCpu
<1>2. \A p \in Procs : Local(p)'
  BY DEF IInv, Local, Staged, Built, Loaded
<1>3. \A c \in Cpus, p \in Procs : OnCpu(c, p)'
  BY DEF IInv, OnCpu, Active
<1>4. \A c \in Cpus : Distinct(c)'
  BY DEF IInv, Distinct
<1>5. QED
  BY <1>1, <1>2, <1>3, <1>4 DEF IInv

LEMMA BlockFields ==
  ASSUME NEW b \in Block
  PROVE  /\ b.page \in Frames /\ b.page \in Nat /\ b.npages \in Nat /\ b.npages # 0
         /\ b.page \in PagesOf(b)
<1>1. b.page \in Frames /\ b.npages \in Nat \ {0}
  BY DEF Block
<1>2. b.page \in Nat
  BY <1>1, AddressSpaceAssumption DEF Frames
<1>3. QED
  BY <1>1, <1>2 DEF PagesOf

LEMMA KernelAllocatesInv == ASSUME IInv, NEW n \in KernelSizes, KernelAllocates(n) PROVE IInv'
<1> USE DEF IInv
<1>1. /\ kallocs < MaxKernel /\ kallocs' = kallocs + 1 /\ strayed' = strayed
      /\ UNCHANGED <<as, tlb, running, pc, program, call, i, need, found, image, execs, panicked>>
  BY DEF KernelAllocates
<1>2. n \in Nat \ {0}
  BY AddressSpaceAssumption
<1>3. PICK base \in Frames : /\ base = Getppages(n) /\ base # 0
                             /\ \A f \in Nat : base <= f /\ f < base + n => f \in free
  BY <1>2, GetppagesGives DEF KernelAllocates
<1>4. /\ free' \subseteq free /\ chunk' \in [Frames -> Nat]
      /\ \A f \in Nat : f \in free' => ~ (base <= f /\ f < base + n)
  BY <1>2, <1>3, HandOutGives DEF KernelAllocates
<1>5. PICK new \in Block : new = [page |-> base, npages |-> n]
  BY <1>2 DEF Block
<1>6. kblocks' = kblocks \cup {new}
  BY <1>3, <1>5 DEF KernelAllocates
<1>7. \A f \in PagesOf(new) : f \in Nat /\ f \in free /\ f \notin free'
  BY <1>3, <1>4, <1>5, AddressSpaceAssumption DEF PagesOf, Frames
<1>8. TypeOK'
  <2>1. kallocs' \in 0 .. MaxKernel
    BY <1>1, AddressSpaceAssumption DEF TypeOK
  <2>2. free' \subseteq Frames /\ kblocks' \subseteq Block /\ strayed' \in BOOLEAN
    BY <1>1, <1>4, <1>6 DEF TypeOK
  <2>3. QED
    BY <1>1, <1>4, <2>1, <2>2 DEF TypeOK
<1>9. FreeAbove' /\ (\A p \in Procs : Owned(p)') /\ Apart'
  BY <1>1, <1>4 DEF FreeAbove, Owned, Apart
<1>10. ASSUME NEW b \in kblocks PROVE KernelOwns(b)'
  <2>1. KernelOwns(b)
    OBVIOUS
  <2>2. ASSUME ~ strayed, NEW f \in PagesOf(b), f \in PagesOf(new) PROVE FALSE
    BY <1>7, <2>1, <2>2 DEF KernelOwns
  <2>3. QED
    BY <1>1, <1>4, <1>6, <2>1, <2>2 DEF KernelOwns
<1>11. KernelOwns(new)'
  <2>1. ASSUME ~ strayed, NEW f \in PagesOf(new), NEW d \in kblocks, f \in PagesOf(d) PROVE FALSE
    <3>1. KernelOwns(d)
      OBVIOUS
    <3>2. QED
      BY <1>7, <2>1, <3>1 DEF KernelOwns
  <2>2. \A f \in PagesOf(new) : f > used /\ f \notin free' /\ (~ strayed => \A p \in Procs : ~ Holds(as[p], f))
    BY <1>7 DEF FreeAbove, Owned
  <2>3. QED
    BY <1>1, <1>6, <2>1, <2>2 DEF KernelOwns
<1>12. QED
  BY <1>1, <1>6, <1>8, <1>9, <1>10, <1>11, PoolInv

LEMMA KernelFreesInv == ASSUME IInv, NEW b \in kblocks, KernelFrees(b) PROVE IInv'
<1> USE DEF IInv
<1>1. /\ free' = free \cup Freed(b) /\ kblocks' = kblocks \ {b} /\ kallocs' = kallocs
      /\ strayed' = (strayed \/ ~ Freed(b) \subseteq PagesOf(b))
      /\ UNCHANGED <<as, tlb, running, pc, program, call, i, need, found, image, execs, panicked>>
  BY DEF KernelFrees
<1>2. KernelOwns(b) /\ b \in Block
  BY DEF TypeOK
<1>3. Freed(b) \subseteq Frames /\ Frames \subseteq Nat
  BY AddressSpaceAssumption DEF Freed, Frames
<1>4. \A f \in Freed(b) : f > used
  <2>1. b.page > used /\ b.page \in Nat /\ used \in Nat
    BY <1>2, BlockFields, AddressSpaceAssumption DEF KernelOwns, Frames
  <2>2. ASSUME NEW f \in Freed(b) PROVE f > used
    <3>1. f \in Nat /\ b.page < f
      BY <1>3 DEF Freed
    <3>2. QED
      BY <2>1, <3>1
  <2>3. QED
    BY <2>2
<1>5. TypeOK'
  <2>1. chunk' \in [Frames -> Nat]
    BY DEF KernelFrees, TypeOK
  <2>2. free' \subseteq Frames /\ kblocks' \subseteq Block /\ strayed' \in BOOLEAN
    BY <1>1, <1>3 DEF TypeOK
  <2>3. QED
    BY <1>1, <2>1, <2>2 DEF TypeOK
<1>6. FreeAbove'
  BY <1>1, <1>4 DEF FreeAbove
<1>7. ~ strayed' => ~ strayed /\ Freed(b) \subseteq PagesOf(b)
  BY <1>1
<1>8. ASSUME NEW p \in Procs PROVE Owned(p)'
  <2>1. SUFFICES ASSUME ~ strayed, Freed(b) \subseteq PagesOf(b), NEW f \in Nat, Holds(as[p], f)
                 PROVE  f > used /\ f \notin free'
    BY <1>1, <1>7 DEF Owned
  <2>2. f \notin PagesOf(b)
    BY <1>2, <2>1 DEF KernelOwns
  <2>3. f > used /\ f \notin free
    BY <2>1 DEF Owned
  <2>4. QED
    BY <1>1, <2>1, <2>2, <2>3
<1>9. Apart'
  BY <1>1, <1>7 DEF Apart
<1>10. ASSUME NEW d \in kblocks' PROVE KernelOwns(d)'
  <2>1. KernelOwns(d) /\ d # b /\ d \in kblocks
    BY <1>1, <1>10
  <2>2. SUFFICES ASSUME ~ strayed, Freed(b) \subseteq PagesOf(b), NEW f \in PagesOf(d)
                 PROVE  /\ f \notin free'
                        /\ \A p \in Procs : ~ Holds(as[p], f)
                        /\ \A x \in kblocks' : f \in PagesOf(x) => x = d
    BY <1>1, <1>7, <2>1 DEF KernelOwns
  <2>3. /\ f \notin free /\ (\A p \in Procs : ~ Holds(as[p], f))
        /\ \A x \in kblocks : f \in PagesOf(x) => x = d
    BY <2>1, <2>2 DEF KernelOwns
  <2>4. f \notin PagesOf(b)
    BY <2>1, <2>3
  <2>5. QED
    BY <1>1, <2>2, <2>3, <2>4
<1>11. QED
  BY <1>1, <1>5, <1>6, <1>8, <1>9, <1>10, PoolInv

-----------------------------------------------------------------------------
(* The scheduler, and the theorems                                         *)

LEMMA SwitchInv == ASSUME IInv, NEW c \in Cpus, NEW q \in Procs \cup {Kernel}, Switch(c, q) PROVE IInv'
<1> USE DEF IInv
<1>1. /\ q # Kernel => \A d \in Cpus : running[d] # q
      /\ running' = [running EXCEPT ![c] = q]
      /\ image' = [p \in Procs |-> IF p = q /\ image[p] = "loaded" THEN "settled" ELSE image[p]]
      /\ tlb' = IF q # Kernel /\ as[q] # NULL THEN [tlb EXCEPT ![c] = Flushed] ELSE tlb
      /\ UNCHANGED <<as, pool, pc, program, call, i, need, found, execs, panicked>>
  BY DEF Switch, MaySwitch
<1>2. \A p \in Procs : (Loaded(p)' <=> Loaded(p)) /\ (image'[p] = "broken" <=> image[p] = "broken")
                       /\ (p # q => image'[p] = image[p])
  BY <1>1 DEF Loaded
<1>3. TypeOK'
  <2>1. tlb' \in [Cpus -> [1 .. NUM_TLB -> Entry \cup {NULL}]]
    <3>1. Flushed \in [1 .. NUM_TLB -> Entry \cup {NULL}]
      BY DEF Flushed
    <3>2. QED
      BY <1>1, <3>1 DEF TypeOK
  <2>2. running' \in [Cpus -> Procs \cup {Kernel}]
    BY <1>1 DEF TypeOK
  <2>3. image' \in [Procs -> {"none", "broken", "loaded", "settled"}]
    BY <1>1 DEF TypeOK
  <2>4. QED
    BY <1>1, <2>1, <2>2, <2>3 DEF TypeOK
<1>4. running'[c] = q /\ \A d \in Cpus : d # c => running'[d] = running[d] /\ tlb'[d] = tlb[d]
  BY <1>1 DEF TypeOK
<1>5. OneCpu'
  BY <1>1, <1>4, AddressSpaceAssumption DEF OneCpu
<1>6. ASSUME NEW p \in Procs PROVE Local(p)'
  <2>1. Local(p)
    OBVIOUS
  <2>2. QED
    BY <1>1, <1>2, <2>1 DEF Local, Staged, Built
<1>7. tlb'[c] = Flushed \/ tlb'[c] = tlb[c]
  BY <1>1 DEF TypeOK
<1>8. ASSUME NEW d \in Cpus, NEW p \in Procs PROVE OnCpu(d, p)'
  <2>1. CASE d = c /\ p = q
    <3>1. CASE as[p] # NULL
      <4>1. tlb'[c] = Flushed
        BY <1>1, <2>1, <3>1, AddressSpaceAssumption DEF TypeOK
      <4>2. QED
        BY <2>1, <4>1, EmptyTlb
    <3>2. CASE as[p] = NULL
      BY <1>1, <3>2 DEF OnCpu
    <3>3. QED
      BY <3>1, <3>2
  <2>2. CASE d = c /\ p # q
    BY <1>4, <2>2 DEF OnCpu
  <2>3. CASE d # c
    <3>1. CASE running[d] = p
      <4>1. p # q /\ OnCpu(d, p)
        BY <1>1, <3>1, AddressSpaceAssumption
      <4>2. image'[p] = image[p]
        BY <1>2, <4>1
      <4>3. QED
        BY <1>1, <1>4, <2>3, <4>1, <4>2 DEF OnCpu, Active
    <3>2. CASE running[d] # p
      BY <1>4, <2>3, <3>2 DEF OnCpu
    <3>3. QED
      BY <3>1, <3>2
  <2>4. QED
    BY <2>1, <2>2, <2>3
<1>9. ASSUME NEW d \in Cpus PROVE Distinct(d)'
  <2>1. tlb'[d] = tlb[d] \/ tlb'[d] = Flushed
    BY <1>4, <1>7
  <2>2. Distinct(d)
    OBVIOUS
  <2>3. QED
    BY <2>1, <2>2, FlushedIsEmpty DEF Distinct
<1>10. FreeAbove' /\ (\A p \in Procs : Owned(p)') /\ Apart' /\ \A b \in kblocks' : KernelOwns(b)'
  BY <1>1 DEF FreeAbove, Owned, Apart, KernelOwns
<1>11. QED
  BY <1>3, <1>5, <1>6, <1>8, <1>9, <1>10

LEMMA StutterInv == ASSUME IInv, UNCHANGED vars PROVE IInv'
<1> USE DEF IInv, vars
<1>1. TypeOK' /\ OneCpu'
  BY DEF TypeOK, OneCpu
<1>2. \A p \in Procs : Local(p)'
  BY DEF Local, Staged, Built, Loaded
<1>3. \A c \in Cpus, p \in Procs : OnCpu(c, p)'
  BY DEF OnCpu, Active
<1>4. (\A c \in Cpus : Distinct(c)') /\ FreeAbove' /\ (\A p \in Procs : Owned(p)') /\ Apart'
      /\ \A b \in kblocks' : KernelOwns(b)'
  BY DEF Distinct, FreeAbove, Owned, Apart, KernelOwns
<1>5. QED
  BY <1>1, <1>2, <1>3, <1>4

LEMMA NextInv == IInv /\ [Next]_vars => IInv'
<1> SUFFICES ASSUME IInv, [Next]_vars PROVE IInv'
  OBVIOUS
<1>1. CASE UNCHANGED vars
  BY <1>1, StutterInv
<1>2. CASE \E c \in Cpus, q \in Procs \cup {Kernel} : Switch(c, q)
  BY <1>2, SwitchInv
<1>3. ASSUME NEW p \in Procs, Step(p) PROVE IInv'
  <2>1. CASE Proceed(p) \/ FaultFails(p) \/ FaultLookup(p) \/ FaultFill(p)
    BY <2>1, ProceedInv, FaultFailsInv, FaultLookupInv, FaultFillInv
  <2>2. CASE RunProgramFails(p) \/ RunProgram(p) \/ Execv(p) \/ Activate(p)
    BY <2>2, RunProgramFailsInv, RunProgramInv, ExecvInv, ActivateInv
  <2>3. CASE DefineFails(p) \/ DefinePanics(p) \/ DefineRegions(p) \/ PrepareSegment(p) \/ PrepareStack(p)
    BY <2>3, DefineFailsInv, DefinePanicsInv, DefineRegionsInv, PrepareSegmentInv, PrepareStackInv
  <2>4. CASE LoadFails(p) \/ LoadSegment(p) \/ CompleteLoad(p) \/ CopyArgs(p) \/ EnterNewProcess(p)
    BY <2>4, LoadFailsInv, LoadSegmentInv, CompleteLoadInv, CopyArgsInv, EnterNewProcessInv
  <2>5. CASE Execute(p) \/ Exit(p)
    BY <2>5, ExecuteInv, ExitInv
  <2>6. QED
    BY <1>3, <2>1, <2>2, <2>3, <2>4, <2>5 DEF Step
<1>4. CASE \E n \in KernelSizes : KernelAllocates(n)
  BY <1>4, KernelAllocatesInv
<1>5. CASE \E b \in kblocks : KernelFrees(b)
  BY <1>5, KernelFreesInv
<1>6. QED
  BY <1>1, <1>2, <1>3, <1>4, <1>5 DEF Next

\* The invariant holds in every state.
THEOREM Invariance == Spec => []IInv
<1>1. QED
  BY InitInv, NextInv, PTL DEF Spec

\* TlbCorrect: what the TLB says of a page in a segment of the running process is
\* what its address space says.
THEOREM TranslationsCorrect == Spec => []TlbCorrect
<1>1. IInv => TlbCorrect
  <2>1. ASSUME IInv, NEW c \in Cpus, NEW p \in Procs, running[c] = p, as[p] # NULL,
               pc[p] \notin {"new", "activate", "dead"}, NEW e \in Entries(c)
        PROVE  SameFrame(as[p], e)
    <3>1. PICK k \in 1 .. NUM_TLB : tlb[c][k] # NULL /\ tlb[c][k] = e
      BY DEF Entries
    <3>2. OnCpu(c, p)
      BY <2>1 DEF IInv
    <3>3. QED
      BY <2>1, <3>1, <3>2 DEF OnCpu, Active
  <2>2. QED
    BY <2>1 DEF TlbCorrect, SameFrame
<1>2. QED
  BY <1>1, Invariance, PTL

\* TlbWellFormed: the TLBs hold translations, never two of a page (tlb.h:40).
THEOREM NoPageTwice == Spec => []TlbWellFormed
<1>1. IInv => TlbWellFormed
  BY DEF IInv, TlbWellFormed, NoDuplicateEntries, Distinct
<1>2. QED
  BY <1>1, Invariance, PTL

\* WriteProtected: from the first time the thread is switched in after the load
\* on, no page of a read-only segment is writable.
THEOREM ReadOnlyProtected == Spec => []WriteProtected
<1>1. IInv => WriteProtected
  <2>1. SUFFICES ASSUME IInv, NEW c \in Cpus, NEW p \in Procs, running[c] = p,
                        pc[p] = "user", image[p] = "settled", NEW k \in 1 .. NUM_TLB, tlb[c][k] # NULL
                 PROVE  Protects(as[p], tlb[c][k])
    BY DEF WriteProtected, Entries, Protects
  <2>2. OnCpu(c, p) /\ as[p] # NULL
    BY <2>1 DEF IInv, Local, Built, Loaded
  <2>3. QED
    BY <2>1, <2>2 DEF OnCpu, Active
<1>2. QED
  BY <1>1, Invariance, PTL

\* A page that a whole address space translates goes to a page it has.
LEMMA TranslationHeld ==
  ASSUME NEW a \in Addrspace, a.no_of_segments <= Len(a.page_table), Whole(a), NEW v \in VPages, Defined(a, v)
  PROVE  Translation(a, v).frame \in Nat /\ Holds(a, Translation(a, v).frame)
<1>1. v \in Nat /\ a # NULL /\ a.as_stackpbase \in Nat
  BY AddrspaceFields, AddressSpaceAssumption DEF VPages, Frames
<1>2. CASE Holding(a, v) # {}
  <2>1. PICK k \in Holding(a, v) : Segment(a, v) = a.page_table[k]
    BY <1>2, SegmentHolds, AddrspaceFields
  <2>2. k \in 1 .. a.no_of_segments /\ k \in 1 .. Len(a.page_table)
    BY AddrspaceFields DEF Holding
  <2>3. PICK s \in Pte : s = a.page_table[k]
    BY <2>2, AddrspaceFields
  <2>4. /\ s.as_vbase \in Nat /\ s.as_npages \in Nat /\ s.as_pbase \in Nat
        /\ s.as_vbase <= v /\ v < s.as_vbase + s.as_npages
    BY <2>3, PteFields DEF Holding
  <2>5. s.as_pbase # 0
    BY <2>2, <2>3 DEF Whole, Filled
  <2>6. PICK f \in Nat : f = s.as_pbase + (v - s.as_vbase)
    BY <1>1, <2>4
  <2>7. InBlock(s, f)
    BY <1>1, <2>4, <2>5, <2>6 DEF InBlock
  <2>8. Translation(a, v).frame = f
    BY <1>2, <2>1, <2>3, <2>6 DEF Translation
  <2>9. QED
    BY <1>1, <2>2, <2>3, <2>7, <2>8 DEF Holds
<1>3. CASE Holding(a, v) = {}
  <2>1. Translation(a, v).frame = a.as_stackpbase
    BY <1>3 DEF Translation
  <2>2. a.as_stackpbase # 0
    BY DEF Whole
  <2>3. QED
    BY <1>1, <2>1, <2>2 DEF Holds
<1>4. QED
  BY <1>2, <1>3

LEMMA FrameHeld ==
  ASSUME TypeOK, NEW q \in Procs, NEW f, HasFrame(q, f)
  PROVE  Holds(as[q], f)
<1>1. PICK t \in Seq(Pte) : t = as[q].page_table
  BY DEF TypeOK, Addrspace, HasFrame
<1>2. DOMAIN t = 1 .. Len(t)
  OBVIOUS
<1>3. QED
  BY <1>1, <1>2 DEF HasFrame, Holds, InBlock

\* Isolated: through the pages of its segments a process that runs a program
\* loaded to the end reaches no page of another process and none of the kernel's,
\* although pages are given back and handed out again, until a free_kpages frees
\* a page that is not its block's.
THEOREM ProcessesIsolated == Spec => []Isolated
<1>1. IInv => Isolated
  <2>1. SUFFICES ASSUME IInv, ~ strayed, NEW c \in Cpus, NEW p \in Procs, running[c] = p,
                        pc[p] = "user", Loaded(p), NEW e \in Entries(c), Defined(as[p], e.page)
                 PROVE  /\ e.frame > used
                        /\ \A b \in kblocks : e.frame \notin PagesOf(b)
                        /\ \A q \in Procs \ {p} : ~ HasFrame(q, e.frame)
    BY DEF Isolated, Loaded
  <2>2. PICK k \in 1 .. NUM_TLB : tlb[c][k] # NULL /\ e = tlb[c][k] /\ e \in Entry
    <3>1. tlb[c] \in [1 .. NUM_TLB -> Entry \cup {NULL}]
      BY <2>1 DEF IInv, TypeOK
    <3>2. PICK k \in 1 .. NUM_TLB : tlb[c][k] # NULL /\ e = tlb[c][k]
      BY DEF Entries
    <3>3. QED
      BY <3>1, <3>2
  <2>3. e.page \in VPages
    BY <2>2 DEF Entry
  <2>4. OnCpu(c, p) /\ Local(p) /\ Owned(p) /\ TypeOK
    BY <2>1 DEF IInv
  <2>5. as[p] # NULL /\ as[p] \in Addrspace /\ as[p].no_of_segments <= Len(as[p].page_table) /\ Whole(as[p])
    BY <2>1, <2>4 DEF Local, Built, TypeOK
  <2>6. e.frame = Translation(as[p], e.page).frame
    BY <2>1, <2>2, <2>4, <2>5 DEF OnCpu, Active, SameFrame
  <2>7. e.frame \in Nat /\ Holds(as[p], e.frame)
    BY <2>1, <2>2, <2>3, <2>5, <2>6, TranslationHeld
  <2>8. e.frame > used
    BY <2>1, <2>4, <2>7 DEF Owned
  <2>9. \A b \in kblocks : e.frame \notin PagesOf(b)
    BY <2>1, <2>7 DEF IInv, KernelOwns
  <2>10. \A q \in Procs \ {p} : ~ HasFrame(q, e.frame)
    BY <2>1, <2>4, <2>7, FrameHeld DEF IInv, Apart
  <2>11. QED
    BY <2>8, <2>9, <2>10
<1>2. QED
  BY <1>1, Invariance, PTL

\* Headers to load are numbered in their order, from 1 on, and one that is not to
\* be loaded leaves a number less.
LEMMA LoadsFinite ==
  ASSUME NEW e, NEW h \in Nat
  PROVE  IsFiniteSet(Loads(e, h)) /\ Rank(e, h) \in Nat
<1>1. IsFiniteSet(1 .. h)
  BY FS_Interval
<1>2. Loads(e, h) \in SUBSET (1 .. h)
  BY DEF Loads
<1>3. IsFiniteSet(Loads(e, h))
  BY <1>1, <1>2, FS_Subset
<1>4. QED
  BY <1>3, FS_CardinalityType DEF Rank

LEMMA RankGrows ==
  ASSUME NEW e, NEW h \in Nat \ {0}, NEW k \in Nat \ {0}, h < k, IsLoad(e[k])
  PROVE  Rank(e, h) < Rank(e, k)
<1>1. Loads(e, h) \in SUBSET Loads(e, k)
  BY DEF Loads
<1>2. k \in Loads(e, k) /\ k \notin Loads(e, h)
  BY DEF Loads
<1>3. IsFiniteSet(Loads(e, k)) /\ Rank(e, k) \in Nat /\ Rank(e, h) \in Nat
  BY LoadsFinite
<1>4. Cardinality(Loads(e, h)) <= Cardinality(Loads(e, k))
  BY <1>1, <1>3, FS_Subset
<1>5. Cardinality(Loads(e, k)) # Cardinality(Loads(e, h))
  BY <1>1, <1>2, <1>3, FS_Subset
<1>6. QED
  BY <1>3, <1>4, <1>5 DEF Rank

LEMMA RankBounds ==
  ASSUME NEW e \in Programs, NEW h \in 1 .. Len(e), IsLoad(e[h]),
         NEW s \in 1 .. Len(e), e[s].p_type = "skip"
  PROVE  Rank(e, h) \in 1 .. Len(e) - 1
<1>1. Len(e) \in Nat /\ Len(e) >= 1 /\ h \in Nat
  BY ProgramFields
<1>2. IsFiniteSet(Loads(e, h)) /\ Rank(e, h) \in Nat
  BY <1>1, LoadsFinite
<1>3. h \in Loads(e, h)
  BY <1>1 DEF Loads
<1>4. Rank(e, h) # 0
  BY <1>2, <1>3, FS_EmptySet DEF Rank
<1>5. Loads(e, h) \in SUBSET ((1 .. Len(e)) \ {s})
  BY <1>1 DEF Loads, IsLoad
<1>6. IsFiniteSet(1 .. Len(e)) /\ Cardinality(1 .. Len(e)) = Len(e)
  <2>1. PICK n \in Nat : n = Len(e) /\ n >= 1
    BY <1>1
  <2>2. 1 \in Int /\ n \in Int /\ (IF 1 > n THEN 0 ELSE n - 1 + 1) = n
    BY <2>1
  <2>3. IsFiniteSet(1 .. n) /\ Cardinality(1 .. n) = IF 1 > n THEN 0 ELSE n - 1 + 1
    BY <2>2, FS_Interval, Zenon
  <2>4. QED
    BY <2>1, <2>2, <2>3
<1>7. IsFiniteSet((1 .. Len(e)) \ {s}) /\ Cardinality((1 .. Len(e)) \ {s}) = Len(e) - 1
  BY <1>6, FS_RemoveElement
<1>8. Rank(e, h) <= Len(e) - 1
  BY <1>5, <1>7, FS_Subset DEF Rank
<1>9. QED
  BY <1>1, <1>2, <1>4, <1>8

\* The region of a header to load has the number of the header.
LEMMA RegionOfHeader ==
  ASSUME NEW e \in Programs, NEW h \in 1 .. Len(e), IsLoad(e[h]), Rank(e, h) \in 1 .. Len(e) - 1
  PROVE  Regions(e, Len(e)).page_table[Rank(e, h)] = Region(e[h])
<1>1. Len(e) \in Nat
  BY ProgramFields
<1>2. PICK n \in 1 .. Len(e) - 1 : n = Rank(e, h)
  OBVIOUS
<1>3. h \in Loads(e, Len(e))
  BY DEF Loads
<1>4. IsRegion(e, Len(e), n)
  BY <1>2, <1>3 DEF IsRegion
<1>5. PICK g \in Loads(e, Len(e)) : Rank(e, g) = n /\ KthLoad(e, Len(e), n) = e[g]
  BY <1>4, KthLoaded
<1>6. g \in Nat \ {0} /\ h \in Nat \ {0} /\ IsLoad(e[g])
  BY <1>1 DEF Loads
<1>7. ~ (g < h) /\ ~ (h < g)
  <2>1. Rank(e, h) \in Nat
    BY <1>1
  <2>2. QED
    BY <1>2, <1>5, <1>6, <2>1, RankGrows
<1>8. g = h
  BY <1>6, <1>7
<1>9. n \in 1 .. Len(e) /\ n < Len(e)
  BY <1>1
<1>10. QED
  BY <1>2, <1>4, <1>5, <1>8, <1>9 DEF Regions

LEMMA WholeImageInv == IInv => WholeImage
<1>1. SUFFICES ASSUME IInv, NEW p \in Procs, pc[p] = "user", Loaded(p),
                      NEW s \in DOMAIN program[p], program[p][s].p_type = "skip"
               PROVE  /\ as[p].as_stackpbase # 0
                      /\ \A k \in DOMAIN program[p] : program[p][k].p_type = "load" =>
                           \E l \in 1 .. as[p].no_of_segments :
                             /\ SameRegion(as[p].page_table[l], Region(program[p][k]))
                             /\ as[p].page_table[l].final_privilege = program[p][k].p_flags
                             /\ as[p].page_table[l].as_pbase # 0
  BY DEF WholeImage, Loaded, Segments, SameRegion, Region
<1>2. TypeOK /\ Local(p)
  BY <1>1 DEF IInv
<1>3. PICK a \in Addrspace, e \in Programs :
        /\ a = as[p] /\ e = program[p] /\ a.no_of_segments <= Len(a.page_table)
        /\ Shaped(a, e) /\ Whole(a) /\ Final(a)
  BY <1>1, <1>2 DEF Local, Built, TypeOK
<1>4. Len(e) \in Nat /\ DOMAIN e = 1 .. Len(e)
  BY AddressSpaceAssumption
<1>5. ASSUME NEW k \in 1 .. Len(e), e[k].p_type = "load"
      PROVE  \E l \in 1 .. a.no_of_segments :
               /\ SameRegion(a.page_table[l], Region(e[k]))
               /\ a.page_table[l].final_privilege = e[k].p_flags /\ a.page_table[l].as_pbase # 0
  <2>1. PICK n \in 1 .. Len(e) - 1 : n = Rank(e, k)
    BY <1>1, <1>3, <1>4, <1>5, RankBounds DEF IsLoad
  <2>2. Regions(e, Len(e)).page_table[n] = Region(e[k])
    BY <1>5, <2>1, RegionOfHeader DEF IsLoad
  <2>3. n \in 1 .. Len(e) /\ n \in 1 .. a.no_of_segments
    BY <1>3, <1>4 DEF Shaped
  <2>4. SameRegion(a.page_table[n], Region(e[k]))
    BY <1>3, <2>2, <2>3 DEF Shaped
  <2>5. a.page_table[n].final_privilege = e[k].p_flags
    BY <1>3, <2>3, <2>4 DEF Final, SameRegion, Region
  <2>6. a.page_table[n].as_pbase # 0
    BY <1>3, <2>3 DEF Whole, Filled
  <2>7. QED
    BY <2>3, <2>4, <2>5, <2>6
<1>6. QED
  BY <1>3, <1>4, <1>5 DEF Whole

\* UserImages: a program loaded to the end that had a header to skip has all its
\* segments with their privileges, and only an execv that failed sends a program
\* back to user mode with less.
THEOREM ImagesWhole == Spec => []UserImages
<1>1. IInv => BrokenOnlyByExecv
  BY DEF IInv, Local, Staged, BrokenOnlyByExecv
<1>2. QED
  BY <1>1, WholeImageInv, Invariance, PTL DEF UserImages

=============================================================================
