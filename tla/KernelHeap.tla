----------------------------- MODULE KernelHeap -----------------------------
(***************************************************************************)
(* vm/kmalloc.c: kmalloc and kfree, the pages of blocks of one size, and   *)
(* the structures ("pagerefs") that describe those pages, which are on     *)
(* pages of their own.                                                     *)
(*                                                                         *)
(* What happens between an acquisition and the next release of             *)
(* kmalloc_spinlock is one step; alloc_kpages and free_kpages are called   *)
(* without it, as steps of their own. They are taken at their word here:   *)
(* any page that is free, or none. Coremap is about what they really do.   *)
(*                                                                         *)
(* A list linked through next_samesize, next_all or freelist.next is the   *)
(* sequence of its elements; freelist_offset is the head of the freelist.  *)
(***************************************************************************)
EXTENDS Naturals, Sequences, SequencesExt, FiniteSetsExt

CONSTANTS
  Threads,
  Pages,              \* what alloc_kpages can hand out
  PAGE_SIZE,
  sizes,              \* the block sizes, smallest first
  NUM_PAGEREFPAGES,
  NPAGEREFS_PER_PAGE,
  MaxHeld,            \* bound: blocks that threads hold at once
  NULL

BlockTypes == DOMAIN sizes
Roots == 1 .. NUM_PAGEREFPAGES
Pagerefs == Roots \X (1 .. NPAGEREFS_PER_PAGE)
Pageref == [page : Pages \cup {NULL}, blktype : BlockTypes, nfree : 0 .. PAGE_SIZE, freelist : Seq(0 .. PAGE_SIZE - 1)]
Block == [page : Pages, offset : 0 .. PAGE_SIZE - 1, size : 1 .. PAGE_SIZE]

ASSUME KernelHeapAssumption ==
  /\ PAGE_SIZE \in Nat \ {0} /\ sizes \in Seq(1 .. PAGE_SIZE \div 2) /\ sizes # <<>>
  /\ NUM_PAGEREFPAGES \in Nat \ {0} /\ NPAGEREFS_PER_PAGE \in Nat \ {0}
  /\ MaxHeld \in Nat
  /\ NULL \notin Pages /\ NULL \notin Pagerefs

VARIABLES
  kpages,      \* the pages alloc_kpages has
  kheaproots,  \* per root: the page its pagerefs are on, the bitmap, the count
  refs,        \* the pagerefs
  sizebases,   \* per block type: its pages
  allbase,     \* all pages of blocks
  held,        \* the blocks kmalloc has returned and kfree has not seen
  pc, blktype, prpage, pr, va,   \* per thread: the locals of subpage_kmalloc
  leaked,      \* history: pagerefs marked in use and given to nobody
  panicked

vars == <<kpages, kheaproots, refs, sizebases, allbase, held, pc, blktype, prpage, pr, va, leaked, panicked>>
lists == <<sizebases, allbase>>

\* What a pageref not in use holds does not matter.
Unused == [page |-> NULL, blktype |-> 1, nfree |-> 0, freelist |-> <<>>]

Init ==
  /\ kpages = Pages
  /\ kheaproots = [r \in Roots |-> [page |-> NULL, inuse |-> {}, numinuse |-> 0]]
  /\ refs = [q \in Pagerefs |-> Unused]
  /\ sizebases = [b \in BlockTypes |-> <<>>]
  /\ allbase = <<>>
  /\ held = {}
  /\ pc = [t \in Threads |-> "run"]
  /\ blktype = [t \in Threads |-> 1]
  /\ prpage = [t \in Threads |-> NULL]
  /\ pr = [t \in Threads |-> NULL]
  /\ va = [t \in Threads |-> NULL]
  /\ leaked = {}
  /\ panicked = FALSE

At(t, label) == ~ panicked /\ pc[t] = label
Goto(t, label) == pc' = [pc EXCEPT ![t] = label]

\* The end of a call; its locals are gone.
Return(t) ==
  /\ Goto(t, "run")
  /\ blktype' = [blktype EXCEPT ![t] = 1]
  /\ prpage' = [prpage EXCEPT ![t] = NULL]
  /\ pr' = [pr EXCEPT ![t] = NULL]
  /\ va' = [va EXCEPT ![t] = NULL]

\* alloc_kpages(1): a page, or NULL for none.
AllocKpages(result) ==
  \/ \E p \in kpages : result = p /\ kpages' = kpages \ {p}
  \/ result = NULL /\ UNCHANGED kpages

-----------------------------------------------------------------------------
(* subpage_kmalloc                                                         *)

\* doalloc: the head of the page's freelist.
Doalloc(q, ref) ==
  /\ refs' = [refs EXCEPT ![q] = [ref EXCEPT !.nfree = @ - 1, !.freelist = Tail(@)]]
  /\ held' = held \cup {[page |-> ref.page, offset |-> Head(ref.freelist), size |-> sizes[ref.blktype]]}

Usable(b) == {k \in DOMAIN sizebases[b] : refs[sizebases[b][k]].nfree > 0}

\* A block of the first page of its size that has one.
KmallocHit(t, b) ==
  /\ At(t, "run")
  /\ Cardinality(held) < MaxHeld
  /\ Usable(b) # {}
  /\ LET q == sizebases[b][Min(Usable(b))] IN Doalloc(q, refs[q])
  /\ UNCHANGED <<kpages, kheaproots, lists, pc, blktype, prpage, pr, va, leaked, panicked>>

\* No page has one: the spinlock is dropped to get a new page.
KmallocMiss(t, b) ==
  /\ At(t, "run")
  /\ Cardinality(held) < MaxHeld
  /\ Usable(b) = {}
  /\ blktype' = [blktype EXCEPT ![t] = b]
  /\ Goto(t, "page")
  /\ UNCHANGED <<kpages, kheaproots, refs, lists, held, prpage, pr, va, leaked, panicked>>

GetPage(t) ==
  /\ At(t, "page")
  /\ \E p \in Pages : /\ AllocKpages(p)
                      /\ prpage' = [prpage EXCEPT ![t] = p]
                      /\ Goto(t, "pageref")
  /\ UNCHANGED <<kheaproots, refs, lists, held, blktype, pr, va, leaked, panicked>>

\* Out of memory.
GetPageFails(t) ==
  /\ At(t, "page")
  /\ Return(t)
  /\ UNCHANGED <<kpages, kheaproots, refs, lists, held, leaked, panicked>>

Roomy == {r \in Roots : kheaproots[r].numinuse < NPAGEREFS_PER_PAGE}

\* Seeded fault: the last root with room.
FreeRef_LastRoot == LET r == Max(Roomy) IN <<r, Min((1 .. NPAGEREFS_PER_PAGE) \ kheaproots[r].inuse)>>

\* The first pageref not in use.
FreeRef == LET r == Min(Roomy) IN <<r, Min((1 .. NPAGEREFS_PER_PAGE) \ kheaproots[r].inuse)>>

\* Its bit is set, and counted.
MarkInuse(q) ==
  kheaproots' = [kheaproots EXCEPT ![q[1]].inuse = @ \cup {q[2]}, ![q[1]].numinuse = @ + 1]

\* Seeded fault: the new page is not put on the list of all pages.
NewPage_OneList(t, q) ==
  LET n == PAGE_SIZE \div sizes[blktype[t]] IN
    /\ Doalloc(q, [page |-> prpage[t], blktype |-> blktype[t], nfree |-> n, freelist |-> [k \in 1 .. n |-> (n - k) * sizes[blktype[t]]]])
    /\ sizebases' = [sizebases EXCEPT ![blktype[t]] = <<q>> \o @]
    /\ UNCHANGED allbase
    /\ Return(t)

\* The rest of subpage_kmalloc: the page's pageref, its blocks on the freelist
\* from the last to the first, both lists, and a block for the caller.
NewPage(t, q) ==
  LET n == PAGE_SIZE \div sizes[blktype[t]] IN
    /\ Doalloc(q, [page |-> prpage[t], blktype |-> blktype[t], nfree |-> n, freelist |-> [k \in 1 .. n |-> (n - k) * sizes[blktype[t]]]])
    /\ sizebases' = [sizebases EXCEPT ![blktype[t]] = <<q>> \o @]
    /\ allbase' = <<q>> \o allbase
    /\ Return(t)

\* allocpageref, when the root's pagerefs have their page ...
Allocpageref(t) ==
  /\ At(t, "pageref")
  /\ Roomy # {}
  /\ kheaproots[FreeRef[1]].page # NULL
  /\ MarkInuse(FreeRef)
  /\ NewPage(t, FreeRef)
  /\ UNCHANGED <<kpages, leaked, panicked>>

\* ... when allocpagerefpage has to drop the spinlock to get one ...
AllocpagerefDrops(t) ==
  /\ At(t, "pageref")
  /\ Roomy # {}
  /\ kheaproots[FreeRef[1]].page = NULL
  /\ MarkInuse(FreeRef)
  /\ pr' = [pr EXCEPT ![t] = FreeRef]
  /\ Goto(t, "refpage")
  /\ UNCHANGED <<kpages, refs, lists, held, blktype, prpage, va, leaked, panicked>>

\* ... and when all are in use: the new page goes back.
AllocpagerefFails(t) ==
  /\ At(t, "pageref")
  /\ Roomy = {}
  /\ Goto(t, "giveback")
  /\ UNCHANGED <<kpages, kheaproots, refs, lists, held, blktype, prpage, pr, va, leaked, panicked>>

Allocpagerefpage(t) ==
  /\ At(t, "refpage")
  /\ \E p \in Pages \cup {NULL} : AllocKpages(p) /\ va' = [va EXCEPT ![t] = p]
  /\ Goto(t, "relock")
  /\ UNCHANGED <<kheaproots, refs, lists, held, blktype, prpage, pr, leaked, panicked>>

RefPage(t) == kheaproots[pr[t][1]].page

\* Seeded fault: the page is put in place without a second look.
RelockTake_NoRecheck(t) ==
  /\ At(t, "relock")
  /\ va[t] # NULL
  /\ kheaproots' = [kheaproots EXCEPT ![pr[t][1]].page = va[t]]
  /\ NewPage(t, pr[t])
  /\ UNCHANGED <<kpages, leaked, panicked>>

\* The spinlock is held again, and the page is the root's.
RelockTake(t) ==
  /\ At(t, "relock")
  /\ va[t] # NULL /\ RefPage(t) = NULL
  /\ kheaproots' = [kheaproots EXCEPT ![pr[t][1]].page = va[t]]
  /\ NewPage(t, pr[t])
  /\ UNCHANGED <<kpages, leaked, panicked>>

\* There was no page, but somebody else has found one.
RelockLucky(t) ==
  /\ At(t, "relock")
  /\ va[t] = NULL /\ RefPage(t) # NULL
  /\ NewPage(t, pr[t])
  /\ UNCHANGED <<kpages, kheaproots, leaked, panicked>>

\* Somebody else has put a page there: the spinlock is dropped again, the page
\* freed, and the spinlock taken.
RelockRaced(t) ==
  /\ At(t, "relock")
  /\ va[t] # NULL /\ RefPage(t) # NULL
  /\ Goto(t, "raced")
  /\ UNCHANGED <<kpages, kheaproots, refs, lists, held, blktype, prpage, pr, va, leaked, panicked>>

FreeRaced(t) ==
  /\ At(t, "raced")
  /\ va[t] # NULL
  /\ kpages' = kpages \cup {va[t]}
  /\ va' = [va EXCEPT ![t] = NULL]
  /\ UNCHANGED <<kheaproots, refs, lists, held, pc, blktype, prpage, pr, leaked, panicked>>

RacedEnds(t) ==
  /\ At(t, "raced")
  /\ va[t] = NULL
  /\ IF RefPage(t) = NULL
     THEN panicked' = TRUE /\ UNCHANGED <<refs, lists, held, pc, blktype, prpage, pr, va>>
     ELSE NewPage(t, pr[t]) /\ UNCHANGED panicked
  /\ UNCHANGED <<kpages, kheaproots, leaked>>

\* No page for the pagerefs: the call fails. The bit of the pageref stays set
\* and the count stays up.
RelockFails(t) ==
  /\ At(t, "relock")
  /\ va[t] = NULL /\ RefPage(t) = NULL
  /\ leaked' = leaked \cup {pr[t]}
  /\ pr' = [pr EXCEPT ![t] = NULL]
  /\ Goto(t, "giveback")
  /\ UNCHANGED <<kpages, kheaproots, refs, lists, held, blktype, prpage, va, panicked>>

\* free_kpages, and the end of a kmalloc that failed or of a kfree.
GiveBack(t) ==
  /\ At(t, "giveback")
  /\ kpages' = kpages \cup {prpage[t]}
  /\ Return(t)
  /\ UNCHANGED <<kheaproots, refs, lists, held, leaked, panicked>>

-----------------------------------------------------------------------------
(* subpage_kfree                                                           *)

PageOf(b) == {k \in DOMAIN allbase : refs[allbase[k]].page = b.page}

RemoveLists(q) ==
  /\ sizebases' = [sizebases EXCEPT ![refs[q].blktype] = RemoveFirst(@, q)]
  /\ allbase' = RemoveFirst(allbase, q)

Freepageref(q) ==
  kheaproots' = [kheaproots EXCEPT ![q[1]].inuse = @ \ {q[2]}, ![q[1]].numinuse = @ - 1]

\* freepageref looks at the roots in order, and has no use for one in use
\* without a page before it comes to the pageref's own.
BadRoot(q) == \E r \in 1 .. q[1] - 1 : kheaproots[r].page = NULL /\ kheaproots[r].numinuse # 0

\* A block goes to the head of its page's freelist, some are left in use.
Kfree(t, b) ==
  /\ At(t, "run")
  /\ b \in held
  /\ PageOf(b) # {}
  /\ LET q == allbase[Min(PageOf(b))] IN
       /\ refs[q].nfree + 1 < PAGE_SIZE \div sizes[refs[q].blktype]
       /\ refs' = [refs EXCEPT ![q].nfree = @ + 1, ![q].freelist = <<b.offset>> \o @]
  /\ held' = held \ {b}
  /\ UNCHANGED <<kpages, kheaproots, lists, pc, blktype, prpage, pr, va, leaked, panicked>>

\* Seeded fault: the page goes back with the block before its last one.
KfreeLast_Early(t, b) ==
  /\ At(t, "run")
  /\ b \in held
  /\ PageOf(b) # {}
  /\ LET q == allbase[Min(PageOf(b))] IN
       /\ refs[q].nfree + 2 >= PAGE_SIZE \div sizes[refs[q].blktype]
       /\ refs' = [refs EXCEPT ![q] = Unused]
       /\ RemoveLists(q)
       /\ Freepageref(q)
       /\ prpage' = [prpage EXCEPT ![t] = refs[q].page]
  /\ held' = held \ {b}
  /\ Goto(t, "giveback")
  /\ UNCHANGED <<kpages, blktype, pr, va, leaked, panicked>>

\* The last block: the page leaves both lists and its pageref is free again;
\* free_kpages comes after the spinlock is dropped.
KfreeLast(t, b) ==
  /\ At(t, "run")
  /\ b \in held
  /\ PageOf(b) # {}
  /\ LET q == allbase[Min(PageOf(b))] IN
       /\ refs[q].nfree + 1 >= PAGE_SIZE \div sizes[refs[q].blktype]
       /\ refs' = [refs EXCEPT ![q] = Unused]
       /\ RemoveLists(q)
       /\ IF BadRoot(q) \/ q[2] \notin kheaproots[q[1]].inuse
          THEN panicked' = TRUE /\ UNCHANGED <<kheaproots, prpage, pc>>
          ELSE /\ Freepageref(q)
               /\ prpage' = [prpage EXCEPT ![t] = refs[q].page]
               /\ Goto(t, "giveback")
               /\ UNCHANGED panicked
  /\ held' = held \ {b}
  /\ UNCHANGED <<kpages, blktype, pr, va, leaked>>

-----------------------------------------------------------------------------
(* Whole pages                                                             *)

\* kmalloc of the largest block size or more goes straight to alloc_kpages; here
\* for a page, whatever the size.
KmallocBig(t) ==
  /\ At(t, "run")
  /\ Cardinality(held) < MaxHeld
  /\ \E p \in Pages :
       /\ AllocKpages(p)
       /\ held' = held \cup {[page |-> p, offset |-> 0, size |-> PAGE_SIZE]}
  /\ UNCHANGED <<kheaproots, refs, lists, pc, blktype, prpage, pr, va, leaked, panicked>>

\* kfree of a pointer that is on no page of the lists: subpage_kfree says so,
\* and the pages are freed.
KfreeBig(t, b) ==
  /\ At(t, "run")
  /\ b \in held
  /\ PageOf(b) = {}
  /\ IF b.offset # 0
     THEN panicked' = TRUE /\ UNCHANGED <<held, prpage, pc>>
     ELSE /\ held' = held \ {b}
          /\ prpage' = [prpage EXCEPT ![t] = b.page]
          /\ Goto(t, "giveback")
          /\ UNCHANGED panicked
  /\ UNCHANGED <<kpages, kheaproots, refs, lists, blktype, pr, va, leaked>>

Next ==
  \E t \in Threads :
    \/ \E b \in BlockTypes : KmallocHit(t, b) \/ KmallocMiss(t, b)
    \/ GetPage(t) \/ GetPageFails(t)
    \/ Allocpageref(t) \/ AllocpagerefDrops(t) \/ AllocpagerefFails(t)
    \/ Allocpagerefpage(t) \/ RelockTake(t) \/ RelockLucky(t) \/ RelockRaced(t) \/ RelockFails(t)
    \/ FreeRaced(t) \/ RacedEnds(t) \/ GiveBack(t)
    \/ KmallocBig(t)
    \/ \E b \in held : Kfree(t, b) \/ KfreeLast(t, b) \/ KfreeBig(t, b)

Spec == Init /\ [][Next]_vars

-----------------------------------------------------------------------------
(* Properties                                                              *)

Live == Range(allbase)
BlocksOf(p) == {b \in held : b.page = p}

\* Every variable has its type.
TypeOK ==
  /\ kpages \subseteq Pages
  /\ kheaproots \in [Roots -> [page : Pages \cup {NULL}, inuse : SUBSET (1 .. NPAGEREFS_PER_PAGE), numinuse : 0 .. NPAGEREFS_PER_PAGE]]
  /\ refs \in [Pagerefs -> Pageref]
  /\ sizebases \in [BlockTypes -> Seq(Pagerefs)]
  /\ allbase \in Seq(Pagerefs)
  /\ held \subseteq Block
  /\ pc \in [Threads -> {"run", "page", "pageref", "refpage", "relock", "raced", "giveback"}]
  /\ blktype \in [Threads -> BlockTypes]
  /\ prpage \in [Threads -> Pages \cup {NULL}]
  /\ pr \in [Threads -> Pagerefs \cup {NULL}]
  /\ va \in [Threads -> Pages \cup {NULL}]
  /\ leaked \subseteq Pagerefs
  /\ panicked \in BOOLEAN

\* No two blocks that kmalloc has returned share memory, and none is on a page
\* that belongs to the page allocator or to the heap's own structures.
HeldDisjoint ==
  /\ \A b, c \in held :
       b # c /\ b.page = c.page => b.offset + b.size <= c.offset \/ c.offset + c.size <= b.offset
  /\ \A b \in held : b.page \notin kpages /\ \A r \in Roots : kheaproots[r].page # b.page

\* On every page of blocks the freelist has nfree elements, and it and the
\* blocks held are all the blocks of the page, each once (kmalloc.c:1105 gives
\* up on the check for a block freed twice).
FreelistsAgree ==
  \A q \in Live :
    LET ref == refs[q]
        size == sizes[ref.blktype]
    IN /\ ref.nfree = Len(ref.freelist)
       /\ \A b \in BlocksOf(ref.page) : b.size = size /\ b.offset \notin Range(ref.freelist)
       /\ Range(ref.freelist) \cup {b.offset : b \in BlocksOf(ref.page)}
            = {k * size : k \in 0 .. PAGE_SIZE \div size - 1}
       /\ ref.nfree + Cardinality(BlocksOf(ref.page)) = PAGE_SIZE \div size

\* A page is on the list of its size and on that of all pages, once each, and
\* the bits set are those of these pages, of the calls between allocpageref
\* and its page, and of the calls that failed there (kmalloc.c:281-287).
ListsAgree ==
  /\ IsInjective(allbase)
  /\ \A b \in BlockTypes :
       IsInjective(sizebases[b]) /\ Range(sizebases[b]) = {q \in Live : refs[q].blktype = b}
  /\ ~ panicked =>
       {q \in Pagerefs : q[2] \in kheaproots[q[1]].inuse} = Live \cup leaked \cup ({pr[t] : t \in Threads} \ {NULL})
  /\ \A r \in Roots : kheaproots[r].numinuse = Cardinality(kheaproots[r].inuse)

\* The heap's lists, freelists and bitmaps tell the same story.
HeapConsistent == TypeOK /\ FreelistsAgree /\ ListsAgree

\* The places a page can be in. Whatever the calls in progress and whichever
\* of them fail or lose a race for a root's page, every page is in one of them.
PagePlaces(p) ==
  {<<"free">> : x \in {p} \cap kpages}
  \cup {<<"root", r>> : r \in {r \in Roots : kheaproots[r].page = p}}
  \cup {<<"blocks", q>> : q \in {q \in Live : refs[q].page = p}}
  \cup {<<"big", b>> : b \in {b \in held : b.page = p /\ b.size = PAGE_SIZE}}
  \cup {<<"prpage", t>> : t \in {t \in Threads : prpage[t] = p}}
  \cup {<<"va", t>> : t \in {t \in Threads : va[t] = p}}
PagesAccounted == ~ panicked => \A p \in Pages : Cardinality(PagePlaces(p)) = 1

\* freepageref asserts that a root without a page has no pagerefs in use
\* (kmalloc.c:318). That is false while a call waits for the page and for ever
\* after one did not get it, but it is looked at only on the way to a later
\* root, so not before one root is full of such calls.
AssertionBehindFullRoot ==
  panicked => \E r \in Roots : \A k \in 1 .. NPAGEREFS_PER_PAGE : <<r, k>> \in leaked \cup {pr[t] : t \in Threads}

=============================================================================
