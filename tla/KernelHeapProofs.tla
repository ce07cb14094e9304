--------------------------- MODULE KernelHeapProofs ---------------------------
(***************************************************************************)
(* Proofs about KernelHeap, for any threads and pages, any sizes of blocks *)
(* of which two fit on a page, and any numbers of roots and pagerefs.      *)
(*                                                                         *)
(* The invariant has a part that holds for ever (what is on the pages of   *)
(* blocks and the lists) and one that holds until an assertion fails (what *)
(* the calls in progress have in hand, and what the bits set are for).     *)
(***************************************************************************)
EXTENDS KernelHeap, FiniteSetTheorems, WellFoundedInduction, TLAPS

\* The size of the blocks of a page, and their number.
Size(ref) == sizes[ref.blktype]
NBlocks(ref) == PAGE_SIZE \div sizes[ref.blktype]
Listed(s, x) == \E k \in 1 .. Len(s) : s[k] = x

\* A page's freelist and the blocks of it that are held, taken together, are
\* the blocks of the page, each once.
Agrees(ref, B) ==
  /\ ref.nfree = Len(ref.freelist)
  /\ \A k, l \in 1 .. Len(ref.freelist) : ref.freelist[k] = ref.freelist[l] => k = l
  /\ \A b \in B : b.size = Size(ref) /\ ~ Listed(ref.freelist, b.offset)
  /\ \A o \in 0 .. PAGE_SIZE - 1 :
       (Listed(ref.freelist, o) \/ \E b \in B : b.offset = o)
         <=> \E k \in 0 .. NBlocks(ref) - 1 : o = k * Size(ref)
  /\ ref.nfree + Cardinality(B) = NBlocks(ref)

OnPage(blocks, p) == {b \in blocks : b.page = p}

PagesOfBlocks == \A q \in Live : refs[q].page \in Pages /\ Agrees(refs[q], OnPage(held, refs[q].page))

\* A block held is a whole page, or on a page of blocks.
Placed(b) == IF b.size = PAGE_SIZE THEN b.offset = 0 ELSE \E q \in Live : refs[q].page = b.page
BlocksPlaced == IsFiniteSet(held) /\ \A b \in held : Placed(b)

Lists ==
  /\ IsInjective(allbase)
  /\ \A b \in BlockTypes :
       /\ IsInjective(sizebases[b])
       /\ \A q \in Pagerefs : q \in Range(sizebases[b]) <=> q \in Live /\ refs[q].blktype = b

Counted == \A r \in Roots : kheaproots[r].numinuse = Cardinality(kheaproots[r].inuse)

\* Who has a page: nobody has it twice, and no two have it.
In(k, v, p) ==
  \/ k = "free" /\ v = NULL /\ p \in kpages
  \/ k = "root" /\ v \in Roots /\ kheaproots[v].page = p
  \/ k = "blocks" /\ v \in Live /\ refs[v].page = p
  \/ k = "big" /\ v \in held /\ v.page = p /\ v.size = PAGE_SIZE
  \/ k = "prpage" /\ v \in Threads /\ prpage[v] = p
  \/ k = "va" /\ v \in Threads /\ va[v] = p
OnePlace == \A p \in Pages : \A k, v, l, w : In(k, v, p) /\ In(l, w, p) => k = l /\ v = w

\* What holds for ever.
Heap == TypeOK /\ PagesOfBlocks /\ BlocksPlaced /\ Lists /\ Counted /\ OnePlace

\* Until an assertion fails no page is lost, a call has in hand what its label
\* says, and a bit is set for a page of blocks, a call that waits for the page of
\* its root, or one that has waited in vain.
SomePlace == \A p \in Pages : \E k, v : In(k, v, p)
HasPage == {"pageref", "refpage", "relock", "raced", "giveback"}
HasRef == {"refpage", "relock", "raced"}
InHand ==
  \A t \in Threads :
    /\ prpage[t] # NULL <=> pc[t] \in HasPage
    /\ pr[t] # NULL <=> pc[t] \in HasRef
    /\ va[t] # NULL => pc[t] \in {"relock", "raced"}
    /\ pc[t] = "raced" => RefPage(t) # NULL
InUse(q) == q[2] \in kheaproots[q[1]].inuse
Bits ==
  /\ \A q \in Pagerefs : InUse(q) <=> q \in Live \/ q \in leaked \/ \E t \in Threads : pr[t] = q
  /\ \A q \in Live : q \notin leaked /\ \A t \in Threads : pr[t] # q
  /\ \A t, u \in Threads : pr[t] # NULL /\ pr[t] = pr[u] => t = u
  /\ \A t \in Threads : pr[t] \notin leaked
  /\ \A q \in Live : kheaproots[q[1]].page # NULL

\* A root without a page has none of its bits cleared, and before a bit of a later
\* root was set all of its were.
FullBefore ==
  \A r, s \in Roots : r < s /\ kheaproots[r].page = NULL /\ kheaproots[s].inuse # {} =>
    kheaproots[r].inuse = 1 .. NPAGEREFS_PER_PAGE

Calls == SomePlace /\ InHand /\ Bits /\ FullBefore

IInv == Heap /\ (~ panicked => Calls) /\ AssertionBehindFullRoot

-----------------------------------------------------------------------------
(* Numbers and sequences                                                   *)

\* A set of numbers with a number in it has a least one.
LEMMA Least == ASSUME NEW S \in SUBSET Nat, S # {} PROVE Min(S) \in S /\ \A l \in S : Min(S) <= l
<1> DEFINE R == {ss \in Nat \X Nat : ss[1] < ss[2]}
<1>1. IsWellFoundedOn(R, Nat)
  BY NatLessThanWellFounded DEF OpToRel
<1>2. PICK k \in S : \A l \in S : ~ (<<l, k>> \in R)
  <2> HIDE DEF R
  <2> QED
    BY <1>1, WFMin
<1>3. ASSUME NEW l \in S PROVE k <= l
  <2>1. <<l, k>> \in Nat \X Nat
    OBVIOUS
  <2>2. ~ (l < k)
    BY <1>2, <2>1
  <2>3. QED
    BY <2>2
<1>4. QED
  BY <1>3 DEF Min

\* The blocks of a size on a page.
LEMMA BlockNumbers ==
  ASSUME NEW s \in 1 .. PAGE_SIZE \div 2, NEW n, n = PAGE_SIZE \div s
  PROVE  /\ n \in Nat /\ n >= 2 /\ n <= PAGE_SIZE /\ s \in Nat /\ s > 0 /\ 2 * s <= PAGE_SIZE
         /\ \A k \in 0 .. n - 1 : k * s \in 0 .. PAGE_SIZE - 1 /\ k * s + s <= PAGE_SIZE
         /\ \A k, l \in 0 .. n - 1 : k < l => k * s + s <= l * s
<1>1. PAGE_SIZE \in Nat /\ PAGE_SIZE > 0
  BY KernelHeapAssumption
<1>2. s \in Nat /\ s > 0 /\ 2 * s <= PAGE_SIZE
  BY <1>1
<1>3. n \in Nat /\ n * s <= PAGE_SIZE /\ PAGE_SIZE < n * s + s
  BY <1>1, <1>2
<1>4. n >= 2
  <2>1. ASSUME n < 2 PROVE FALSE
    <3>1. n * s + s <= 2 * s
      BY <1>2, <1>3, <2>1
    <3>2. QED
      BY <1>1, <1>2, <1>3, <3>1
  <2>2. QED
    BY <1>3, <2>1
<1>5. ASSUME NEW k \in 0 .. n - 1, NEW l \in Nat, k < l PROVE k * s + s <= l * s
  <2>1. l - k >= 1 /\ l - k \in Nat
    BY <1>3, <1>5
  <2>2. (l - k) * s >= s
    BY <1>2, <2>1
  <2>3. (l - k) * s = l * s - k * s
    BY <1>2, <1>3
  <2>4. k * s \in Nat /\ l * s \in Nat
    BY <1>2, <1>3
  <2>5. QED
    BY <1>2, <2>2, <2>3, <2>4
<1>6. ASSUME NEW k \in 0 .. n - 1 PROVE k * s \in 0 .. PAGE_SIZE - 1 /\ k * s + s <= PAGE_SIZE
  <2>1. k * s + s <= n * s
    BY <1>3, <1>5
  <2>2. k * s \in Nat
    BY <1>2, <1>3
  <2>3. QED
    BY <1>1, <1>2, <1>3, <2>1, <2>2
<1>7. n <= PAGE_SIZE
  <2>1. s - 1 \in Nat /\ n * s = n * (s - 1) + n
    BY <1>2, <1>3
  <2>2. n * (s - 1) \in Nat
    BY <1>3, <2>1
  <2>3. QED
    BY <1>1, <1>3, <2>1, <2>2
<1>8. QED
  BY <1>2, <1>3, <1>4, <1>5, <1>6, <1>7

\* A list without repetitions and a new first element.
LEMMA PutFirst ==
  ASSUME NEW S, NEW s \in Seq(S), NEW x \in S
  PROVE  /\ <<x>> \o s \in Seq(S)
         /\ Len(<<x>> \o s) = Len(s) + 1
         /\ \A y : Listed(<<x>> \o s, y) <=> y = x \/ Listed(s, y)
         /\ ~ Listed(s, x) /\ (\A k, l \in 1 .. Len(s) : s[k] = s[l] => k = l) =>
              \A k, l \in 1 .. Len(<<x>> \o s) : (<<x>> \o s)[k] = (<<x>> \o s)[l] => k = l
<1> DEFINE r == <<x>> \o s
           n == Len(s)
<1>1. r \in Seq(S) /\ n \in Nat /\ Len(r) = n + 1 /\ r[1] = x /\ \A k \in 2 .. n + 1 : r[k] = s[k - 1]
  OBVIOUS
<1> HIDE DEF r
<1>2. ASSUME NEW y PROVE Listed(r, y) <=> y = x \/ Listed(s, y)
  <2>1. ASSUME Listed(s, y) PROVE Listed(r, y)
    <3>1. PICK k \in 1 .. n : s[k] = y
      BY <2>1 DEF Listed
    <3>2. k + 1 \in 2 .. n + 1 /\ (k + 1) - 1 = k
      BY <1>1
    <3>3. k + 1 \in 1 .. Len(r) /\ r[k + 1] = s[k]
      BY <1>1, <3>2
    <3>4. QED
      BY <3>1, <3>3 DEF Listed
  <2>2. ASSUME Listed(r, y), y # x PROVE Listed(s, y)
    <3>1. PICK k \in 1 .. n + 1 : r[k] = y
      BY <1>1, <2>2 DEF Listed
    <3>2. k \in 2 .. n + 1 /\ k - 1 \in 1 .. n
      BY <1>1, <2>2, <3>1
    <3>3. QED
      BY <1>1, <3>1, <3>2 DEF Listed
  <2>3. Listed(r, x)
    <3>1. 1 \in 1 .. n + 1
      BY <1>1
    <3>2. QED
      BY <1>1, <3>1 DEF Listed
  <2>4. QED
    BY <2>1, <2>2, <2>3
<1>3. ASSUME ~ Listed(s, x), \A k, l \in 1 .. n : s[k] = s[l] => k = l,
             NEW k \in 1 .. n + 1, NEW l \in 1 .. n + 1, r[k] = r[l]
      PROVE  k = l
  <2>1. CASE k # 1 /\ l # 1
    <3>1. k - 1 \in 1 .. n /\ l - 1 \in 1 .. n /\ k \in 2 .. n + 1 /\ l \in 2 .. n + 1
      BY <1>1, <2>1
    <3>2. k - 1 = l - 1
      BY <1>1, <1>3, <3>1
    <3>3. QED
      BY <3>1, <3>2
  <2>2. CASE k = 1 /\ l # 1
    <3>1. l - 1 \in 1 .. n /\ l \in 2 .. n + 1
      BY <1>1, <2>2
    <3>2. QED
      BY <1>1, <1>3, <2>2, <3>1 DEF Listed
  <2>3. CASE k # 1 /\ l = 1
    <3>1. k - 1 \in 1 .. n /\ k \in 2 .. n + 1
      BY <1>1, <2>3
    <3>2. QED
      BY <1>1, <1>3, <2>3, <3>1 DEF Listed
  <2>4. QED
    BY <2>1, <2>2, <2>3
<1>4. QED
  BY <1>1, <1>2, <1>3 DEF r

\* What is left of a list without repetitions after its first element.
LEMMA TakeFirst ==
  ASSUME NEW S, NEW s \in Seq(S), s # <<>>, \A k, l \in 1 .. Len(s) : s[k] = s[l] => k = l
  PROVE  /\ Head(s) \in S /\ Listed(s, Head(s))
         /\ Tail(s) \in Seq(S)
         /\ Len(Tail(s)) = Len(s) - 1
         /\ \A y : Listed(Tail(s), y) <=> y # Head(s) /\ Listed(s, y)
         /\ \A k, l \in 1 .. Len(Tail(s)) : Tail(s)[k] = Tail(s)[l] => k = l
<1> DEFINE r == Tail(s)
           n == Len(s) - 1
<1>1. /\ r \in Seq(S) /\ n \in Nat /\ Len(r) = n /\ Len(s) = n + 1 /\ Head(s) = s[1] /\ s[1] \in S
      /\ \A k \in 1 .. n : r[k] = s[k + 1]
  OBVIOUS
<1> HIDE DEF r, n
<1>2. \A k \in 1 .. n : k + 1 \in 1 .. n + 1 /\ k + 1 # 1
  BY <1>1
<1>3. \A k \in 1 .. n + 1 : k # 1 => k - 1 \in 1 .. n /\ (k - 1) + 1 = k
  BY <1>1
<1>4. 1 \in 1 .. n + 1 /\ \A k, l \in 1 .. n : k + 1 = l + 1 => k = l
  BY <1>1
<1>5. ASSUME NEW y PROVE (\E k \in 1 .. n : r[k] = y) <=> (y # Head(s) /\ \E k \in 1 .. Len(s) : s[k] = y)
  <2>1. ASSUME NEW k \in 1 .. n, r[k] = y PROVE y # s[1] /\ s[k + 1] = y /\ k + 1 \in 1 .. Len(s)
    BY <1>1, <1>2, <1>4, <2>1
  <2>2. ASSUME NEW k \in 1 .. Len(s), s[k] = y, y # s[1] PROVE r[k - 1] = y /\ k - 1 \in 1 .. n
    BY <1>1, <1>3, <2>2
  <2>3. QED
    BY <1>1, <2>1, <2>2
<1>6. \A k, l \in 1 .. n : r[k] = r[l] => k = l
  BY <1>1, <1>2, <1>4
<1>7. QED
  BY <1>1, <1>4, <1>5, <1>6 DEF r, n, Listed

\* Unlinking an element of a list without repetitions.
LEMMA TakeOut ==
  ASSUME NEW S, NEW s \in Seq(S), NEW x, Listed(s, x), IsInjective(s)
  PROVE  /\ RemoveFirst(s, x) \in Seq(S)
         /\ IsInjective(RemoveFirst(s, x))
         /\ \A y : y \in Range(RemoveFirst(s, x)) <=> y # x /\ y \in Range(s)
<1>1. Len(s) \in Nat /\ DOMAIN s = 1 .. Len(s)
  OBVIOUS
<1> DEFINE I == {k \in 1 .. Len(s) : s[k] = x}
<1>2. I \in SUBSET Nat /\ I # {}
  BY <1>1 DEF Listed
<1>3. PICK m : m = Min(I)
  OBVIOUS
<1>4. m \in I
  <2> HIDE DEF I
  <2> QED
    BY <1>2, <1>3, Least
<1>5. RemoveFirst(s, x) = RemoveAt(s, m)
  <2>1. \E k \in 1 .. Len(s) : s[k] = x
    BY DEF Listed
  <2>2. SelectInSeq(s, LAMBDA v : v = x) = m
    BY <1>2, <1>3 DEF SelectInSeq
  <2>3. QED
    BY <2>1, <2>2 DEF RemoveFirst
<1>6. PICK r : r = SubSeq(s, 1, m - 1) \o SubSeq(s, m + 1, Len(s))
  OBVIOUS
<1>7. RemoveFirst(s, x) = r
  BY <1>5, <1>6 DEF RemoveAt
<1>8. PICK n \in Nat : n = Len(s) - 1
  <2>1. Len(s) - 1 \in Nat
    BY <1>1, <1>4
  <2>2. QED
    BY <2>1
<1>9. m \in 1 .. n + 1 /\ s[m] = x /\ Len(s) = n + 1
  BY <1>1, <1>4, <1>8
<1> HIDE DEF I
<1>10. /\ r \in Seq(S) /\ Len(r) = n
       /\ \A k \in 1 .. n : r[k] = IF k < m THEN s[k] ELSE s[k + 1]
  <2>1. PICK a : a = SubSeq(s, 1, m - 1)
    OBVIOUS
  <2>2. a \in Seq(S) /\ Len(a) = m - 1 /\ \A k \in 1 .. m - 1 : a[k] = s[k]
    BY <1>1, <1>9, <2>1
  <2>3. PICK b : b = SubSeq(s, m + 1, Len(s))
    OBVIOUS
  <2>4. b \in Seq(S) /\ Len(b) = n + 1 - m /\ \A k \in 1 .. n + 1 - m : b[k] = s[m + k]
    BY <1>1, <1>9, <2>3
  <2>5. r = a \o b
    BY <1>6, <2>1, <2>3
  <2>6. r \in Seq(S) /\ Len(r) = n
    <3>1. Len(a) + Len(b) = n
      BY <1>8, <1>9, <2>2, <2>4
    <3>2. a \in Seq(S) /\ b \in Seq(S)
      BY <2>2, <2>4
    <3>3. a \o b \in Seq(S) /\ Len(a \o b) = Len(a) + Len(b)
      BY <3>2
    <3>4. QED
      BY <2>5, <3>1, <3>3
  <2>7. ASSUME NEW k \in 1 .. n PROVE r[k] = IF k < m THEN s[k] ELSE s[k + 1]
    <3>1. CASE k < m
      BY <1>9, <2>2, <2>4, <2>5, <3>1
    <3>2. CASE ~ (k < m)
      <4>1. k - (m - 1) \in 1 .. n + 1 - m /\ m + (k - (m - 1)) = k + 1
        BY <1>9, <3>2
      <4>2. r[k] = b[k - (m - 1)]
        BY <1>9, <2>2, <2>4, <2>5, <3>2
      <4>3. QED
        BY <2>4, <3>2, <4>1, <4>2
    <3>3. QED
      BY <3>1, <3>2
  <2>8. QED
    BY <2>6, <2>7
<1>11. \A k, l \in 1 .. n + 1 : s[k] = s[l] => k = l
  BY <1>1, <1>9 DEF IsInjective
<1>12. IsInjective(r)
  <2>1. DOMAIN r = 1 .. n
    BY <1>10
  <2>2. SUFFICES ASSUME NEW k \in 1 .. n, NEW l \in 1 .. n, r[k] = r[l] PROVE k = l
    BY <2>1 DEF IsInjective
  <2>3. k \in 1 .. n + 1 /\ l \in 1 .. n + 1 /\ k + 1 \in 1 .. n + 1 /\ l + 1 \in 1 .. n + 1
    BY <1>8
  <2>4. QED
    BY <1>9, <1>10, <1>11, <2>2, <2>3
<1>13. ASSUME NEW y PROVE y \in Range(r) <=> y # x /\ y \in Range(s)
  <2>1. y \in Range(r) <=> \E k \in 1 .. n : r[k] = y
    BY <1>10 DEF Range
  <2>2. y \in Range(s) <=> \E k \in 1 .. n + 1 : s[k] = y
    BY <1>1, <1>9 DEF Range
  <2>3. ASSUME NEW k \in 1 .. n PROVE r[k] # x /\ \E l \in 1 .. n + 1 : s[l] = r[k]
    <3>1. k \in 1 .. n + 1 /\ k + 1 \in 1 .. n + 1 /\ (k < m => k # m) /\ (~ (k < m) => k + 1 # m)
      BY <1>9
    <3>2. QED
      BY <1>9, <1>10, <1>11, <3>1
  <2>4. ASSUME NEW l \in 1 .. n + 1, s[l] # x PROVE \E k \in 1 .. n : r[k] = s[l]
    <3>1. CASE l < m
      <4>1. l \in 1 .. n
        BY <1>9, <3>1
      <4>2. QED
        BY <1>10, <3>1, <4>1
    <3>2. CASE l > m
      <4>1. l - 1 \in 1 .. n /\ ~ (l - 1 < m) /\ (l - 1) + 1 = l
        BY <1>9, <3>2
      <4>2. QED
        BY <1>10, <4>1
    <3>3. l # m
      BY <1>9, <2>4
    <3>4. QED
      BY <1>9, <3>1, <3>2, <3>3
  <2>5. QED
    BY <2>1, <2>2, <2>3, <2>4
<1>14. QED
  BY <1>7, <1>10, <1>12, <1>13

-----------------------------------------------------------------------------
(* The blocks of one page                                                  *)

\* The fields of a pageref, and the blocks of its page.
LEMMA PagerefFields ==
  ASSUME NEW ref \in Pageref
  PROVE  /\ ref.page \in Pages \cup {NULL} /\ ref.blktype \in BlockTypes
         /\ ref.nfree \in 0 .. PAGE_SIZE /\ ref.nfree \in Nat
         /\ ref.freelist \in Seq(0 .. PAGE_SIZE - 1) /\ Len(ref.freelist) \in Nat
         /\ Size(ref) \in 1 .. PAGE_SIZE \div 2 /\ Size(ref) = sizes[ref.blktype]
         /\ NBlocks(ref) = PAGE_SIZE \div Size(ref)
<1>1. /\ ref.page \in Pages \cup {NULL} /\ ref.blktype \in BlockTypes
      /\ ref.nfree \in 0 .. PAGE_SIZE /\ ref.freelist \in Seq(0 .. PAGE_SIZE - 1)
  BY DEF Pageref
<1>2. sizes[ref.blktype] \in 1 .. PAGE_SIZE \div 2
  BY <1>1, KernelHeapAssumption DEF BlockTypes
<1>3. ref.nfree \in Nat
  BY <1>1, KernelHeapAssumption
<1>4. QED
  BY <1>1, <1>2, <1>3 DEF Size, NBlocks

\* Two blocks of a page that start at the same place are one.
LEMMA SameBlock ==
  ASSUME NEW b \in Block, NEW c \in Block, b.page = c.page, b.offset = c.offset, b.size = c.size
  PROVE  b = c
BY DEF Block

\* A new page: all its blocks are on the freelist.
LEMMA FreshPage ==
  ASSUME NEW b \in BlockTypes, NEW p \in Pages, NEW n, n = PAGE_SIZE \div sizes[b], NEW ref,
         ref = [page |-> p, blktype |-> b, nfree |-> n, freelist |-> [k \in 1 .. n |-> (n - k) * sizes[b]]]
  PROVE  ref \in Pageref /\ ref.page = p /\ ref.blktype = b /\ ref.nfree > 0 /\ Agrees(ref, {})
<1>1. PICK s \in 1 .. PAGE_SIZE \div 2 : s = sizes[b]
  BY KernelHeapAssumption DEF BlockTypes
<1>2. /\ n \in Nat /\ n >= 2 /\ n <= PAGE_SIZE /\ s \in Nat /\ s > 0
      /\ \A k \in 0 .. n - 1 : k * s \in 0 .. PAGE_SIZE - 1
      /\ \A k, l \in 0 .. n - 1 : k < l => k * s + s <= l * s
  BY <1>1, BlockNumbers
<1>3. PICK fl : fl = [k \in 1 .. n |-> (n - k) * s]
  OBVIOUS
<1>4. \A k \in 1 .. n : n - k \in 0 .. n - 1 /\ fl[k] = (n - k) * s
  BY <1>2, <1>3
<1>5. \A k \in 1 .. n : fl[k] \in 0 .. PAGE_SIZE - 1
  BY <1>2, <1>4
<1>6. fl \in Seq(0 .. PAGE_SIZE - 1) /\ Len(fl) = n
  <2>1. PICK S : S = 0 .. PAGE_SIZE - 1
    OBVIOUS
  <2>2. fl \in [1 .. n -> S]
    BY <1>3, <1>5, <2>1
  <2>3. fl \in Seq(S) /\ Len(fl) = n
    BY <1>2, <2>2
  <2>4. QED
    BY <2>1, <2>3
<1>7. ref = [page |-> p, blktype |-> b, nfree |-> n, freelist |-> fl]
  BY <1>1, <1>3
<1>8. n \in 0 .. PAGE_SIZE
  BY <1>2, KernelHeapAssumption
<1>9. ref \in Pageref
  BY <1>6, <1>7, <1>8 DEF Pageref
<1>10. ASSUME NEW k \in 1 .. n, NEW l \in 1 .. n, fl[k] = fl[l] PROVE k = l
  <2>1. PICK i \in 0 .. n - 1, j \in 0 .. n - 1 : i = n - k /\ j = n - l
    BY <1>4
  <2>2. i * s = j * s /\ i * s \in Nat
    <3>1. fl[k] = i * s
      BY <1>4, <2>1
    <3>2. fl[l] = j * s
      BY <1>4, <2>1
    <3>3. i * s \in Nat
      BY <1>2
    <3>4. QED
      BY <1>10, <3>1, <3>2, <3>3
  <2>3. ~ (i < j) /\ ~ (j < i)
    BY <1>2, <2>2
  <2>4. QED
    BY <1>2, <2>1, <2>3
<1>11. ASSUME NEW o PROVE Listed(fl, o) <=> \E k \in 0 .. n - 1 : o = k * s
  <2>1. \A k \in 0 .. n - 1 : n - k \in 1 .. n /\ n - (n - k) = k
    BY <1>2
  <2>2. ASSUME NEW k \in 0 .. n - 1 PROVE fl[n - k] = k * s /\ n - k \in 1 .. n
    BY <1>4, <2>1
  <2>3. QED
    BY <1>4, <1>6, <2>2 DEF Listed
<1>12. Size(ref) = s /\ NBlocks(ref) = n
  BY <1>1, <1>7 DEF Size, NBlocks
<1>13. n + 0 = n
  BY <1>2
<1>14. ref.page = p /\ ref.blktype = b /\ ref.nfree = n /\ ref.freelist = fl
  BY <1>7
<1>15. n + Cardinality({}) = n
  BY <1>13, FS_EmptySet
<1>16. Agrees(ref, {})
  <2>1. ref.nfree = Len(ref.freelist) /\ ref.nfree + Cardinality({}) = NBlocks(ref)
    BY <1>6, <1>12, <1>14, <1>15
  <2>2. \A k, l \in 1 .. Len(ref.freelist) : ref.freelist[k] = ref.freelist[l] => k = l
    BY <1>6, <1>10, <1>14
  <2>3. \A o \in 0 .. PAGE_SIZE - 1 : Listed(ref.freelist, o) <=> \E k \in 0 .. NBlocks(ref) - 1 : o = k * Size(ref)
    <3>1. ASSUME NEW o, Listed(ref.freelist, o) PROVE \E k \in 0 .. NBlocks(ref) - 1 : o = k * Size(ref)
      <4>1. PICK k \in 0 .. n - 1 : o = k * s
        BY <1>11, <1>14, <3>1
      <4>2. k \in 0 .. NBlocks(ref) - 1 /\ o = k * Size(ref)
        BY <1>12, <4>1
      <4>3. QED
        BY <4>2
    <3>2. ASSUME NEW k \in 0 .. NBlocks(ref) - 1 PROVE Listed(ref.freelist, k * Size(ref))
      <4>1. k \in 0 .. n - 1 /\ k * Size(ref) = k * s
        BY <1>12
      <4>2. Listed(fl, k * s)
        BY <1>11, <4>1
      <4>3. QED
        BY <1>14, <4>1, <4>2
    <3>3. ASSUME NEW o, \E k \in 0 .. NBlocks(ref) - 1 : o = k * Size(ref)
          PROVE  Listed(ref.freelist, o)
      <4>1. PICK k \in 0 .. NBlocks(ref) - 1 : o = k * Size(ref)
        BY <3>3
      <4>2. QED
        BY <3>2, <4>1
    <3> DEFINE Start(o) == \E k \in 0 .. NBlocks(ref) - 1 : o = k * Size(ref)
    <3>4. \A o : Listed(ref.freelist, o) => Start(o)
      BY <3>1
    <3>5. \A o : Start(o) => Listed(ref.freelist, o)
      BY <3>3
    <3> HIDE DEF Start
    <3>6. \A o \in 0 .. PAGE_SIZE - 1 : Listed(ref.freelist, o) <=> Start(o)
      BY <3>4, <3>5
    <3>7. QED
      BY <3>6 DEF Start
  <2>4. QED
    BY <2>1, <2>2, <2>3 DEF Agrees
<1>17. QED
  BY <1>2, <1>9, <1>14, <1>16

\* A pageref whose first block is taken, that block, and one that is given a block.
Took(ref) == [ref EXCEPT !.nfree = @ - 1, !.freelist = Tail(@)]
FirstBlock(ref) == [page |-> ref.page, offset |-> Head(ref.freelist), size |-> sizes[ref.blktype]]
Gave(ref, o) == [ref EXCEPT !.nfree = @ + 1, !.freelist = <<o>> \o @]

\* doalloc: the first block of the freelist is held.
LEMMA TakeBlock ==
  ASSUME NEW ref \in Pageref, ref.page \in Pages, NEW B \in SUBSET Block, IsFiniteSet(B),
         \A b \in B : b.page = ref.page, Agrees(ref, B), ref.nfree > 0
  PROVE  /\ Took(ref) \in Pageref /\ Took(ref).page = ref.page /\ Took(ref).blktype = ref.blktype
         /\ FirstBlock(ref) \in Block /\ FirstBlock(ref).page = ref.page /\ FirstBlock(ref).size = Size(ref)
         /\ Agrees(Took(ref), B \cup {FirstBlock(ref)})
<1>c. PICK after : after = Took(ref)
  OBVIOUS
<1>d. PICK new : new = FirstBlock(ref)
  OBVIOUS
<1>a. PICK fl : fl = ref.freelist
  OBVIOUS
<1>b. PICK S : S = 0 .. PAGE_SIZE - 1
  OBVIOUS
<1>1. /\ ref.blktype \in BlockTypes /\ ref.nfree \in 1 .. PAGE_SIZE /\ ref.nfree = Len(fl)
      /\ fl \in Seq(S) /\ Len(fl) \in Nat
      /\ Size(ref) \in 1 .. PAGE_SIZE \div 2 /\ Size(ref) = sizes[ref.blktype]
  <2>1. /\ ref.blktype \in BlockTypes /\ ref.nfree \in 0 .. PAGE_SIZE /\ ref.nfree \in Nat
        /\ ref.freelist \in Seq(0 .. PAGE_SIZE - 1) /\ Len(ref.freelist) \in Nat
        /\ Size(ref) \in 1 .. PAGE_SIZE \div 2 /\ Size(ref) = sizes[ref.blktype]
    BY PagerefFields
  <2>2. ref.nfree = Len(fl)
    BY <1>a DEF Agrees
  <2>3. QED
    BY <1>a, <1>b, <2>1, <2>2
<1>2. fl # <<>>
  BY <1>1
<1>3. PICK h : h = Head(fl)
  OBVIOUS
<1>4. PICK r : r = Tail(fl)
  OBVIOUS
<1>5. \A k, l \in 1 .. Len(fl) : fl[k] = fl[l] => k = l
  BY <1>a DEF Agrees
<1>6. /\ h \in S /\ Listed(fl, h) /\ r \in Seq(S) /\ Len(r) = Len(fl) - 1
      /\ \A y : Listed(r, y) <=> y # h /\ Listed(fl, y)
      /\ \A k, l \in 1 .. Len(r) : r[k] = r[l] => k = l
  <2>1. fl \in Seq(S)
    BY <1>1
  <2>2. /\ Head(fl) \in S /\ Listed(fl, Head(fl))
        /\ Tail(fl) \in Seq(S)
        /\ Len(Tail(fl)) = Len(fl) - 1
        /\ \A y : Listed(Tail(fl), y) <=> y # Head(fl) /\ Listed(fl, y)
        /\ \A k, l \in 1 .. Len(Tail(fl)) : Tail(fl)[k] = Tail(fl)[l] => k = l
    BY <1>2, <1>5, <2>1, TakeFirst
  <2>3. QED
    BY <1>3, <1>4, <2>2
<1>7. /\ after.page = ref.page /\ after.blktype = ref.blktype /\ after.nfree = ref.nfree - 1 /\ after.freelist = r
      /\ after = [page |-> ref.page, blktype |-> ref.blktype, nfree |-> ref.nfree - 1, freelist |-> r]
  BY <1>a, <1>c, <1>4 DEF Pageref, Took
<1>8. after \in Pageref
  <2>1. ref.nfree - 1 \in 0 .. PAGE_SIZE
    BY <1>1, KernelHeapAssumption
  <2>2. QED
    BY <1>1, <1>b, <1>6, <1>7, <2>1 DEF Pageref
<1>9. new = [page |-> ref.page, offset |-> h, size |-> Size(ref)]
  BY <1>1, <1>a, <1>d, <1>3 DEF FirstBlock
<1>10. new \in Block
  <2>1. Size(ref) \in 1 .. PAGE_SIZE
    BY <1>1, KernelHeapAssumption
  <2>2. QED
    BY <1>b, <1>6, <1>9, <2>1 DEF Block
<1>11. new \notin B
  BY <1>a, <1>6, <1>9 DEF Agrees
<1>12. Size(after) = Size(ref) /\ NBlocks(after) = NBlocks(ref)
  BY <1>7 DEF Size, NBlocks
<1>13. \A b \in B \cup {new} : b.size = Size(after) /\ ~ Listed(after.freelist, b.offset)
  <2>1. \A y : Listed(after.freelist, y) <=> y # h /\ Listed(ref.freelist, y)
    BY <1>a, <1>6, <1>7
  <2>2. \A b \in B : b.size = Size(ref) /\ ~ Listed(ref.freelist, b.offset)
    BY DEF Agrees
  <2>3. new.size = Size(ref) /\ new.offset = h
    BY <1>9
  <2>4. QED
    BY <1>12, <2>1, <2>2, <2>3
<1>14. ASSUME NEW o \in 0 .. PAGE_SIZE - 1
       PROVE  (Listed(after.freelist, o) \/ \E b \in B \cup {new} : b.offset = o)
                <=> \E k \in 0 .. NBlocks(after) - 1 : o = k * Size(after)
  <2>1. (Listed(ref.freelist, o) \/ \E b \in B : b.offset = o) <=> \E k \in 0 .. NBlocks(ref) - 1 : o = k * Size(ref)
    BY DEF Agrees
  <2>2. Listed(after.freelist, o) <=> o # h /\ Listed(fl, o)
    BY <1>6, <1>7
  <2>3. (\E b \in B \cup {new} : b.offset = o) <=> o = h \/ \E b \in B : b.offset = o
    BY <1>9
  <2>4. (Listed(after.freelist, o) \/ \E b \in B \cup {new} : b.offset = o) <=> (Listed(fl, o) \/ \E b \in B : b.offset = o)
    BY <1>6, <2>2, <2>3
  <2>5. QED
    BY <1>a, <1>12, <2>1, <2>4
<1>15. after.nfree + Cardinality(B \cup {new}) = NBlocks(after)
  <2>1. Cardinality(B \cup {new}) = Cardinality(B) + 1 /\ Cardinality(B) \in Nat
    BY <1>11, FS_AddElement, FS_CardinalityType
  <2>2. ref.nfree + Cardinality(B) = NBlocks(ref)
    BY DEF Agrees
  <2>3. (ref.nfree - 1) + (Cardinality(B) + 1) = ref.nfree + Cardinality(B)
    BY <1>1, <2>1
  <2>4. QED
    BY <1>7, <1>12, <2>1, <2>2, <2>3
<1>16. after.nfree = Len(after.freelist)
  BY <1>1, <1>6, <1>7
<1>17. Agrees(after, B \cup {new})
  BY <1>6, <1>7, <1>13, <1>14, <1>15, <1>16 DEF Agrees
<1>18. QED
  BY <1>c, <1>d, <1>7, <1>8, <1>9, <1>10, <1>17

\* kfree: a block goes to the head of the freelist.
LEMMA GiveBlock ==
  ASSUME NEW ref \in Pageref, NEW B \in SUBSET Block, IsFiniteSet(B), NEW b \in B,
         \A c \in B : c.page = ref.page, Agrees(ref, B)
  PROVE  /\ Gave(ref, b.offset) \in Pageref /\ Gave(ref, b.offset).page = ref.page
         /\ Gave(ref, b.offset).blktype = ref.blktype
         /\ Agrees(Gave(ref, b.offset), B \ {b})
<1>a. PICK after : after = Gave(ref, b.offset)
  OBVIOUS
<1>b. PICK S : S = 0 .. PAGE_SIZE - 1
  OBVIOUS
<1>1. PICK fl : fl = ref.freelist
  OBVIOUS
<1>2. /\ ref.page \in Pages \cup {NULL} /\ ref.blktype \in BlockTypes /\ ref.nfree \in Nat /\ ref.nfree = Len(fl)
      /\ fl \in Seq(S) /\ Len(fl) \in Nat
      /\ Size(ref) \in 1 .. PAGE_SIZE \div 2 /\ NBlocks(ref) = PAGE_SIZE \div Size(ref)
  <2>1. ref.nfree = Len(ref.freelist)
    BY DEF Agrees
  <2>2. QED
    BY <1>1, <1>b, <2>1, PagerefFields
<1>3. b.offset \in S /\ ~ Listed(fl, b.offset)
  BY <1>1, <1>b DEF Agrees, Block
<1>4. PICK r : r = <<b.offset>> \o fl
  OBVIOUS
<1>5. /\ r \in Seq(S) /\ Len(r) = Len(fl) + 1
      /\ \A y : Listed(r, y) <=> y = b.offset \/ Listed(fl, y)
      /\ \A k, l \in 1 .. Len(r) : r[k] = r[l] => k = l
  <2>1. \A k, l \in 1 .. Len(fl) : fl[k] = fl[l] => k = l
    BY <1>1 DEF Agrees
  <2>2. fl \in Seq(S) /\ b.offset \in S
    BY <1>2, <1>3
  <2>3. /\ <<b.offset>> \o fl \in Seq(S)
        /\ Len(<<b.offset>> \o fl) = Len(fl) + 1
        /\ \A y : Listed(<<b.offset>> \o fl, y) <=> y = b.offset \/ Listed(fl, y)
        /\ \A k, l \in 1 .. Len(<<b.offset>> \o fl) : (<<b.offset>> \o fl)[k] = (<<b.offset>> \o fl)[l] => k = l
    BY <1>3, <2>1, <2>2, PutFirst
  <2>4. QED
    BY <1>4, <2>3
<1>6. /\ after.page = ref.page /\ after.blktype = ref.blktype /\ after.nfree = ref.nfree + 1 /\ after.freelist = r
      /\ after = [page |-> ref.page, blktype |-> ref.blktype, nfree |-> ref.nfree + 1, freelist |-> r]
  BY <1>a, <1>1, <1>4 DEF Pageref, Gave
<1>7. Cardinality(B \ {b}) = Cardinality(B) - 1 /\ Cardinality(B) \in Nat /\ Cardinality(B \ {b}) \in Nat
  BY FS_RemoveElement, FS_CardinalityType
<1>8. ref.nfree + Cardinality(B) = NBlocks(ref)
  BY DEF Agrees
<1>9. after \in Pageref
  <2>1. NBlocks(ref) <= PAGE_SIZE
    BY <1>2, BlockNumbers
  <2>2. ref.nfree + 1 \in 0 .. PAGE_SIZE
    BY <1>2, <1>7, <1>8, <2>1, KernelHeapAssumption
  <2>3. QED
    BY <1>2, <1>b, <1>5, <1>6, <2>2 DEF Pageref
<1>10. Size(after) = Size(ref) /\ NBlocks(after) = NBlocks(ref)
  BY <1>6 DEF Size, NBlocks
<1>11. \A c \in B : c.size = Size(ref) /\ (c # b => c.offset # b.offset)
  <2>1. \A c \in B : c.size = Size(ref) /\ c \in Block /\ c.page = b.page
    BY DEF Agrees
  <2>2. QED
    BY <2>1, SameBlock
<1>12. \A c \in B \ {b} : c.size = Size(after) /\ ~ Listed(after.freelist, c.offset)
  BY <1>1, <1>5, <1>6, <1>10, <1>11 DEF Agrees
<1>13. ASSUME NEW o \in 0 .. PAGE_SIZE - 1
       PROVE  (Listed(after.freelist, o) \/ \E c \in B \ {b} : c.offset = o)
                <=> \E k \in 0 .. NBlocks(after) - 1 : o = k * Size(after)
  <2>1. (Listed(ref.freelist, o) \/ \E c \in B : c.offset = o) <=> \E k \in 0 .. NBlocks(ref) - 1 : o = k * Size(ref)
    BY DEF Agrees
  <2>2. Listed(after.freelist, o) <=> o = b.offset \/ Listed(ref.freelist, o)
    BY <1>1, <1>5, <1>6
  <2>3. (\E c \in B : c.offset = o) <=> o = b.offset \/ \E c \in B \ {b} : c.offset = o
    BY <1>11
  <2>4. (Listed(after.freelist, o) \/ \E c \in B \ {b} : c.offset = o) <=> (Listed(ref.freelist, o) \/ \E c \in B : c.offset = o)
    BY <2>2, <2>3
  <2>5. QED
    BY <1>10, <2>1, <2>4
<1>14. after.nfree + Cardinality(B \ {b}) = NBlocks(after)
  BY <1>2, <1>6, <1>7, <1>8, <1>10
<1>15. after.nfree = Len(after.freelist)
  BY <1>2, <1>5, <1>6
<1>16. Agrees(after, B \ {b})
  BY <1>5, <1>6, <1>12, <1>13, <1>14, <1>15 DEF Agrees
<1>17. QED
  BY <1>a, <1>6, <1>9, <1>16

-----------------------------------------------------------------------------
(* What the invariant says of pages and blocks                             *)

\* The lists have no pagerefs but those there are.
LEMMA LiveRefs ==
  ASSUME TypeOK
  PROVE  /\ \A q \in Live : q \in Pagerefs /\ refs[q] \in Pageref
         /\ \A x : x \in Live <=> Listed(allbase, x)
         /\ \A b \in BlockTypes : \A x : x \in Range(sizebases[b]) <=> Listed(sizebases[b], x)
<1>1. allbase \in Seq(Pagerefs) /\ \A b \in BlockTypes : sizebases[b] \in Seq(Pagerefs)
  BY DEF TypeOK
<1>2. ASSUME NEW s \in Seq(Pagerefs), NEW x PROVE x \in Range(s) <=> Listed(s, x)
  BY DEF Range, Listed
<1>3. ASSUME NEW s \in Seq(Pagerefs), NEW x, Listed(s, x) PROVE x \in Pagerefs
  BY <1>3 DEF Listed
<1>4. \A x : x \in Live <=> Listed(allbase, x)
  BY <1>1, <1>2 DEF Live
<1>5. \A q \in Pagerefs : refs[q] \in Pageref
  BY DEF TypeOK
<1>6. QED
  BY <1>1, <1>2, <1>3, <1>4, <1>5

\* A page is described by one pageref.
LEMMA OneRef ==
  ASSUME Heap, NEW q \in Live, NEW r \in Live, refs[q].page = refs[r].page
  PROVE  q = r
<1>1. refs[q].page \in Pages
  BY DEF Heap, PagesOfBlocks
<1>2. PICK p \in Pages : p = refs[q].page
  BY <1>1
<1>3. In("blocks", q, p) /\ In("blocks", r, p)
  BY <1>2 DEF In
<1>4. QED
  BY <1>3 DEF Heap, OnePlace

\* The blocks held on a page.
LEMMA BlocksHeld ==
  ASSUME Heap, NEW p
  PROVE  /\ OnPage(held, p) \in SUBSET Block /\ IsFiniteSet(OnPage(held, p))
         /\ \A b \in OnPage(held, p) : b \in held /\ b.page = p
<1>1. OnPage(held, p) \in SUBSET held
  BY DEF OnPage
<1>2. IsFiniteSet(held) /\ held \subseteq Block
  BY DEF Heap, BlocksPlaced, TypeOK
<1>3. QED
  BY <1>1, <1>2, FS_Subset DEF OnPage

\* The blocks on a page of blocks are small.
LEMMA SmallOnPage ==
  ASSUME Heap, NEW b \in held, NEW q \in Live, refs[q].page = b.page
  PROVE  /\ b \in OnPage(held, refs[q].page) /\ b.size = Size(refs[q]) /\ b.size # PAGE_SIZE
         /\ Size(refs[q]) \in 1 .. PAGE_SIZE \div 2
<1>1. b \in OnPage(held, refs[q].page) /\ Agrees(refs[q], OnPage(held, refs[q].page))
  BY DEF OnPage, Heap, PagesOfBlocks
<1>2. b.size = Size(refs[q])
  BY <1>1 DEF Agrees
<1>3. refs[q] \in Pageref
  BY LiveRefs DEF Heap
<1>4. Size(refs[q]) \in 1 .. PAGE_SIZE \div 2
  BY <1>3, PagerefFields
<1>5. Size(refs[q]) # PAGE_SIZE
  BY <1>4, KernelHeapAssumption
<1>6. QED
  BY <1>1, <1>2, <1>4, <1>5

\* There is no block on a page that is elsewhere.
LEMMA NoBlocksElsewhere ==
  ASSUME Heap, NEW p \in Pages, NEW k, NEW v, In(k, v, p), k \notin {"blocks", "big"}
  PROVE  /\ OnPage(held, p) = {}
         /\ \A q \in Live : refs[q].page # p
<1>1. ASSUME NEW q \in Live, refs[q].page = p PROVE FALSE
  <2>1. In("blocks", q, p)
    BY <1>1 DEF In
  <2>2. QED
    BY <2>1 DEF Heap, OnePlace
<1>2. ASSUME NEW b \in held, b.page = p PROVE FALSE
  <2>1. Placed(b)
    BY DEF Heap, BlocksPlaced
  <2>2. b.size = PAGE_SIZE
    BY <1>1, <1>2, <2>1 DEF Placed
  <2>3. In("big", b, p)
    BY <1>2, <2>2 DEF In
  <2>4. QED
    BY <2>3 DEF Heap, OnePlace
<1>3. QED
  BY <1>1, <1>2 DEF OnPage

-----------------------------------------------------------------------------
(* What a step does to the blocks                                          *)

Content ==
  /\ refs \in [Pagerefs -> Pageref] /\ held \subseteq Block
  /\ sizebases \in [BlockTypes -> Seq(Pagerefs)] /\ allbase \in Seq(Pagerefs)
  /\ PagesOfBlocks /\ BlocksPlaced /\ Lists

\* The pages of blocks and the big blocks stay where they are.
SamePages ==
  /\ Live' = Live /\ \A q \in Live : refs'[q].page = refs[q].page
  /\ \A b : (b \in held' /\ b.size = PAGE_SIZE) <=> (b \in held /\ b.size = PAGE_SIZE)

\* Nothing.
LEMMA SameContent ==
  ASSUME Content, UNCHANGED <<refs, lists, held>>
  PROVE  Content' /\ SamePages
<1>1. refs' = refs /\ sizebases' = sizebases /\ allbase' = allbase /\ held' = held
  BY DEF lists
<1>2. Live' = Live /\ \A p : OnPage(held', p) = OnPage(held, p)
  BY <1>1 DEF Live, OnPage
<1>3. PagesOfBlocks'
  BY <1>1, <1>2 DEF Content, PagesOfBlocks
<1>4. BlocksPlaced'
  BY <1>1, <1>2 DEF Content, BlocksPlaced, Placed
<1>5. Lists'
  BY <1>1, <1>2 DEF Content, Lists
<1>6. QED
  BY <1>1, <1>2, <1>3, <1>4, <1>5 DEF Content, SamePages

\* One block more or less on a page that is there.
LEMMA OnePageChanges ==
  ASSUME Heap, NEW q \in Live, NEW ref \in Pageref, ref.page = refs[q].page, ref.blktype = refs[q].blktype,
         refs' = [refs EXCEPT ![q] = ref], UNCHANGED lists,
         held' \subseteq Block, IsFiniteSet(held'),
         \A b : b.page # ref.page => (b \in held' <=> b \in held),
         \A b \in held' : b.page = ref.page => b.size # PAGE_SIZE,
         Agrees(ref, OnPage(held', ref.page))
  PROVE  Content' /\ SamePages
<1>1. Live' = Live /\ sizebases' = sizebases /\ allbase' = allbase
  BY DEF lists, Live
<1>2. refs \in [Pagerefs -> Pageref] /\ q \in Pagerefs /\ Live \subseteq Pagerefs
  BY LiveRefs DEF Heap, TypeOK
<1>3. refs' \in [Pagerefs -> Pageref] /\ refs'[q] = ref /\ \A r \in Pagerefs : r # q => refs'[r] = refs[r]
  BY <1>2
<1>4. \A r \in Live : refs'[r].page = refs[r].page /\ refs'[r].blktype = refs[r].blktype
  BY <1>2, <1>3
<1>5. \A r \in Live : r # q => refs[r].page # ref.page
  BY OneRef
<1>6. \A p : p # ref.page => OnPage(held', p) = OnPage(held, p)
  BY DEF OnPage
<1>7. PagesOfBlocks'
  <2>1. SUFFICES ASSUME NEW r \in Live PROVE refs'[r].page \in Pages /\ Agrees(refs'[r], OnPage(held', refs'[r].page))
    BY <1>1 DEF PagesOfBlocks
  <2>2. refs[r].page \in Pages /\ Agrees(refs[r], OnPage(held, refs[r].page))
    BY DEF Heap, PagesOfBlocks
  <2>3. CASE r = q
    BY <1>3, <2>2, <2>3
  <2>4. CASE r # q
    <3>1. refs'[r] = refs[r]
      BY <1>2, <1>3, <2>4
    <3>2. OnPage(held', refs[r].page) = OnPage(held, refs[r].page)
      BY <1>5, <1>6, <2>4
    <3>3. QED
      BY <2>2, <3>1, <3>2
  <2>5. QED
    BY <2>3, <2>4
<1>8. BlocksPlaced'
  <2>1. SUFFICES ASSUME NEW b \in held' PROVE Placed(b)'
    BY DEF BlocksPlaced
  <2>2. CASE b.page = ref.page
    BY <1>1, <1>4, <2>2 DEF Placed
  <2>3. CASE b.page # ref.page
    <3>1. Placed(b)
      BY <2>3 DEF Heap, BlocksPlaced
    <3>2. QED
      BY <1>1, <1>4, <3>1 DEF Placed
  <2>4. QED
    BY <2>2, <2>3
<1>9. Lists'
  BY <1>1, <1>2, <1>3 DEF Heap, Lists
<1>10. ASSUME NEW b PROVE (b \in held' /\ b.size = PAGE_SIZE) <=> (b \in held /\ b.size = PAGE_SIZE)
  BY SmallOnPage
<1>11. SamePages
  BY <1>1, <1>4, <1>10 DEF SamePages
<1>12. QED
  BY <1>1, <1>3, <1>7, <1>8, <1>9, <1>11 DEF Content, Heap, TypeOK

\* What the invariant has of the blocks.
LEMMA HeapContent == Heap => Content
BY DEF Heap, Content, TypeOK

\* kmalloc on a page that has a free block.
LEMMA HitContent ==
  ASSUME Heap, NEW t, NEW b \in BlockTypes, KmallocHit(t, b)
  PROVE  Content' /\ SamePages
<1>1. /\ sizebases[b] \in Seq(Pagerefs) /\ refs \in [Pagerefs -> Pageref] /\ held \subseteq Block
      /\ Len(sizebases[b]) \in Nat /\ DOMAIN sizebases[b] = 1 .. Len(sizebases[b])
  BY DEF Heap, TypeOK
<1>2. PICK k : k = Min(Usable(b))
  OBVIOUS
<1>3. k \in 1 .. Len(sizebases[b]) /\ refs[sizebases[b][k]].nfree > 0
  <2>1. Usable(b) \in SUBSET Nat /\ Usable(b) # {}
    BY <1>1 DEF Usable, KmallocHit
  <2>2. k \in Usable(b)
    BY <1>2, <2>1, Least
  <2>3. QED
    BY <1>1, <2>2 DEF Usable
<1>4. PICK q : q = sizebases[b][k]
  OBVIOUS
<1>5. q \in Live /\ q \in Pagerefs
  <2>1. q \in Pagerefs /\ q \in Range(sizebases[b])
    BY <1>1, <1>3, <1>4 DEF Range
  <2>2. QED
    BY <2>1 DEF Heap, Lists
<1>6. PICK ref \in Pageref : ref = refs[q]
  BY <1>1, <1>5
<1>7. ref.nfree > 0 /\ ref.page \in Pages /\ Agrees(ref, OnPage(held, ref.page))
  BY <1>3, <1>4, <1>5, <1>6 DEF Heap, PagesOfBlocks
<1>8. Doalloc(q, ref) /\ UNCHANGED lists
  BY <1>2, <1>4, <1>6 DEF KmallocHit
<1>9. PICK after : after = Took(ref)
  OBVIOUS
<1>10. PICK new : new = FirstBlock(ref)
  OBVIOUS
<1>11. refs' = [refs EXCEPT ![q] = after] /\ held' = held \cup {new}
  BY <1>8, <1>9, <1>10 DEF Doalloc, Took, FirstBlock
<1>12. PICK B : B = OnPage(held, ref.page)
  OBVIOUS
<1>13. B \in SUBSET Block /\ IsFiniteSet(B) /\ \A c \in B : c.page = ref.page
  BY <1>12, BlocksHeld
<1>14. /\ after \in Pageref /\ after.page = ref.page /\ after.blktype = ref.blktype
       /\ new \in Block /\ new.page = ref.page /\ new.size = Size(ref)
       /\ Agrees(after, B \cup {new})
  BY <1>7, <1>9, <1>10, <1>12, <1>13, TakeBlock
<1>15. OnPage(held', after.page) = B \cup {new}
  BY <1>11, <1>12, <1>14 DEF OnPage
<1>16. held' \subseteq Block /\ IsFiniteSet(held')
  BY <1>1, <1>11, <1>14, FS_AddElement DEF Heap, BlocksPlaced
<1>17. Size(ref) # PAGE_SIZE
  BY <1>6, PagerefFields, KernelHeapAssumption
<1>18. \A c \in held' : c.page = after.page => c.size # PAGE_SIZE
  BY <1>5, <1>6, <1>11, <1>14, <1>17, SmallOnPage
<1>19. \A c : c.page # after.page => (c \in held' <=> c \in held)
  BY <1>11, <1>14
<1>20. QED
  BY <1>5, <1>6, <1>8, <1>11, <1>14, <1>15, <1>16, <1>18, <1>19, OnePageChanges

\* The pageref that kfree finds for a block.
LEMMA PageFound ==
  ASSUME Heap, NEW b \in held, PageOf(b) # {}
  PROVE  /\ allbase[Min(PageOf(b))] \in Live /\ allbase[Min(PageOf(b))] \in Pagerefs
         /\ refs[allbase[Min(PageOf(b))]].page = b.page
<1>1. allbase \in Seq(Pagerefs) /\ Len(allbase) \in Nat /\ DOMAIN allbase = 1 .. Len(allbase)
  BY DEF Heap, TypeOK
<1>2. PageOf(b) \in SUBSET Nat
  BY <1>1 DEF PageOf
<1>3. PICK k : k = Min(PageOf(b))
  OBVIOUS
<1>4. k \in PageOf(b)
  BY <1>2, <1>3, Least
<1>5. k \in 1 .. Len(allbase) /\ refs[allbase[k]].page = b.page
  BY <1>1, <1>4 DEF PageOf
<1>6. allbase[k] \in Live /\ allbase[k] \in Pagerefs
  BY <1>1, <1>5 DEF Live, Range
<1>7. QED
  BY <1>3, <1>5, <1>6

\* kfree finds none only for a big block.
LEMMA PageNotFound ==
  ASSUME Heap, NEW b \in held, PageOf(b) = {}
  PROVE  b.size = PAGE_SIZE /\ b.offset = 0
<1>1. ASSUME NEW q \in Live, refs[q].page = b.page PROVE FALSE
  <2>1. PICK k \in DOMAIN allbase : allbase[k] = q
    BY DEF Live, Range
  <2>2. k \in PageOf(b)
    BY <1>1, <2>1 DEF PageOf
  <2>3. QED
    BY <2>2
<1>2. QED
  BY <1>1 DEF Heap, BlocksPlaced, Placed

\* kfree of a block of a page that keeps others.
LEMMA KfreeContent ==
  ASSUME Heap, NEW t, NEW b, Kfree(t, b)
  PROVE  Content' /\ SamePages
<1>1. /\ refs \in [Pagerefs -> Pageref] /\ held \subseteq Block /\ b \in held
  BY DEF Heap, TypeOK, Kfree
<1>2. PICK q : q = allbase[Min(PageOf(b))]
  OBVIOUS
<1>3. q \in Live /\ q \in Pagerefs /\ refs[q].page = b.page
  BY <1>1, <1>2, PageFound DEF Kfree
<1>4. PICK ref \in Pageref : ref = refs[q]
  BY <1>1, <1>3
<1>5. ref.page = b.page /\ Agrees(ref, OnPage(held, ref.page))
  BY <1>3, <1>4 DEF Heap, PagesOfBlocks
<1>6. PICK after : after = Gave(ref, b.offset)
  OBVIOUS
<1>7. /\ refs' = [refs EXCEPT ![q] = after] /\ held' = held \ {b} /\ UNCHANGED lists
  <2>1. refs' = [refs EXCEPT ![q].nfree = @ + 1, ![q].freelist = <<b.offset>> \o @]
    BY <1>2 DEF Kfree
  <2>2. refs[q] \in Pageref
    BY <1>4
  <2>3. QED
    BY <1>1, <1>3, <1>4, <1>6, <2>1, <2>2 DEF Kfree, Pageref, Gave
<1>8. PICK B : B = OnPage(held, ref.page)
  OBVIOUS
<1>9. B \in SUBSET Block /\ IsFiniteSet(B) /\ b \in B /\ \A c \in B : c.page = ref.page
  BY <1>1, <1>5, <1>8, BlocksHeld DEF OnPage
<1>10. after \in Pageref /\ after.page = ref.page /\ after.blktype = ref.blktype /\ Agrees(after, B \ {b})
  BY <1>5, <1>6, <1>8, <1>9, GiveBlock
<1>11. OnPage(held', after.page) = B \ {b}
  BY <1>7, <1>8, <1>10 DEF OnPage
<1>12. held' \subseteq Block /\ IsFiniteSet(held')
  BY <1>1, <1>7, FS_RemoveElement DEF Heap, BlocksPlaced
<1>13. \A c \in held' : c.page = after.page => c.size # PAGE_SIZE
  BY <1>3, <1>4, <1>7, <1>10, SmallOnPage
<1>14. \A c : c.page # after.page => (c \in held' <=> c \in held)
  BY <1>5, <1>7, <1>10
<1>15. QED
  BY <1>3, <1>4, <1>7, <1>10, <1>11, <1>12, <1>13, <1>14, OnePageChanges

\* The rest of subpage_kmalloc puts a new page on both lists and takes a block.
LEMMA NewPageContent ==
  ASSUME Heap, NEW t \in Threads, NEW q \in Pagerefs, q \notin Live, prpage[t] \in Pages, NewPage(t, q)
  PROVE  /\ Content' /\ Live' = Live \cup {q} /\ refs'[q].page = prpage[t]
         /\ \A r \in Live : refs'[r].page = refs[r].page
         /\ \A b : (b \in held' /\ b.size = PAGE_SIZE) <=> (b \in held /\ b.size = PAGE_SIZE)
<1>1. /\ refs \in [Pagerefs -> Pageref] /\ held \subseteq Block /\ blktype[t] \in BlockTypes
      /\ sizebases \in [BlockTypes -> Seq(Pagerefs)] /\ allbase \in Seq(Pagerefs)
  BY DEF Heap, TypeOK
<1>2. PICK p \in Pages : p = prpage[t]
  OBVIOUS
<1>3. PICK k \in BlockTypes : k = blktype[t]
  BY <1>1
<1>4. PICK n : n = PAGE_SIZE \div sizes[k]
  OBVIOUS
<1>5. PICK ref : ref = [page |-> p, blktype |-> k, nfree |-> n, freelist |-> [i \in 1 .. n |-> (n - i) * sizes[k]]]
  OBVIOUS
<1>6. ref \in Pageref /\ ref.page = p /\ ref.blktype = k /\ ref.nfree > 0 /\ Agrees(ref, {})
  BY <1>4, <1>5, FreshPage
<1>7. /\ Doalloc(q, ref) /\ sizebases' = [sizebases EXCEPT ![k] = <<q>> \o @] /\ allbase' = <<q>> \o allbase
  BY <1>2, <1>3, <1>4, <1>5 DEF NewPage
<1>8. PICK after : after = Took(ref)
  OBVIOUS
<1>9. PICK new : new = FirstBlock(ref)
  OBVIOUS
<1>10. /\ after \in Pageref /\ after.page = p /\ after.blktype = k
       /\ new \in Block /\ new.page = p /\ new.size = Size(ref) /\ Agrees(after, {new})
  <2>1. {} \in SUBSET Block /\ IsFiniteSet({}) /\ {} \cup {FirstBlock(ref)} = {FirstBlock(ref)}
    BY FS_EmptySet
  <2>2. /\ Took(ref) \in Pageref /\ Took(ref).page = ref.page /\ Took(ref).blktype = ref.blktype
        /\ FirstBlock(ref) \in Block /\ FirstBlock(ref).page = ref.page /\ FirstBlock(ref).size = Size(ref)
        /\ Agrees(Took(ref), {} \cup {FirstBlock(ref)})
    BY <1>6, <2>1, TakeBlock
  <2>3. QED
    BY <1>6, <1>8, <1>9, <2>1, <2>2
<1>11. refs' = [refs EXCEPT ![q] = after] /\ held' = held \cup {new}
  BY <1>7, <1>8, <1>9 DEF Doalloc, Took, FirstBlock
<1>12. /\ refs' \in [Pagerefs -> Pageref] /\ refs'[q] = after
       /\ \A r \in Pagerefs : r # q => refs'[r] = refs[r]
  BY <1>1, <1>10, <1>11
<1>13. Live \subseteq Pagerefs /\ \A x : x \in Live <=> Listed(allbase, x)
  BY LiveRefs DEF Heap
<1>14. OnPage(held, p) = {} /\ \A r \in Live : refs[r].page # p
  <2>1. In("prpage", t, p)
    BY <1>2 DEF In
  <2>2. QED
    BY <2>1, NoBlocksElsewhere
<1>15. /\ allbase' \in Seq(Pagerefs) /\ IsInjective(allbase') /\ Live' = Live \cup {q}
  <2>1. ~ Listed(allbase, q) /\ \A i, j \in 1 .. Len(allbase) : allbase[i] = allbase[j] => i = j
    BY <1>1, <1>13 DEF Heap, Lists, IsInjective
  <2>2. PICK r : r = <<q>> \o allbase
    OBVIOUS
  <2>3. /\ r \in Seq(Pagerefs) /\ (\A y : Listed(r, y) <=> y = q \/ Listed(allbase, y))
        /\ \A i, j \in 1 .. Len(r) : r[i] = r[j] => i = j
    BY <1>1, <2>1, <2>2, PutFirst
  <2>4. IsInjective(r) /\ \A y : y \in Range(r) <=> Listed(r, y)
    BY <2>3 DEF IsInjective, Range, Listed
  <2>5. allbase' = r
    BY <1>7, <2>2
  <2>6. QED
    BY <1>13, <2>3, <2>4, <2>5 DEF Live
<1>16. /\ sizebases' \in [BlockTypes -> Seq(Pagerefs)]
       /\ \A b \in BlockTypes :
            /\ IsInjective(sizebases'[b])
            /\ \A r \in Pagerefs : r \in Range(sizebases'[b]) <=> r \in Range(sizebases[b]) \/ (r = q /\ b = k)
  <2>1. PICK s \in Seq(Pagerefs) : s = sizebases[k]
    BY <1>1
  <2>2. ~ Listed(s, q) /\ \A i, j \in 1 .. Len(s) : s[i] = s[j] => i = j
    <3>1. q \notin Range(s) /\ IsInjective(s) /\ DOMAIN s = 1 .. Len(s)
      BY <2>1 DEF Heap, Lists
    <3>2. ~ Listed(s, q)
      BY <3>1 DEF Range, Listed
    <3>3. QED
      BY <3>1, <3>2 DEF IsInjective
  <2>3. PICK r : r = <<q>> \o s
    OBVIOUS
  <2>4. /\ r \in Seq(Pagerefs) /\ (\A y : Listed(r, y) <=> y = q \/ Listed(s, y))
        /\ \A i, j \in 1 .. Len(r) : r[i] = r[j] => i = j
    BY <2>2, <2>3, PutFirst
  <2>5. IsInjective(r) /\ \A y : y \in Range(r) <=> y = q \/ y \in Range(s)
    <3>1. IsInjective(r) /\ \A y : y \in Range(r) <=> Listed(r, y)
      BY <2>4 DEF IsInjective, Range, Listed
    <3>2. \A y : y \in Range(s) <=> Listed(s, y)
      BY DEF Range, Listed
    <3>3. QED
      BY <2>4, <3>1, <3>2
  <2>6. sizebases' = [sizebases EXCEPT ![k] = r]
    BY <1>7, <2>1, <2>3
  <2>7. /\ sizebases' \in [BlockTypes -> Seq(Pagerefs)] /\ sizebases'[k] = r
        /\ \A b \in BlockTypes : b # k => sizebases'[b] = sizebases[b]
    BY <1>1, <2>4, <2>6
  <2>8. \A b \in BlockTypes : IsInjective(sizebases[b])
    BY DEF Heap, Lists
  <2>9. QED
    BY <2>1, <2>5, <2>7, <2>8
<1>17. \A r \in Live : refs'[r] = refs[r] /\ r # q
  BY <1>12, <1>13
<1>18. PagesOfBlocks'
  <2>1. SUFFICES ASSUME NEW r \in Live \cup {q}
                 PROVE  refs'[r].page \in Pages /\ Agrees(refs'[r], OnPage(held', refs'[r].page))
    BY <1>15 DEF PagesOfBlocks
  <2>2. CASE r = q
    <3>1. OnPage(held', p) = {new}
      BY <1>10, <1>11, <1>14 DEF OnPage
    <3>2. QED
      BY <1>10, <1>12, <2>2, <3>1
  <2>3. CASE r \in Live
    <3>1. OnPage(held', refs[r].page) = OnPage(held, refs[r].page)
      BY <1>10, <1>11, <1>14, <2>3 DEF OnPage
    <3>2. QED
      BY <1>17, <2>3, <3>1 DEF Heap, PagesOfBlocks
  <2>4. QED
    BY <2>2, <2>3
<1>19. new.size # PAGE_SIZE
  BY <1>6, <1>10, PagerefFields, KernelHeapAssumption
<1>20. BlocksPlaced'
  <2>1. IsFiniteSet(held')
    BY <1>11, FS_AddElement DEF Heap, BlocksPlaced
  <2>2. ASSUME NEW b \in held PROVE Placed(b)'
    BY <1>15, <1>17 DEF Heap, BlocksPlaced, Placed
  <2>3. Placed(new)'
    BY <1>10, <1>12, <1>15, <1>19 DEF Placed
  <2>4. QED
    BY <1>11, <2>1, <2>2, <2>3 DEF BlocksPlaced
<1>21. Lists'
  <2>1. ASSUME NEW b \in BlockTypes, NEW r \in Pagerefs
        PROVE  r \in Range(sizebases'[b]) <=> r \in Live' /\ refs'[r].blktype = b
    <3>1. r \in Range(sizebases[b]) <=> r \in Live /\ refs[r].blktype = b
      BY DEF Heap, Lists
    <3>2. CASE r = q
      BY <1>10, <1>12, <1>15, <1>16, <3>1, <3>2
    <3>3. CASE r # q
      BY <1>12, <1>15, <1>16, <3>1, <3>3
    <3>4. QED
      BY <3>2, <3>3
  <2>2. QED
    BY <1>15, <1>16, <2>1 DEF Lists
<1>22. held' \subseteq Block
  BY <1>1, <1>10, <1>11
<1>23. QED
  BY <1>2, <1>10, <1>11, <1>12, <1>15, <1>16, <1>17, <1>18, <1>19, <1>20, <1>21, <1>22 DEF Content

\* kfree of the last block of a page, whether its pageref can be freed or not.
LEMMA KfreeLastContent ==
  ASSUME Heap, NEW t, NEW b, KfreeLast(t, b), NEW q, q = allbase[Min(PageOf(b))]
  PROVE  /\ q \in Live /\ q \in Pagerefs /\ refs[q].page = b.page /\ b.page \in Pages
         /\ Content' /\ Live' = Live \ {q}
         /\ \A r \in Live' : refs'[r].page = refs[r].page
         /\ \A c : (c \in held' /\ c.size = PAGE_SIZE) <=> (c \in held /\ c.size = PAGE_SIZE)
<1>1. /\ refs \in [Pagerefs -> Pageref] /\ held \subseteq Block /\ b \in held
      /\ sizebases \in [BlockTypes -> Seq(Pagerefs)] /\ allbase \in Seq(Pagerefs)
  BY DEF Heap, TypeOK, KfreeLast
<1>2. q \in Live /\ q \in Pagerefs /\ refs[q].page = b.page
  BY <1>1, PageFound DEF KfreeLast
<1>3. PICK ref \in Pageref : ref = refs[q]
  BY <1>1, <1>2
<1>4. ref.page = b.page /\ ref.page \in Pages /\ Agrees(ref, OnPage(held, b.page)) /\ ref.blktype \in BlockTypes
  BY <1>2, <1>3, PagerefFields DEF Heap, PagesOfBlocks
<1>5. /\ refs' = [refs EXCEPT ![q] = Unused] /\ held' = held \ {b}
      /\ sizebases' = [sizebases EXCEPT ![ref.blktype] = RemoveFirst(@, q)] /\ allbase' = RemoveFirst(allbase, q)
      /\ ref.nfree + 1 >= NBlocks(ref)
  BY <1>3 DEF KfreeLast, RemoveLists, NBlocks
<1>6. OnPage(held, b.page) = {b}
  <2>1. PICK B : B = OnPage(held, b.page)
    OBVIOUS
  <2>2. IsFiniteSet(B) /\ b \in B
    BY <1>1, <2>1, BlocksHeld DEF OnPage
  <2>3. Cardinality(B) \in Nat /\ IsFiniteSet(B \ {b}) /\ Cardinality(B \ {b}) = Cardinality(B) - 1 /\ Cardinality(B \ {b}) \in Nat
    BY <2>2, FS_CardinalityType, FS_RemoveElement
  <2>4. ref.nfree + Cardinality(B) = NBlocks(ref)
    BY <1>4, <2>1 DEF Agrees
  <2>5. Cardinality(B \ {b}) = 0
    BY <1>5, <2>3, <2>4, PagerefFields
  <2>6. B \ {b} = {}
    BY <2>3, <2>5, FS_EmptySet
  <2>7. QED
    BY <2>1, <2>2, <2>6
<1>7. Unused \in Pageref
  <2>1. 1 \in BlockTypes
    BY KernelHeapAssumption DEF BlockTypes
  <2>2. 0 \in 0 .. PAGE_SIZE
    BY KernelHeapAssumption
  <2>3. QED
    BY <2>1, <2>2 DEF Unused, Pageref
<1>8. /\ refs' \in [Pagerefs -> Pageref] /\ \A r \in Pagerefs : r # q => refs'[r] = refs[r]
  BY <1>1, <1>2, <1>5, <1>7
<1>9. Live \subseteq Pagerefs /\ \A x : x \in Live <=> Listed(allbase, x)
  BY LiveRefs DEF Heap
<1>10. allbase' \in Seq(Pagerefs) /\ IsInjective(allbase') /\ Live' = Live \ {q}
  <2>1. Listed(allbase, q) /\ IsInjective(allbase)
    BY <1>2, <1>9 DEF Heap, Lists
  <2>2. /\ RemoveFirst(allbase, q) \in Seq(Pagerefs) /\ IsInjective(RemoveFirst(allbase, q))
        /\ \A y : y \in Range(RemoveFirst(allbase, q)) <=> y # q /\ y \in Range(allbase)
    BY <1>1, <2>1, TakeOut
  <2>3. QED
    BY <1>5, <2>2 DEF Live
<1>11. /\ sizebases' \in [BlockTypes -> Seq(Pagerefs)]
       /\ \A k \in BlockTypes :
            /\ IsInjective(sizebases'[k])
            /\ \A r \in Pagerefs : r \in Range(sizebases'[k]) <=> r \in Range(sizebases[k]) /\ r # q
  <2>1. \A k \in BlockTypes : IsInjective(sizebases[k]) /\ \A r \in Pagerefs : r \in Range(sizebases[k]) <=> r \in Live /\ refs[r].blktype = k
    BY DEF Heap, Lists
  <2>2. PICK s \in Seq(Pagerefs) : s = sizebases[ref.blktype]
    BY <1>1, <1>4
  <2>3. IsInjective(s) /\ Listed(s, q)
    <3>1. q \in Range(s)
      BY <1>2, <1>3, <1>4, <2>1, <2>2
    <3>2. QED
      BY <1>4, <2>1, <2>2, <3>1 DEF Range, Listed
  <2>4. PICK r : r = RemoveFirst(s, q)
    OBVIOUS
  <2>5. r \in Seq(Pagerefs) /\ IsInjective(r) /\ \A y : y \in Range(r) <=> y # q /\ y \in Range(s)
    BY <2>3, <2>4, TakeOut
  <2>6. sizebases' = [sizebases EXCEPT ![ref.blktype] = r]
    BY <1>5, <2>2, <2>4
  <2>7. /\ sizebases' \in [BlockTypes -> Seq(Pagerefs)] /\ sizebases'[ref.blktype] = r
        /\ \A k \in BlockTypes : k # ref.blktype => sizebases'[k] = sizebases[k]
    BY <1>1, <1>4, <2>5, <2>6
  <2>8. \A k \in BlockTypes : k # ref.blktype => q \notin Range(sizebases[k])
    BY <1>2, <1>3, <2>1
  <2>9. QED
    BY <2>1, <2>2, <2>5, <2>7, <2>8
<1>12. \A r \in Live' : r \in Live /\ r # q /\ refs'[r] = refs[r] /\ refs[r].page # b.page
  BY <1>2, <1>8, <1>9, <1>10, OneRef
<1>13. PagesOfBlocks'
  <2>1. SUFFICES ASSUME NEW r \in Live' PROVE refs'[r].page \in Pages /\ Agrees(refs'[r], OnPage(held', refs'[r].page))
    BY DEF PagesOfBlocks
  <2>2. OnPage(held', refs[r].page) = OnPage(held, refs[r].page)
    BY <1>5, <1>12 DEF OnPage
  <2>3. QED
    BY <1>12, <2>2 DEF Heap, PagesOfBlocks
<1>14. BlocksPlaced'
  <2>1. IsFiniteSet(held')
    BY <1>5, FS_RemoveElement DEF Heap, BlocksPlaced
  <2>2. ASSUME NEW c \in held' PROVE Placed(c)'
    <3>1. c \in held /\ c.page # b.page
      BY <1>5, <1>6 DEF OnPage
    <3>2. Placed(c)
      BY <3>1 DEF Heap, BlocksPlaced
    <3>3. CASE c.size = PAGE_SIZE
      BY <3>2, <3>3 DEF Placed
    <3>4. CASE c.size # PAGE_SIZE
      <4>1. PICK r \in Live : refs[r].page = c.page
        BY <3>2, <3>4 DEF Placed
      <4>2. r # q
        BY <1>2, <3>1, <4>1
      <4>3. r \in Live' /\ refs'[r].page = c.page
        BY <1>10, <1>12, <4>1, <4>2
      <4>4. QED
        BY <3>4, <4>3 DEF Placed
    <3>5. QED
      BY <3>3, <3>4
  <2>3. QED
    BY <2>1, <2>2 DEF BlocksPlaced
<1>15. Lists'
  <2>1. ASSUME NEW k \in BlockTypes, NEW r \in Pagerefs
        PROVE  r \in Range(sizebases'[k]) <=> r \in Live' /\ refs'[r].blktype = k
    <3>1. r \in Range(sizebases[k]) <=> r \in Live /\ refs[r].blktype = k
      BY DEF Heap, Lists
    <3>2. QED
      BY <1>8, <1>10, <1>11, <3>1
  <2>2. QED
    BY <1>10, <1>11, <2>1 DEF Lists
<1>16. b.size # PAGE_SIZE
  BY <1>1, <1>2, SmallOnPage
<1>17. held' \subseteq Block
  BY <1>1, <1>5
<1>18. QED
  BY <1>2, <1>4, <1>5, <1>8, <1>10, <1>11, <1>12, <1>13, <1>14, <1>15, <1>16, <1>17 DEF Content

\* A big block comes.
LEMMA KmallocBigContent ==
  ASSUME Heap, NEW p \in kpages, NEW new, new = [page |-> p, offset |-> 0, size |-> PAGE_SIZE],
         held' = held \cup {new}, UNCHANGED <<refs, lists>>
  PROVE  Content' /\ Live' = Live /\ refs' = refs /\ p \in Pages
<1>1. refs' = refs /\ sizebases' = sizebases /\ allbase' = allbase /\ Live' = Live
  BY DEF lists, Live
<1>2. p \in Pages /\ OnPage(held, p) = {} /\ \A q \in Live : refs[q].page # p
  <2>1. p \in Pages /\ In("free", NULL, p)
    BY DEF Heap, TypeOK, In
  <2>2. QED
    BY <2>1, NoBlocksElsewhere
<1>3. new \in Block /\ new.page = p /\ new.size = PAGE_SIZE /\ new.offset = 0
  <2>1. PAGE_SIZE \in 1 .. PAGE_SIZE /\ 0 \in 0 .. PAGE_SIZE - 1
    BY KernelHeapAssumption
  <2>2. QED
    BY <1>2, <2>1 DEF Block
<1>4. held' \subseteq Block /\ IsFiniteSet(held')
  BY <1>3, FS_AddElement DEF Heap, TypeOK, BlocksPlaced
<1>5. \A q \in Live : OnPage(held', refs[q].page) = OnPage(held, refs[q].page)
  BY <1>2, <1>3 DEF OnPage
<1>6. PagesOfBlocks'
  BY <1>1, <1>5 DEF Heap, PagesOfBlocks
<1>7. BlocksPlaced'
  BY <1>1, <1>3, <1>4 DEF Heap, BlocksPlaced, Placed
<1>8. Lists'
  BY <1>1 DEF Heap, Lists
<1>9. QED
  BY <1>1, <1>2, <1>4, <1>6, <1>7, <1>8 DEF Content, Heap, TypeOK

\* A big block goes.
LEMMA KfreeBigContent ==
  ASSUME Heap, NEW b \in held, b.size = PAGE_SIZE, held' = held \ {b}, UNCHANGED <<refs, lists>>
  PROVE  Content' /\ Live' = Live /\ refs' = refs
<1>1. refs' = refs /\ sizebases' = sizebases /\ allbase' = allbase /\ Live' = Live
  BY DEF lists, Live
<1>2. held' \subseteq Block /\ IsFiniteSet(held')
  BY FS_RemoveElement DEF Heap, TypeOK, BlocksPlaced
<1>3. \A q \in Live : refs[q].page # b.page
  BY SmallOnPage
<1>4. \A q \in Live : OnPage(held', refs[q].page) = OnPage(held, refs[q].page)
  BY <1>3 DEF OnPage
<1>5. PagesOfBlocks'
  BY <1>1, <1>4 DEF Heap, PagesOfBlocks
<1>6. BlocksPlaced'
  BY <1>1, <1>2 DEF Heap, BlocksPlaced, Placed
<1>7. Lists'
  BY <1>1 DEF Heap, Lists
<1>8. QED
  BY <1>1, <1>2, <1>5, <1>6, <1>7 DEF Content, Heap, TypeOK

-----------------------------------------------------------------------------
(* Where pages are                                                         *)

\* A step that leaves every page where it is or puts it somewhere else.
LEMMA PagesMove ==
  ASSUME OnePlace, SomePlace,
         \A p \in Pages : \/ \A k, v : In(k, v, p)' <=> In(k, v, p)
                          \/ \E l, w : \A k, v : In(k, v, p)' <=> k = l /\ v = w
  PROVE  OnePlace' /\ SomePlace'
<1>1. OnePlace'
  BY DEF OnePlace
<1>2. SomePlace'
  BY DEF SomePlace
<1>3. QED
  BY <1>1, <1>2

\* A step that puts no page anywhere else.
LEMMA PagesStay ==
  ASSUME OnePlace, SomePlace, SamePages, UNCHANGED <<kpages, prpage, va>>,
         \A r \in Roots : kheaproots'[r].page = kheaproots[r].page
  PROVE  OnePlace' /\ SomePlace'
<1>1. ASSUME NEW p \in Pages, NEW k, NEW v PROVE In(k, v, p)' <=> In(k, v, p)
  BY DEF In, SamePages
<1>2. QED
  BY <1>1, PagesMove

\* What it means for a page to be in one place.
LEMMA OnlyIn ==
  ASSUME OnePlace, NEW p \in Pages, NEW k, NEW v, In(k, v, p)
  PROVE  /\ k # "free" => p \notin kpages
         /\ \A r \in Roots : kheaproots[r].page = p => k = "root" /\ r = v
         /\ \A q \in Live : refs[q].page = p => k = "blocks" /\ q = v
         /\ \A b \in held : b.page = p /\ b.size = PAGE_SIZE => k = "big" /\ b = v
         /\ \A t \in Threads : prpage[t] = p => k = "prpage" /\ t = v
         /\ \A t \in Threads : va[t] = p => k = "va" /\ t = v
<1>1. \A l, w : In(l, w, p) => l = k /\ w = v
  BY DEF OnePlace
<1>2. p \in kpages => k = "free"
  <2>1. p \in kpages => In("free", NULL, p)
    BY DEF In
  <2>2. QED
    BY <1>1, <2>1
<1>3. ASSUME NEW r \in Roots, kheaproots[r].page = p PROVE k = "root" /\ r = v
  <2>1. In("root", r, p)
    BY <1>3 DEF In
  <2>2. QED
    BY <1>1, <2>1
<1>4. ASSUME NEW q \in Live, refs[q].page = p PROVE k = "blocks" /\ q = v
  <2>1. In("blocks", q, p)
    BY <1>4 DEF In
  <2>2. QED
    BY <1>1, <2>1
<1>5. ASSUME NEW b \in held, b.page = p, b.size = PAGE_SIZE PROVE k = "big" /\ b = v
  <2>1. In("big", b, p)
    BY <1>5 DEF In
  <2>2. QED
    BY <1>1, <2>1
<1>6. ASSUME NEW t \in Threads, prpage[t] = p PROVE k = "prpage" /\ t = v
  <2>1. In("prpage", t, p)
    BY <1>6 DEF In
  <2>2. QED
    BY <1>1, <2>1
<1>7. ASSUME NEW t \in Threads, va[t] = p PROVE k = "va" /\ t = v
  <2>1. In("va", t, p)
    BY <1>7 DEF In
  <2>2. QED
    BY <1>1, <2>1
<1>8. QED
  BY <1>2, <1>3, <1>4, <1>5, <1>6, <1>7

-----------------------------------------------------------------------------
(* The calls                                                               *)

\* The locals and the bits when nothing of them changes.
LEMMA SameCalls ==
  ASSUME InHand, Bits, FullBefore, Counted, UNCHANGED <<kheaproots, pc, prpage, pr, va, leaked>>, Live' = Live
  PROVE  InHand' /\ Bits' /\ FullBefore' /\ Counted'
<1>1. InHand'
  BY DEF InHand, RefPage
<1>2. Bits'
  BY DEF Bits, InUse
<1>3. FullBefore' /\ Counted'
  BY DEF FullBefore, Counted
<1>4. QED
  BY <1>1, <1>2, <1>3

\* The types of what a call has in hand, of the roots and of the free pages.
Root == [page : Pages \cup {NULL}, inuse : SUBSET (1 .. NPAGEREFS_PER_PAGE), numinuse : 0 .. NPAGEREFS_PER_PAGE]
CallTypes ==
  /\ kpages \subseteq Pages
  /\ kheaproots \in [Roots -> Root]
  /\ pc \in [Threads -> {"run", "page", "pageref", "refpage", "relock", "raced", "giveback"}]
  /\ blktype \in [Threads -> BlockTypes]
  /\ prpage \in [Threads -> Pages \cup {NULL}]
  /\ pr \in [Threads -> Pagerefs \cup {NULL}]
  /\ va \in [Threads -> Pages \cup {NULL}]
  /\ leaked \subseteq Pagerefs
  /\ panicked \in BOOLEAN

LEMMA HeapCalls == Heap => CallTypes
BY DEF Heap, TypeOK, CallTypes, Root

\* The parts of the heap's invariant.
LEMMA HeapParts ==
  ASSUME Content', CallTypes', Counted', OnePlace'
  PROVE  Heap'
BY DEF Heap, TypeOK, Content, CallTypes, Root

\* A bitmap is full when its count is as high as it can be.
LEMMA FullRoot ==
  ASSUME Heap, NEW r \in Roots
  PROVE  /\ kheaproots[r].inuse \in SUBSET (1 .. NPAGEREFS_PER_PAGE) /\ IsFiniteSet(kheaproots[r].inuse)
         /\ kheaproots[r].numinuse \in 0 .. NPAGEREFS_PER_PAGE
         /\ kheaproots[r].numinuse = Cardinality(kheaproots[r].inuse)
         /\ kheaproots[r].numinuse >= NPAGEREFS_PER_PAGE <=> kheaproots[r].inuse = 1 .. NPAGEREFS_PER_PAGE
<1> DEFINE N == NPAGEREFS_PER_PAGE
           I == kheaproots[r].inuse
<1>1. kheaproots[r] \in Root
  BY HeapCalls DEF CallTypes
<1>2. I \in SUBSET (1 .. N) /\ kheaproots[r].numinuse \in 0 .. N
  BY <1>1 DEF Root
<1>3. N \in Nat /\ IsFiniteSet(1 .. N) /\ Cardinality(1 .. N) = N
  <2>1. N \in Nat /\ N > 0
    BY KernelHeapAssumption
  <2>2. QED
    BY <2>1, FS_Interval
<1>4. kheaproots[r].numinuse = Cardinality(I)
  BY DEF Heap, Counted
<1>5. IsFiniteSet(I) /\ Cardinality(I) <= Cardinality(1 .. N) /\ (Cardinality(I) = Cardinality(1 .. N) => I = 1 .. N)
  <2> HIDE DEF I, N
  <2> QED
    BY <1>2, <1>3, FS_Subset
<1>6. QED
  BY <1>2, <1>3, <1>4, <1>5

\* allocpageref marks a pageref that was not in use, of the first root with room.
LEMMA Marked ==
  ASSUME Heap, Calls, Roomy # {}, NEW q, q = FreeRef, MarkInuse(q)
  PROVE  /\ q \in Pagerefs /\ ~ InUse(q)
         /\ kheaproots' \in [Roots -> Root] /\ Counted'
         /\ \A r \in Roots : kheaproots'[r].page = kheaproots[r].page
         /\ \A x \in Pagerefs : InUse(x)' <=> InUse(x) \/ x = q
         /\ FullBefore'
<1> DEFINE N == NPAGEREFS_PER_PAGE
<1>1. N \in Nat /\ N > 0 /\ NUM_PAGEREFPAGES \in Nat /\ kheaproots \in [Roots -> Root]
  BY KernelHeapAssumption, HeapCalls DEF CallTypes
<1>2. PICK r : r = Min(Roomy)
  OBVIOUS
<1>3. r \in Roots /\ kheaproots[r].numinuse < N /\ \A s \in Roots : s < r => kheaproots[s].numinuse >= N
  <2>1. Roomy \in SUBSET Nat
    BY DEF Roomy, Roots
  <2>2. r \in Roomy /\ \A s \in Roomy : r <= s
    BY <1>2, <2>1, Least
  <2>3. \A s \in Roots : s \in Nat /\ kheaproots[s].numinuse \in Nat
    BY <1>1, FullRoot DEF Roots
  <2>4. QED
    BY <1>1, <2>2, <2>3 DEF Roomy
<1>4. PICK J : J = (1 .. N) \ kheaproots[r].inuse
  OBVIOUS
<1>5. J \in SUBSET Nat /\ J # {}
  <2>1. J \in SUBSET Nat
    BY <1>1, <1>4
  <2>2. kheaproots[r].inuse \in SUBSET (1 .. N) /\ kheaproots[r].inuse # 1 .. N
    <3>1. kheaproots[r].numinuse \in Nat
      BY <1>1, <1>3, FullRoot
    <3>2. ~ (kheaproots[r].numinuse >= N)
      BY <1>1, <1>3, <3>1
    <3>3. QED
      BY <1>3, <3>2, FullRoot
  <2>3. J # {}
    BY <1>4, <2>2
  <2>4. QED
    BY <2>1, <2>3
<1>6. PICK k : k = Min(J)
  OBVIOUS
<1>7. k \in 1 .. N /\ k \notin kheaproots[r].inuse
  BY <1>4, <1>5, <1>6, Least
<1>8. q = <<r, k>>
  BY <1>2, <1>4, <1>6 DEF FreeRef
<1>9. q \in Pagerefs /\ q[1] = r /\ q[2] = k /\ ~ InUse(q)
  BY <1>3, <1>7, <1>8 DEF Pagerefs, InUse
<1>10. PICK I : I = kheaproots[r].inuse
  OBVIOUS
<1>11. PICK n : n = kheaproots[r].numinuse
  OBVIOUS
<1>12. n \in 0 .. N /\ I \in SUBSET (1 .. N) /\ IsFiniteSet(I) /\ n = Cardinality(I) /\ n < N
  BY <1>3, <1>10, <1>11, FullRoot
<1>13. /\ kheaproots' \in [Roots -> Root]
       /\ kheaproots'[r].page = kheaproots[r].page
       /\ kheaproots'[r].inuse = I \cup {k} /\ kheaproots'[r].numinuse = n + 1
       /\ \A s \in Roots : s # r => kheaproots'[s] = kheaproots[s]
  <2>1. kheaproots[r] \in Root /\ n + 1 \in 0 .. N /\ I \cup {k} \in SUBSET (1 .. N)
    BY <1>1, <1>3, <1>7, <1>12
  <2>2. PICK root : root = [kheaproots[r] EXCEPT !.inuse = I \cup {k}, !.numinuse = n + 1]
    OBVIOUS
  <2>3. root \in Root /\ root.page = kheaproots[r].page /\ root.inuse = I \cup {k} /\ root.numinuse = n + 1
    BY <2>1, <2>2 DEF Root
  <2>4. kheaproots' = [kheaproots EXCEPT ![r] = root]
    <3>1. kheaproots' = [kheaproots EXCEPT ![r].inuse = @ \cup {k}, ![r].numinuse = @ + 1]
      BY <1>9 DEF MarkInuse
    <3>2. QED
      BY <1>1, <1>3, <1>10, <1>11, <2>1, <2>2, <3>1 DEF Root
  <2>5. QED
    BY <1>1, <1>3, <2>3, <2>4
<1>14. Counted'
  <2>1. Cardinality(I \cup {k}) = n + 1
    BY <1>7, <1>10, <1>12, FS_AddElement
  <2>2. QED
    BY <1>13, <2>1 DEF Heap, Counted
<1>15. ASSUME NEW x \in Pagerefs PROVE InUse(x)' <=> InUse(x) \/ x = q
  <2>1. x[1] \in Roots /\ (x = q <=> x[1] = r /\ x[2] = k)
    BY <1>8 DEF Pagerefs
  <2>2. QED
    BY <1>10, <1>13, <2>1 DEF InUse
<1>16. FullBefore'
  <2>1. SUFFICES ASSUME NEW u \in Roots, NEW s \in Roots, u < s, kheaproots'[u].page = NULL, kheaproots'[s].inuse # {}
                 PROVE  kheaproots'[u].inuse = 1 .. N
    BY DEF FullBefore
  <2>2. u \in Nat /\ s \in Nat /\ r \in Nat
    BY <1>3 DEF Roots
  <2>3. CASE s = r
    <3>1. kheaproots[u].numinuse >= N /\ u # r
      BY <1>3, <2>1, <2>2, <2>3
    <3>2. QED
      BY <1>13, <3>1, FullRoot
  <2>4. CASE s # r
    <3>1. kheaproots[s].inuse # {} /\ kheaproots[u].page = NULL
      BY <1>13, <2>1, <2>4
    <3>2. kheaproots[u].inuse = 1 .. N
      BY <2>1, <3>1 DEF Calls, FullBefore
    <3>3. u # r
      BY <1>7, <3>2
    <3>4. QED
      BY <1>13, <3>2, <3>3
  <2>5. QED
    BY <2>3, <2>4
<1>17. QED
  BY <1>9, <1>13, <1>14, <1>15, <1>16

\* freepageref clears the bit of the pageref of a page of blocks.
LEMMA Cleared ==
  ASSUME Heap, Calls, NEW q \in Live, Freepageref(q)
  PROVE  /\ kheaproots' \in [Roots -> Root] /\ Counted'
         /\ \A r \in Roots : kheaproots'[r].page = kheaproots[r].page
         /\ \A x \in Pagerefs : InUse(x)' <=> InUse(x) /\ x # q
         /\ FullBefore'
<1> DEFINE N == NPAGEREFS_PER_PAGE
<1>1. N \in Nat /\ N > 0 /\ kheaproots \in [Roots -> Root]
  BY KernelHeapAssumption, HeapCalls DEF CallTypes
<1>2. q \in Pagerefs /\ InUse(q) /\ kheaproots[q[1]].page # NULL
  BY LiveRefs DEF Heap, Calls, Bits
<1>3. PICK r \in Roots, k \in 1 .. N : q = <<r, k>> /\ q[1] = r /\ q[2] = k
  BY <1>2 DEF Pagerefs
<1>4. PICK I : I = kheaproots[r].inuse
  OBVIOUS
<1>5. PICK n : n = kheaproots[r].numinuse
  OBVIOUS
<1>6. n \in 0 .. N /\ I \in SUBSET (1 .. N) /\ IsFiniteSet(I) /\ n = Cardinality(I) /\ k \in I
  BY <1>2, <1>3, <1>4, <1>5, FullRoot DEF InUse
<1>7. Cardinality(I \ {k}) = n - 1 /\ Cardinality(I \ {k}) \in Nat
  <2>1. IsFiniteSet(I \ {k}) /\ Cardinality(I \ {k}) = Cardinality(I) - 1
    BY <1>6, FS_RemoveElement
  <2>2. QED
    BY <1>6, <2>1, FS_CardinalityType
<1>8. /\ kheaproots' \in [Roots -> Root]
      /\ kheaproots'[r].page = kheaproots[r].page
      /\ kheaproots'[r].inuse = I \ {k} /\ kheaproots'[r].numinuse = n - 1
      /\ \A s \in Roots : s # r => kheaproots'[s] = kheaproots[s]
  <2>1. kheaproots[r] \in Root /\ n - 1 \in 0 .. N /\ I \ {k} \in SUBSET (1 .. N)
    BY <1>1, <1>6, <1>7
  <2>2. PICK root : root = [kheaproots[r] EXCEPT !.inuse = I \ {k}, !.numinuse = n - 1]
    OBVIOUS
  <2>3. root \in Root /\ root.page = kheaproots[r].page /\ root.inuse = I \ {k} /\ root.numinuse = n - 1
    BY <2>1, <2>2 DEF Root
  <2>4. kheaproots' = [kheaproots EXCEPT ![r] = root]
    <3>1. kheaproots' = [kheaproots EXCEPT ![r].inuse = @ \ {k}, ![r].numinuse = @ - 1]
      BY <1>3 DEF Freepageref
    <3>2. QED
      BY <1>1, <1>4, <1>5, <2>1, <2>2, <3>1 DEF Root
  <2>5. QED
    BY <1>1, <2>3, <2>4
<1>9. Counted'
  BY <1>7, <1>8 DEF Heap, Counted
<1>10. ASSUME NEW x \in Pagerefs PROVE InUse(x)' <=> InUse(x) /\ x # q
  <2>1. x[1] \in Roots /\ (x = q <=> x[1] = r /\ x[2] = k)
    BY <1>3 DEF Pagerefs
  <2>2. QED
    BY <1>4, <1>8, <2>1 DEF InUse
<1>11. FullBefore'
  <2>1. SUFFICES ASSUME NEW u \in Roots, NEW s \in Roots, u < s, kheaproots'[u].page = NULL, kheaproots'[s].inuse # {}
                 PROVE  kheaproots'[u].inuse = 1 .. N
    BY DEF FullBefore
  <2>2. u # r /\ kheaproots'[u] = kheaproots[u]
    BY <1>2, <1>3, <1>8, <2>1
  <2>3. kheaproots[s].inuse # {}
    BY <1>4, <1>6, <1>8, <2>1
  <2>4. QED
    BY <2>1, <2>2, <2>3 DEF Calls, FullBefore
<1>12. QED
  BY <1>8, <1>9, <1>10, <1>11

\* The assertion on the way to a later root: the root in question is full, and
\* of calls that wait or have waited in vain.
LEMMA BadRootIsFull ==
  ASSUME Heap, Calls, NEW q \in Live, BadRoot(q)
  PROVE  \E r \in Roots : \A k \in 1 .. NPAGEREFS_PER_PAGE : <<r, k>> \in leaked \cup {pr[t] : t \in Threads}
<1>1. q \in Pagerefs /\ InUse(q)
  BY LiveRefs DEF Heap, Calls, Bits
<1>2. q[1] \in Roots /\ kheaproots[q[1]].inuse # {}
  BY <1>1 DEF Pagerefs, InUse
<1>3. PICK r \in 1 .. q[1] - 1 : kheaproots[r].page = NULL
  BY DEF BadRoot
<1>4. r \in Roots /\ r < q[1]
  BY <1>2, <1>3, KernelHeapAssumption DEF Roots
<1>5. kheaproots[r].inuse = 1 .. NPAGEREFS_PER_PAGE
  BY <1>2, <1>3, <1>4 DEF Calls, FullBefore
<1>6. SUFFICES ASSUME NEW k \in 1 .. NPAGEREFS_PER_PAGE
               PROVE  <<r, k>> \in leaked \/ \E t \in Threads : pr[t] = <<r, k>>
  BY <1>4
<1>7. PICK x \in Pagerefs : x = <<r, k>> /\ x[1] = r /\ x[2] = k
  <2>1. <<r, k>> \in Pagerefs
    BY <1>4, <1>6 DEF Pagerefs
  <2>2. QED
    BY <2>1
<1>8. InUse(x) /\ x \notin Live
  BY <1>3, <1>5, <1>7 DEF InUse, Calls, Bits
<1>9. QED
  BY <1>7, <1>8 DEF Calls, Bits

-----------------------------------------------------------------------------
(* The steps                                                               *)

\* What a call has in hand at its label.
LEMMA LocalFacts ==
  ASSUME Heap, Calls, NEW t \in Threads
  PROVE  /\ pc \in [Threads -> {"run", "page", "pageref", "refpage", "relock", "raced", "giveback"}]
         /\ prpage[t] \in Pages \cup {NULL} /\ pr[t] \in Pagerefs \cup {NULL} /\ va[t] \in Pages \cup {NULL}
         /\ prpage[t] # NULL <=> pc[t] \in HasPage
         /\ pr[t] # NULL <=> pc[t] \in HasRef
         /\ va[t] # NULL => pc[t] \in {"relock", "raced"}
         /\ NULL \notin Pages /\ NULL \notin Pagerefs
BY HeapCalls, KernelHeapAssumption DEF CallTypes, Calls, InHand

\* kmalloc finds a block.
LEMMA HitStep ==
  ASSUME Heap, Calls, ~ panicked, NEW t \in Threads, NEW b \in BlockTypes, KmallocHit(t, b)
  PROVE  Heap' /\ Calls' /\ ~ panicked'
<1>1. UNCHANGED <<kpages, kheaproots, pc, blktype, prpage, pr, va, leaked, panicked>>
  BY DEF KmallocHit
<1>2. Content' /\ SamePages
  BY HitContent
<1>3. CallTypes'
  BY <1>1, HeapCalls DEF CallTypes
<1>4. OnePlace' /\ SomePlace'
  BY <1>1, <1>2, PagesStay DEF Heap, Calls
<1>5. InHand' /\ Bits' /\ FullBefore' /\ Counted'
  BY <1>1, <1>2, SameCalls DEF Heap, Calls, SamePages
<1>6. QED
  BY <1>1, <1>2, <1>3, <1>4, <1>5, HeapParts DEF Calls

\* kfree of a block of a page that keeps others.
LEMMA KfreeStep ==
  ASSUME Heap, Calls, ~ panicked, NEW t \in Threads, NEW b, Kfree(t, b)
  PROVE  Heap' /\ Calls' /\ ~ panicked'
<1>1. UNCHANGED <<kpages, kheaproots, pc, blktype, prpage, pr, va, leaked, panicked>>
  BY DEF Kfree
<1>2. Content' /\ SamePages
  BY KfreeContent
<1>3. CallTypes'
  BY <1>1, HeapCalls DEF CallTypes
<1>4. OnePlace' /\ SomePlace'
  BY <1>1, <1>2, PagesStay DEF Heap, Calls
<1>5. InHand' /\ Bits' /\ FullBefore' /\ Counted'
  BY <1>1, <1>2, SameCalls DEF Heap, Calls, SamePages
<1>6. QED
  BY <1>1, <1>2, <1>3, <1>4, <1>5, HeapParts DEF Calls

\* kmalloc finds none.
LEMMA MissStep ==
  ASSUME Heap, Calls, ~ panicked, NEW t \in Threads, NEW b \in BlockTypes, KmallocMiss(t, b)
  PROVE  Heap' /\ Calls' /\ ~ panicked'
<1>1. /\ UNCHANGED <<kpages, kheaproots, refs, lists, held, prpage, pr, va, leaked, panicked>>
      /\ pc[t] = "run" /\ pc' = [pc EXCEPT ![t] = "page"] /\ blktype' = [blktype EXCEPT ![t] = b]
  BY DEF KmallocMiss, At, Goto
<1>2. Content' /\ SamePages
  BY <1>1, HeapContent, SameContent
<1>3. CallTypes'
  BY <1>1, HeapCalls DEF CallTypes
<1>4. OnePlace' /\ SomePlace'
  BY <1>1, <1>2, PagesStay DEF Heap, Calls
<1>5. InHand'
  BY <1>1, LocalFacts DEF Calls, InHand, HasPage, HasRef, RefPage
<1>6. Bits' /\ FullBefore' /\ Counted'
  BY <1>1, <1>2 DEF Heap, Calls, Bits, InUse, FullBefore, Counted, SamePages
<1>7. QED
  BY <1>1, <1>2, <1>3, <1>4, <1>5, <1>6, HeapParts DEF Calls

\* alloc_kpages gives a page.
LEMMA GetPageStep ==
  ASSUME Heap, Calls, ~ panicked, NEW t \in Threads, GetPage(t)
  PROVE  Heap' /\ Calls' /\ ~ panicked'
<1>1. PICK p \in Pages : AllocKpages(p) /\ prpage' = [prpage EXCEPT ![t] = p] /\ Goto(t, "pageref")
  BY DEF GetPage
<1>2. /\ p \in kpages /\ kpages' = kpages \ {p} /\ prpage' = [prpage EXCEPT ![t] = p]
      /\ pc' = [pc EXCEPT ![t] = "pageref"] /\ pc[t] = "page"
      /\ UNCHANGED <<kheaproots, refs, lists, held, blktype, pr, va, leaked, panicked>>
  BY <1>1, KernelHeapAssumption DEF GetPage, AllocKpages, Goto, At
<1>3. Content' /\ SamePages
  BY <1>2, HeapContent, SameContent
<1>4. CallTypes'
  BY <1>2, HeapCalls DEF CallTypes
<1>5. prpage[t] = NULL /\ prpage \in [Threads -> Pages \cup {NULL}]
  BY <1>2, LocalFacts, HeapCalls DEF HasPage, CallTypes
<1>6. OnePlace' /\ SomePlace'
  <2>1. ASSUME NEW u \in Pages, u # p, NEW k, NEW v PROVE In(k, v, u)' <=> In(k, v, u)
    BY <1>2, <1>3, <1>5, <2>1, KernelHeapAssumption DEF In, SamePages
  <2>2. \A k, v : In(k, v, p) => k = "free" /\ v = NULL
    <3>1. In("free", NULL, p)
      BY <1>2 DEF In
    <3>2. QED
      BY <3>1 DEF Heap, OnePlace
  <2>3. ASSUME NEW k, NEW v PROVE In(k, v, p)' <=> k = "prpage" /\ v = t
    BY <1>2, <1>3, <1>5, <2>2 DEF In, SamePages
  <2>4. QED
    BY <2>1, <2>3, PagesMove DEF Heap, Calls
<1>7. InHand'
  BY <1>2, <1>5, LocalFacts DEF Calls, InHand, HasPage, HasRef, RefPage
<1>8. Bits' /\ FullBefore' /\ Counted'
  BY <1>2, <1>3 DEF Heap, Calls, Bits, InUse, FullBefore, Counted, SamePages
<1>9. QED
  BY <1>2, <1>3, <1>4, <1>6, <1>7, <1>8, HeapParts DEF Calls

\* There is no page: the call fails.
LEMMA GetPageFailsStep ==
  ASSUME Heap, Calls, ~ panicked, NEW t \in Threads, GetPageFails(t)
  PROVE  Heap' /\ Calls' /\ ~ panicked'
<1>1. /\ UNCHANGED <<kpages, kheaproots, refs, lists, held, leaked, panicked>>
      /\ pc[t] = "page" /\ pc' = [pc EXCEPT ![t] = "run"] /\ blktype' = [blktype EXCEPT ![t] = 1]
      /\ prpage' = [prpage EXCEPT ![t] = NULL] /\ pr' = [pr EXCEPT ![t] = NULL] /\ va' = [va EXCEPT ![t] = NULL]
  BY DEF GetPageFails, Return, At, Goto
<1>2. prpage[t] = NULL /\ pr[t] = NULL /\ va[t] = NULL
  BY <1>1, LocalFacts DEF HasPage, HasRef
<1>3. UNCHANGED <<prpage, pr, va>> /\ 1 \in BlockTypes
  <2>1. /\ prpage \in [Threads -> Pages \cup {NULL}] /\ pr \in [Threads -> Pagerefs \cup {NULL}]
        /\ va \in [Threads -> Pages \cup {NULL}]
    BY HeapCalls DEF CallTypes
  <2>2. 1 \in BlockTypes
    BY KernelHeapAssumption DEF BlockTypes
  <2>3. QED
    BY <1>1, <1>2, <2>1, <2>2
<1>4. Content' /\ SamePages
  BY <1>1, HeapContent, SameContent
<1>5. CallTypes'
  BY <1>1, <1>3, HeapCalls DEF CallTypes
<1>6. OnePlace' /\ SomePlace'
  BY <1>1, <1>3, <1>4, PagesStay DEF Heap, Calls
<1>7. InHand'
  BY <1>1, <1>3, LocalFacts DEF Calls, InHand, HasPage, HasRef, RefPage
<1>8. Bits' /\ FullBefore' /\ Counted'
  BY <1>1, <1>3, <1>4 DEF Heap, Calls, Bits, InUse, FullBefore, Counted, SamePages
<1>9. QED
  BY <1>1, <1>4, <1>5, <1>6, <1>7, <1>8, HeapParts DEF Calls

\* A step of a call that stays on the way: its label changes, the rest is as before.
LEMMA OnTheWay ==
  ASSUME Heap, Calls, ~ panicked, NEW t \in Threads, NEW to \in {"giveback", "raced"},
         pc' = [pc EXCEPT ![t] = to],
         to = "giveback" => pc[t] = "pageref",
         to = "raced" => pc[t] = "relock" /\ RefPage(t) # NULL,
         UNCHANGED <<kpages, kheaproots, refs, lists, held, blktype, prpage, pr, va, leaked, panicked>>
  PROVE  Heap' /\ Calls' /\ ~ panicked'
<1>1. UNCHANGED <<kpages, kheaproots, refs, lists, held, blktype, prpage, pr, va, leaked, panicked>>
  OBVIOUS
<1>2. Content' /\ SamePages
  BY HeapContent, SameContent
<1>3. CallTypes'
  BY <1>1, HeapCalls DEF CallTypes
<1>4. OnePlace' /\ SomePlace'
  BY <1>1, <1>2, PagesStay DEF Heap, Calls
<1>5. InHand'
  BY <1>1, LocalFacts DEF Calls, InHand, HasPage, HasRef, RefPage
<1>6. Bits' /\ FullBefore' /\ Counted'
  BY <1>1, <1>2 DEF Heap, Calls, Bits, InUse, FullBefore, Counted, SamePages
<1>7. QED
  BY <1>1, <1>2, <1>3, <1>4, <1>5, <1>6, HeapParts DEF Calls

LEMMA AllocpagerefFailsStep ==
  ASSUME Heap, Calls, ~ panicked, NEW t \in Threads, AllocpagerefFails(t)
  PROVE  Heap' /\ Calls' /\ ~ panicked'
<1>1. /\ pc[t] = "pageref" /\ pc' = [pc EXCEPT ![t] = "giveback"]
      /\ UNCHANGED <<kpages, kheaproots, refs, lists, held, blktype, prpage, pr, va, leaked, panicked>>
  BY DEF AllocpagerefFails, At, Goto
<1>2. QED
  BY <1>1, OnTheWay

LEMMA RelockRacedStep ==
  ASSUME Heap, Calls, ~ panicked, NEW t \in Threads, RelockRaced(t)
  PROVE  Heap' /\ Calls' /\ ~ panicked'
<1>1. /\ pc[t] = "relock" /\ RefPage(t) # NULL /\ pc' = [pc EXCEPT ![t] = "raced"]
      /\ UNCHANGED <<kpages, kheaproots, refs, lists, held, blktype, prpage, pr, va, leaked, panicked>>
  BY DEF RelockRaced, At, Goto
<1>2. QED
  BY <1>1, OnTheWay

\* allocpageref marks a pageref of a root that has no page yet.
LEMMA AllocpagerefDropsStep ==
  ASSUME Heap, Calls, ~ panicked, NEW t \in Threads, AllocpagerefDrops(t)
  PROVE  Heap' /\ Calls' /\ ~ panicked'
<1>1. PICK q : q = FreeRef
  OBVIOUS
<1>2. /\ Roomy # {} /\ MarkInuse(q) /\ pr' = [pr EXCEPT ![t] = q] /\ pc[t] = "pageref"
      /\ pc' = [pc EXCEPT ![t] = "refpage"]
      /\ UNCHANGED <<kpages, refs, lists, held, blktype, prpage, va, leaked, panicked>>
  BY <1>1 DEF AllocpagerefDrops, At, Goto
<1>3. /\ q \in Pagerefs /\ ~ InUse(q)
      /\ kheaproots' \in [Roots -> Root] /\ Counted'
      /\ \A r \in Roots : kheaproots'[r].page = kheaproots[r].page
      /\ \A x \in Pagerefs : InUse(x)' <=> InUse(x) \/ x = q
      /\ FullBefore'
  BY <1>1, <1>2, Marked
<1>4. Content' /\ SamePages
  BY <1>2, HeapContent, SameContent
<1>5. CallTypes'
  BY <1>2, <1>3, HeapCalls DEF CallTypes
<1>6. OnePlace' /\ SomePlace'
  BY <1>2, <1>3, <1>4, PagesStay DEF Heap, Calls
<1>7. pr[t] = NULL /\ pr \in [Threads -> Pagerefs \cup {NULL}] /\ pr'[t] = q /\ \A u \in Threads : u # t => pr'[u] = pr[u]
  <2>1. pr \in [Threads -> Pagerefs \cup {NULL}]
    BY HeapCalls DEF CallTypes
  <2>2. QED
    BY <1>2, <2>1, LocalFacts DEF HasRef
<1>8. InHand'
  <2>1. ASSUME NEW u \in Threads, u # t, pc[u] = "raced" PROVE RefPage(u)' # NULL
    <3>1. pr[u] \in Pagerefs /\ kheaproots[pr[u][1]].page # NULL
      BY <2>1, LocalFacts DEF Calls, InHand, HasRef, RefPage
    <3>2. pr[u][1] \in Roots
      BY <3>1 DEF Pagerefs
    <3>3. QED
      BY <1>3, <1>7, <2>1, <3>1, <3>2 DEF RefPage
  <2>2. q # NULL
    BY <1>3, LocalFacts
  <2>3. QED
    BY <1>2, <1>7, <2>1, <2>2, LocalFacts DEF Calls, InHand, HasPage, HasRef
<1>9. Bits'
  <2>1. q \notin Live /\ q \notin leaked /\ \A u \in Threads : pr[u] # q
    BY <1>3 DEF Calls, Bits
  <2>2. Live' = Live /\ leaked' = leaked /\ q # NULL
    BY <1>2, <1>3, <1>4, LocalFacts DEF SamePages
  <2>3. \A x : (\E u \in Threads : pr'[u] = x) /\ x # NULL <=> (x = q \/ \E u \in Threads : pr[u] = x) /\ x # NULL
    BY <1>7, <2>2
  <2>4. \A x \in Pagerefs : InUse(x)' <=> x \in Live' \/ x \in leaked' \/ \E u \in Threads : pr'[u] = x
    BY <1>3, <2>2, <2>3, LocalFacts DEF Calls, Bits
  <2>5. \A x \in Live' : x \notin leaked' /\ \A u \in Threads : pr'[u] # x
    BY <1>7, <2>1, <2>2 DEF Calls, Bits
  <2>6. \A u, w \in Threads : pr'[u] # NULL /\ pr'[u] = pr'[w] => u = w
    BY <1>7, <2>1 DEF Calls, Bits
  <2>7. \A u \in Threads : pr'[u] \notin leaked'
    BY <1>7, <2>1, <2>2 DEF Calls, Bits
  <2>8. \A x \in Live' : kheaproots'[x[1]].page # NULL
    BY <1>3, <2>2, LiveRefs DEF Heap, Calls, Bits, Pagerefs
  <2>9. QED
    BY <2>4, <2>5, <2>6, <2>7, <2>8 DEF Bits
<1>10. QED
  BY <1>2, <1>3, <1>4, <1>5, <1>6, <1>8, <1>9, HeapParts DEF Calls

\* A page for the pagerefs of a root, or none.
LEMMA AllocpagerefpageStep ==
  ASSUME Heap, Calls, ~ panicked, NEW t \in Threads, Allocpagerefpage(t)
  PROVE  Heap' /\ Calls' /\ ~ panicked'
<1>1. PICK p \in Pages \cup {NULL} : AllocKpages(p) /\ va' = [va EXCEPT ![t] = p]
  BY DEF Allocpagerefpage
<1>2. /\ pc[t] = "refpage" /\ pc' = [pc EXCEPT ![t] = "relock"]
      /\ UNCHANGED <<kheaproots, refs, lists, held, blktype, prpage, pr, leaked, panicked>>
  BY DEF Allocpagerefpage, At, Goto
<1>3. va[t] = NULL /\ va \in [Threads -> Pages \cup {NULL}] /\ kpages \subseteq Pages
  BY <1>2, LocalFacts, HeapCalls DEF CallTypes
<1>4. kpages' = kpages \ {p} /\ (p # NULL => p \in kpages)
  BY <1>1, <1>3, KernelHeapAssumption DEF AllocKpages
<1>5. Content' /\ SamePages
  BY <1>2, HeapContent, SameContent
<1>6. CallTypes'
  BY <1>1, <1>2, <1>3, <1>4, HeapCalls DEF CallTypes
<1>7. OnePlace' /\ SomePlace'
  <2>1. ASSUME NEW u \in Pages, u # p, NEW k, NEW v PROVE In(k, v, u)' <=> In(k, v, u)
    BY <1>1, <1>2, <1>3, <1>4, <1>5, <2>1, KernelHeapAssumption DEF In, SamePages
  <2>2. ASSUME p \in Pages PROVE \A k, v : In(k, v, p)' <=> k = "va" /\ v = t
    <3>1. In("free", NULL, p)
      BY <1>4, <2>2, KernelHeapAssumption DEF In
    <3>2. \A k, v : In(k, v, p) => k = "free" /\ v = NULL
      BY <2>2, <3>1 DEF Heap, OnePlace
    <3>3. QED
      BY <1>1, <1>2, <1>3, <1>4, <1>5, <3>2 DEF In, SamePages
  <2>3. QED
    BY <2>1, <2>2, PagesMove DEF Heap, Calls
<1>8. InHand'
  BY <1>1, <1>2, <1>3, LocalFacts DEF Calls, InHand, HasPage, HasRef, RefPage
<1>9. Bits' /\ FullBefore' /\ Counted'
  BY <1>2, <1>5 DEF Heap, Calls, Bits, InUse, FullBefore, Counted, SamePages
<1>10. QED
  BY <1>2, <1>5, <1>6, <1>7, <1>8, <1>9, HeapParts DEF Calls

\* The page that lost the race goes back.
LEMMA FreeRacedStep ==
  ASSUME Heap, Calls, ~ panicked, NEW t \in Threads, FreeRaced(t)
  PROVE  Heap' /\ Calls' /\ ~ panicked'
<1>1. /\ va[t] # NULL /\ kpages' = kpages \cup {va[t]} /\ va' = [va EXCEPT ![t] = NULL]
      /\ UNCHANGED <<kheaproots, refs, lists, held, pc, blktype, prpage, pr, leaked, panicked>>
  BY DEF FreeRaced
<1>2. va \in [Threads -> Pages \cup {NULL}] /\ kpages \subseteq Pages
  BY HeapCalls DEF CallTypes
<1>3. PICK p \in Pages : p = va[t]
  BY <1>1, <1>2
<1>4. Content' /\ SamePages
  BY <1>1, HeapContent, SameContent
<1>5. CallTypes'
  BY <1>1, <1>2, HeapCalls DEF CallTypes
<1>6. OnePlace' /\ SomePlace'
  <2>1. ASSUME NEW u \in Pages, u # p, NEW k, NEW v PROVE In(k, v, u)' <=> In(k, v, u)
    BY <1>1, <1>2, <1>3, <1>4, <2>1, KernelHeapAssumption DEF In, SamePages
  <2>2. \A k, v : In(k, v, p)' <=> k = "free" /\ v = NULL
    <3>1. In("va", t, p)
      BY <1>3 DEF In
    <3>2. \A k, v : In(k, v, p) => k = "va" /\ v = t
      BY <3>1 DEF Heap, OnePlace
    <3>3. QED
      BY <1>1, <1>2, <1>3, <1>4, <3>2, KernelHeapAssumption DEF In, SamePages
  <2>3. QED
    BY <2>1, <2>2, PagesMove DEF Heap, Calls
<1>7. InHand'
  BY <1>1, <1>2, LocalFacts DEF Calls, InHand, HasPage, HasRef, RefPage
<1>8. Bits' /\ FullBefore' /\ Counted'
  BY <1>1, <1>4 DEF Heap, Calls, Bits, InUse, FullBefore, Counted, SamePages
<1>9. QED
  BY <1>1, <1>4, <1>5, <1>6, <1>7, <1>8, HeapParts DEF Calls

\* No page for the pagerefs: the pageref stays marked, and is nobody's.
LEMMA RelockFailsStep ==
  ASSUME Heap, Calls, ~ panicked, NEW t \in Threads, RelockFails(t)
  PROVE  Heap' /\ Calls' /\ ~ panicked'
<1>1. /\ pc[t] = "relock" /\ va[t] = NULL /\ leaked' = leaked \cup {pr[t]} /\ pr' = [pr EXCEPT ![t] = NULL]
      /\ pc' = [pc EXCEPT ![t] = "giveback"]
      /\ UNCHANGED <<kpages, kheaproots, refs, lists, held, blktype, prpage, va, panicked>>
  BY DEF RelockFails, At, Goto
<1>2. pr[t] \in Pagerefs /\ pr \in [Threads -> Pagerefs \cup {NULL}] /\ leaked \subseteq Pagerefs
  BY <1>1, LocalFacts, HeapCalls DEF HasRef, CallTypes
<1>3. PICK q \in Pagerefs : q = pr[t]
  BY <1>2
<1>4. Content' /\ SamePages
  BY <1>1, HeapContent, SameContent
<1>5. CallTypes'
  BY <1>1, <1>2, HeapCalls DEF CallTypes
<1>6. OnePlace' /\ SomePlace'
  BY <1>1, <1>4, PagesStay DEF Heap, Calls
<1>7. InHand'
  BY <1>1, <1>2, LocalFacts DEF Calls, InHand, HasPage, HasRef, RefPage
<1>8. Bits'
  <2>1. Live' = Live /\ leaked' = leaked \cup {q} /\ pr'[t] = NULL /\ q # NULL /\ \A u \in Threads : u # t => pr'[u] = pr[u] /\ pr[u] # q
    BY <1>1, <1>2, <1>3, <1>4, LocalFacts DEF SamePages, Calls, Bits
  <2>2. \A x \in Pagerefs : InUse(x)' <=> InUse(x)
    BY <1>1 DEF InUse
  <2>3. ASSUME NEW x \in Pagerefs PROVE InUse(x)' <=> x \in Live' \/ x \in leaked' \/ \E u \in Threads : pr'[u] = x
    <3>1. InUse(x) <=> x \in Live \/ x \in leaked \/ \E u \in Threads : pr[u] = x
      BY DEF Calls, Bits
    <3>2. x # NULL
      BY LocalFacts
    <3>3. QED
      BY <1>3, <2>1, <2>2, <3>1, <3>2
  <2>4. \A x \in Live' : x \notin leaked' /\ \A u \in Threads : pr'[u] # x
    <3>1. NULL \notin Live /\ q \notin Live
      BY <1>3, LiveRefs, LocalFacts DEF Heap, Calls, Bits
    <3>2. QED
      BY <2>1, <3>1 DEF Calls, Bits
  <2>5. \A u, w \in Threads : pr'[u] # NULL /\ pr'[u] = pr'[w] => u = w
    BY <2>1 DEF Calls, Bits
  <2>6. \A u \in Threads : pr'[u] \notin leaked'
    BY <1>2, <2>1, LocalFacts DEF Calls, Bits
  <2>7. \A x \in Live' : kheaproots'[x[1]].page # NULL
    BY <1>1, <2>1 DEF Calls, Bits
  <2>8. QED
    BY <2>3, <2>4, <2>5, <2>6, <2>7 DEF Bits
<1>9. FullBefore' /\ Counted'
  BY <1>1 DEF Heap, Calls, FullBefore, Counted
<1>10. QED
  BY <1>1, <1>4, <1>5, <1>6, <1>7, <1>8, <1>9, HeapParts DEF Calls

\* free_kpages at the end of a call.
LEMMA GiveBackStep ==
  ASSUME Heap, Calls, ~ panicked, NEW t \in Threads, GiveBack(t)
  PROVE  Heap' /\ Calls' /\ ~ panicked'
<1>1. /\ pc[t] = "giveback" /\ kpages' = kpages \cup {prpage[t]} /\ pc' = [pc EXCEPT ![t] = "run"]
      /\ blktype' = [blktype EXCEPT ![t] = 1] /\ prpage' = [prpage EXCEPT ![t] = NULL]
      /\ pr' = [pr EXCEPT ![t] = NULL] /\ va' = [va EXCEPT ![t] = NULL]
      /\ UNCHANGED <<kheaproots, refs, lists, held, leaked, panicked>>
  BY DEF GiveBack, Return, At, Goto
<1>2. prpage[t] \in Pages /\ pr[t] = NULL /\ va[t] = NULL
  BY <1>1, LocalFacts DEF HasPage, HasRef
<1>3. /\ prpage \in [Threads -> Pages \cup {NULL}] /\ pr \in [Threads -> Pagerefs \cup {NULL}]
      /\ va \in [Threads -> Pages \cup {NULL}] /\ kpages \subseteq Pages
  BY HeapCalls DEF CallTypes
<1>4. pr' = pr /\ va' = va /\ 1 \in BlockTypes
  BY <1>1, <1>2, <1>3, KernelHeapAssumption DEF BlockTypes
<1>5. PICK p \in Pages : p = prpage[t]
  BY <1>2
<1>6. Content' /\ SamePages
  BY <1>1, HeapContent, SameContent
<1>7. CallTypes'
  BY <1>1, <1>2, <1>3, <1>4, HeapCalls DEF CallTypes
<1>8. OnePlace' /\ SomePlace'
  <2>1. ASSUME NEW u \in Pages, u # p, NEW k, NEW v PROVE In(k, v, u)' <=> In(k, v, u)
    BY <1>1, <1>3, <1>4, <1>5, <1>6, <2>1, KernelHeapAssumption DEF In, SamePages
  <2>2. \A k, v : In(k, v, p)' <=> k = "free" /\ v = NULL
    <3>1. In("prpage", t, p)
      BY <1>5 DEF In
    <3>2. \A k, v : In(k, v, p) => k = "prpage" /\ v = t
      BY <3>1 DEF Heap, OnePlace
    <3>3. p \in kpages'
      BY <1>1, <1>5
    <3>4. ASSUME NEW u \in Threads PROVE prpage'[u] # p
      <4>1. CASE u = t
        BY <1>1, <1>3, <4>1, KernelHeapAssumption
      <4>2. CASE u # t
        <5>1. prpage'[u] = prpage[u]
          BY <1>1, <1>3, <4>2
        <5>2. prpage[u] = p => In("prpage", u, p)
          BY DEF In
        <5>3. QED
          BY <3>2, <4>2, <5>1, <5>2
      <4>3. QED
        BY <4>1, <4>2
    <3>5. ASSUME NEW k, NEW v, k # "free", k # "prpage", In(k, v, p)' PROVE In(k, v, p)
      BY <1>1, <1>4, <1>6, <3>5 DEF In, SamePages
    <3>6. ASSUME NEW k, NEW v, In(k, v, p)' PROVE k = "free" /\ v = NULL
      <4>1. k # "prpage"
        BY <3>4, <3>6 DEF In
      <4>2. k = "free"
        BY <3>2, <3>5, <3>6, <4>1
      <4>3. QED
        BY <3>6, <4>2 DEF In
    <3>7. In("free", NULL, p)'
      BY <3>3 DEF In
    <3>8. QED
      BY <3>6, <3>7
  <2>3. QED
    BY <2>1, <2>2, PagesMove DEF Heap, Calls
<1>9. InHand'
  BY <1>1, <1>3, <1>4, LocalFacts DEF Calls, InHand, HasPage, HasRef, RefPage
<1>10. Bits' /\ FullBefore' /\ Counted'
  BY <1>1, <1>4, <1>6 DEF Heap, Calls, Bits, InUse, FullBefore, Counted, SamePages
<1>11. QED
  BY <1>1, <1>6, <1>7, <1>8, <1>9, <1>10, HeapParts DEF Calls

\* A block of a whole page.
LEMMA KmallocBigStep ==
  ASSUME Heap, Calls, ~ panicked, NEW t \in Threads, KmallocBig(t)
  PROVE  Heap' /\ Calls' /\ ~ panicked'
<1>1. PICK p \in Pages : AllocKpages(p) /\ held' = held \cup {[page |-> p, offset |-> 0, size |-> PAGE_SIZE]}
  BY DEF KmallocBig
<1>2. UNCHANGED <<kheaproots, refs, lists, pc, blktype, prpage, pr, va, leaked, panicked>>
  BY DEF KmallocBig
<1>3. p \in kpages /\ kpages' = kpages \ {p} /\ kpages \subseteq Pages
  BY <1>1, HeapCalls, KernelHeapAssumption DEF AllocKpages, CallTypes
<1>4. PICK new : new = [page |-> p, offset |-> 0, size |-> PAGE_SIZE]
  OBVIOUS
<1>5. held' = held \cup {new} /\ new.page = p /\ new.size = PAGE_SIZE
  BY <1>1, <1>4
<1>6. Content' /\ Live' = Live /\ refs' = refs
  BY <1>2, <1>3, <1>4, <1>5, KmallocBigContent
<1>7. CallTypes'
  BY <1>2, <1>3, HeapCalls DEF CallTypes
<1>8. OnePlace' /\ SomePlace'
  <2>1. ASSUME NEW u \in Pages, u # p, NEW k, NEW v PROVE In(k, v, u)' <=> In(k, v, u)
    BY <1>2, <1>3, <1>5, <1>6, <2>1 DEF In
  <2>2. \A k, v : In(k, v, p)' <=> k = "big" /\ v = new
    <3>1. In("free", NULL, p)
      BY <1>3 DEF In
    <3>2. \A k, v : In(k, v, p) => k = "free" /\ v = NULL
      BY <3>1 DEF Heap, OnePlace
    <3>3. QED
      BY <1>2, <1>3, <1>5, <1>6, <3>2 DEF In
  <2>3. QED
    BY <2>1, <2>2, PagesMove DEF Heap, Calls
<1>9. InHand' /\ Bits' /\ FullBefore' /\ Counted'
  BY <1>2, <1>6, SameCalls DEF Heap, Calls
<1>10. QED
  BY <1>2, <1>6, <1>7, <1>8, <1>9, HeapParts DEF Calls

\* kfree of a whole page, or of a pointer that is on no page of blocks: there is none.
LEMMA KfreeBigStep ==
  ASSUME Heap, Calls, ~ panicked, NEW t \in Threads, NEW b \in held, KfreeBig(t, b)
  PROVE  Heap' /\ Calls' /\ ~ panicked'
<1>1. b.size = PAGE_SIZE /\ b.offset = 0
  BY PageNotFound DEF KfreeBig
<1>2. /\ pc[t] = "run" /\ held' = held \ {b} /\ prpage' = [prpage EXCEPT ![t] = b.page]
      /\ pc' = [pc EXCEPT ![t] = "giveback"]
      /\ UNCHANGED <<kpages, kheaproots, refs, lists, blktype, pr, va, leaked, panicked>>
  BY <1>1 DEF KfreeBig, At, Goto
<1>3. prpage[t] = NULL /\ prpage \in [Threads -> Pages \cup {NULL}]
  BY <1>2, LocalFacts, HeapCalls DEF CallTypes, HasPage
<1>4. b.page \in Pages
  BY DEF Heap, TypeOK, Block
<1>5. PICK p \in Pages : p = b.page
  BY <1>4
<1>6. Content' /\ Live' = Live /\ refs' = refs
  BY <1>1, <1>2, KfreeBigContent
<1>7. CallTypes'
  BY <1>2, <1>3, <1>4, HeapCalls DEF CallTypes
<1>8. OnePlace' /\ SomePlace'
  <2>1. ASSUME NEW u \in Pages, u # p, NEW k, NEW v PROVE In(k, v, u)' <=> In(k, v, u)
    BY <1>2, <1>3, <1>5, <1>6, <2>1, KernelHeapAssumption DEF In
  <2>2. \A k, v : In(k, v, p)' <=> k = "prpage" /\ v = t
    <3>1. In("big", b, p)
      BY <1>1, <1>5 DEF In
    <3>2. \A k, v : In(k, v, p) => k = "big" /\ v = b
      BY <3>1 DEF Heap, OnePlace
    <3>3. QED
      BY <1>2, <1>3, <1>5, <1>6, <3>2 DEF In
  <2>3. QED
    BY <2>1, <2>2, PagesMove DEF Heap, Calls
<1>9. InHand'
  BY <1>2, <1>3, <1>4, LocalFacts DEF Calls, InHand, HasPage, HasRef, RefPage
<1>10. Bits' /\ FullBefore' /\ Counted'
  BY <1>2, <1>6 DEF Heap, Calls, Bits, InUse, FullBefore, Counted
<1>11. QED
  BY <1>2, <1>6, <1>7, <1>8, <1>9, <1>10, HeapParts DEF Calls

\* The end of subpage_kmalloc: the new page is one of blocks, and the page that the
\* call brought with it, if it did, is that of the pageref's root.
LEMMA NewPagePlaces ==
  ASSUME Heap, Calls, NEW t \in Threads, NEW q \in Pagerefs, prpage[t] \in Pages,
         prpage' = [prpage EXCEPT ![t] = NULL], va' = [va EXCEPT ![t] = NULL], kpages' = kpages,
         Live' = Live \cup {q}, refs'[q].page = prpage[t], \A x \in Live : refs'[x].page = refs[x].page,
         \A b : (b \in held' /\ b.size = PAGE_SIZE) <=> (b \in held /\ b.size = PAGE_SIZE),
         va[t] # NULL => kheaproots[q[1]].page = NULL,
         \A r \in Roots : kheaproots'[r].page = IF va[t] # NULL /\ r = q[1] THEN va[t] ELSE kheaproots[r].page
  PROVE  OnePlace' /\ SomePlace'
<1>a. prpage' = [prpage EXCEPT ![t] = NULL] /\ va' = [va EXCEPT ![t] = NULL]
  OBVIOUS
<1>b. prpage \in [Threads -> Pages \cup {NULL}] /\ va \in [Threads -> Pages \cup {NULL}]
  BY HeapCalls DEF CallTypes
<1>c. prpage[t] \in Pages
  OBVIOUS
<1>d. /\ Live' = Live \cup {q} /\ refs'[q].page = prpage[t] /\ \A x \in Live : refs'[x].page = refs[x].page
      /\ \A b : (b \in held' /\ b.size = PAGE_SIZE) <=> (b \in held /\ b.size = PAGE_SIZE)
  OBVIOUS
<1>e. q[1] \in Roots
  BY DEF Pagerefs
<1>1. PICK p \in Pages : p = prpage[t]
  BY <1>c
<1>2. In("prpage", t, p)
  BY <1>1 DEF In
<1>3. /\ p \notin kpages /\ \A r \in Roots : kheaproots[r].page # p
      /\ \A x \in Live : refs[x].page # p
      /\ \A b \in held : ~ (b.page = p /\ b.size = PAGE_SIZE)
      /\ \A u \in Threads : (prpage[u] = p => u = t) /\ va[u] # p
  BY <1>2, OnlyIn DEF Heap
<1>4. ASSUME NEW u \in Pages, u # p, u # va[t], NEW k, NEW v PROVE In(k, v, u)' <=> In(k, v, u)
  <2>1. v \in Live' /\ refs'[v].page = u <=> v \in Live /\ refs[v].page = u
    BY <1>d, <1>1, <1>4
  <2>2. v \in held' /\ v.page = u /\ v.size = PAGE_SIZE <=> v \in held /\ v.page = u /\ v.size = PAGE_SIZE
    BY <1>d
  <2>3. v \in Roots => (kheaproots'[v].page = u <=> kheaproots[v].page = u)
    BY <1>4, LocalFacts
  <2>4. v \in Threads => (prpage'[v] = u <=> prpage[v] = u) /\ (va'[v] = u <=> va[v] = u)
    BY <1>a, <1>b, <1>1, <1>4, LocalFacts
  <2>5. QED
    BY <2>1, <2>2, <2>3, <2>4 DEF In
<1>5. ASSUME NEW z \in Pages, z = p, NEW k, NEW v PROVE In(k, v, z)' <=> k = "blocks" /\ v = q
  <2>1. v \in Live' /\ refs'[v].page = z <=> v = q
    BY <1>d, <1>1, <1>3, <1>5
  <2>2. ~ (v \in held' /\ v.page = z /\ v.size = PAGE_SIZE)
    BY <1>d, <1>3, <1>5
  <2>3. v \in Roots => kheaproots'[v].page # z
    BY <1>3, <1>5
  <2>4. v \in Threads => prpage'[v] # z /\ va'[v] # z
    BY <1>a, <1>b, <1>1, <1>3, <1>5, LocalFacts
  <2>5. z \notin kpages'
    BY <1>3, <1>5
  <2>6. QED
    BY <2>1, <2>2, <2>3, <2>4, <2>5 DEF In
<1>6. ASSUME NEW z \in Pages, z = va[t], NEW k, NEW v PROVE In(k, v, z)' <=> k = "root" /\ v = q[1]
  <2>1. In("va", t, z) /\ z # p /\ z # NULL
    BY <1>3, <1>6, LocalFacts DEF In
  <2>2. /\ z \notin kpages /\ \A r \in Roots : kheaproots[r].page # z
        /\ \A x \in Live : refs[x].page # z
        /\ \A b \in held : ~ (b.page = z /\ b.size = PAGE_SIZE)
        /\ \A u \in Threads : (va[u] = z => u = t) /\ prpage[u] # z
    BY <2>1, OnlyIn DEF Heap
  <2>3. ~ (v \in Live' /\ refs'[v].page = z)
    BY <1>d, <1>1, <2>1, <2>2
  <2>4. ~ (v \in held' /\ v.page = z /\ v.size = PAGE_SIZE)
    BY <1>d, <2>2
  <2>5. v \in Roots => (kheaproots'[v].page = z <=> v = q[1])
    BY <1>6, <2>1, <2>2
  <2>6. v \in Threads => prpage'[v] # z /\ va'[v] # z
    BY <1>a, <1>b, <2>1, <2>2, LocalFacts
  <2>7. z \notin kpages'
    BY <2>2
  <2>8. QED
    BY <1>e, <2>3, <2>4, <2>5, <2>6, <2>7 DEF In
<1>7. \A z \in Pages : z = p => \A k, v : In(k, v, z)' <=> k = "blocks" /\ v = q
  BY <1>5
<1>8. \A z \in Pages : z = va[t] => \A k, v : In(k, v, z)' <=> k = "root" /\ v = q[1]
  BY <1>6
<1>9. \A u \in Pages : u = p \/ u = va[t] \/ \A k, v : In(k, v, u)' <=> In(k, v, u)
  BY <1>4
<1>10. \A z \in Pages : z = p => \E l, w : \A k, v : In(k, v, z)' <=> k = l /\ v = w
  BY <1>7
<1>11. \A z \in Pages : z = va[t] => \E l, w : \A k, v : In(k, v, z)' <=> k = l /\ v = w
  BY <1>8
<1>12. QED
  BY <1>9, <1>10, <1>11, PagesMove DEF Heap, Calls

\* The end of subpage_kmalloc with a pageref q that is marked, for a call that may
\* have brought the page of q's root with it.
LEMMA NewPageStep ==
  ASSUME Heap, Calls, ~ panicked, NEW t \in Threads, NEW q \in Pagerefs, NewPage(t, q),
         pc[t] \in {"pageref", "relock", "raced"},
         q \notin Live, q \notin leaked, pr[t] \in {NULL, q}, \A u \in Threads : u # t => pr[u] # q,
         UNCHANGED <<kpages, leaked, panicked>>,
         kheaproots' \in [Roots -> Root], Counted', FullBefore',
         \A x \in Pagerefs : InUse(x)' <=> InUse(x) \/ x = q,
         va[t] # NULL => kheaproots[q[1]].page = NULL,
         \A r \in Roots : kheaproots'[r].page = IF va[t] # NULL /\ r = q[1] THEN va[t] ELSE kheaproots[r].page,
         kheaproots'[q[1]].page # NULL
  PROVE  Heap' /\ Calls' /\ ~ panicked'
<1>1. /\ pc' = [pc EXCEPT ![t] = "run"] /\ blktype' = [blktype EXCEPT ![t] = 1]
      /\ prpage' = [prpage EXCEPT ![t] = NULL] /\ pr' = [pr EXCEPT ![t] = NULL] /\ va' = [va EXCEPT ![t] = NULL]
  BY DEF NewPage, Return, Goto
<1>2. /\ prpage \in [Threads -> Pages \cup {NULL}] /\ pr \in [Threads -> Pagerefs \cup {NULL}]
      /\ va \in [Threads -> Pages \cup {NULL}]
  BY HeapCalls DEF CallTypes
<1>3. prpage[t] \in Pages
  BY LocalFacts DEF HasPage
<1>4. /\ Content' /\ Live' = Live \cup {q} /\ refs'[q].page = prpage[t]
      /\ \A r \in Live : refs'[r].page = refs[r].page
      /\ \A b : (b \in held' /\ b.size = PAGE_SIZE) <=> (b \in held /\ b.size = PAGE_SIZE)
  BY <1>3, NewPageContent
<1>5. CallTypes'
  <2>1. 1 \in BlockTypes
    BY KernelHeapAssumption DEF BlockTypes
  <2>2. QED
    BY <1>1, <2>1, HeapCalls DEF CallTypes
<1>6. q[1] \in Roots /\ \A x \in Pagerefs : x[1] \in Roots
  BY DEF Pagerefs
<1>7. OnePlace' /\ SomePlace'
  BY <1>1, <1>3, <1>4, NewPagePlaces
<1>8. pr'[t] = NULL /\ \A u \in Threads : u # t => pr'[u] = pr[u] /\ pr[u] # q
  BY <1>1, <1>2
<1>9. InHand'
  <2>1. ASSUME NEW u \in Threads, u # t, pc[u] = "raced" PROVE RefPage(u)' # NULL
    <3>1. pr[u] \in Pagerefs /\ kheaproots[pr[u][1]].page # NULL
      BY <2>1, LocalFacts DEF Calls, InHand, HasRef, RefPage
    <3>2. kheaproots'[pr[u][1]].page # NULL
      BY <1>6, <3>1
    <3>3. QED
      BY <1>8, <2>1, <3>2 DEF RefPage
  <2>2. QED
    BY <1>1, <1>2, <2>1, LocalFacts DEF Calls, InHand, HasPage, HasRef
<1>10. Bits'
  <2>1. ASSUME NEW x \in Pagerefs PROVE InUse(x)' <=> x \in Live' \/ x \in leaked' \/ \E u \in Threads : pr'[u] = x
    <3>1. InUse(x) <=> x \in Live \/ x \in leaked \/ \E u \in Threads : pr[u] = x
      BY DEF Calls, Bits
    <3>2. x # NULL
      BY LocalFacts
    <3>3. QED
      BY <1>4, <1>8, <3>1, <3>2
  <2>2. \A x \in Live' : x \notin leaked' /\ \A u \in Threads : pr'[u] # x
    <3>1. NULL \notin Live /\ q # NULL
      BY LiveRefs, LocalFacts DEF Heap
    <3>2. QED
      BY <1>4, <1>8, <3>1 DEF Calls, Bits
  <2>3. \A u, w \in Threads : pr'[u] # NULL /\ pr'[u] = pr'[w] => u = w
    BY <1>8 DEF Calls, Bits
  <2>4. \A u \in Threads : pr'[u] \notin leaked'
    <3>1. NULL \notin leaked
      BY HeapCalls, LocalFacts DEF CallTypes
    <3>2. QED
      BY <1>8, <3>1 DEF Calls, Bits
  <2>5. ASSUME NEW x \in Live' PROVE kheaproots'[x[1]].page # NULL
    <3>1. CASE x = q
      BY <3>1
    <3>2. CASE x \in Live
      <4>1. x \in Pagerefs /\ kheaproots[x[1]].page # NULL
        BY <3>2, LiveRefs DEF Heap, Calls, Bits
      <4>2. QED
        BY <1>6, <4>1
    <3>3. QED
      BY <1>4, <3>1, <3>2
  <2>6. QED
    BY <2>1, <2>2, <2>3, <2>4, <2>5 DEF Bits
<1>11. QED
  BY <1>4, <1>5, <1>7, <1>9, <1>10, HeapParts DEF Calls

\* allocpageref finds a pageref of a root that has its page.
LEMMA AllocpagerefStep ==
  ASSUME Heap, Calls, ~ panicked, NEW t \in Threads, Allocpageref(t)
  PROVE  Heap' /\ Calls' /\ ~ panicked'
<1>1. PICK q : q = FreeRef
  OBVIOUS
<1>2. /\ Roomy # {} /\ MarkInuse(q) /\ NewPage(t, q) /\ pc[t] = "pageref" /\ kheaproots[q[1]].page # NULL
      /\ UNCHANGED <<kpages, leaked, panicked>>
  BY <1>1 DEF Allocpageref, At
<1>3. /\ q \in Pagerefs /\ ~ InUse(q)
      /\ kheaproots' \in [Roots -> Root] /\ Counted'
      /\ \A r \in Roots : kheaproots'[r].page = kheaproots[r].page
      /\ \A x \in Pagerefs : InUse(x)' <=> InUse(x) \/ x = q
      /\ FullBefore'
  BY <1>1, <1>2, Marked
<1>4. pr[t] = NULL /\ va[t] = NULL /\ q[1] \in Roots
  BY <1>2, <1>3, LocalFacts DEF HasRef, Pagerefs
<1>5. q \notin Live /\ q \notin leaked /\ \A u \in Threads : pr[u] # q
  BY <1>3 DEF Calls, Bits
<1>6. QED
  BY <1>2, <1>3, <1>4, <1>5, NewPageStep

\* A call's pageref is marked, and nobody else's.
LEMMA InFlight ==
  ASSUME Heap, Calls, NEW t \in Threads, pc[t] \in HasRef
  PROVE  /\ pr[t] \in Pagerefs /\ InUse(pr[t]) /\ pr[t][1] \in Roots
         /\ pr[t] \notin Live /\ pr[t] \notin leaked /\ \A u \in Threads : u # t => pr[u] # pr[t]
<1>1. pr[t] \in Pagerefs /\ pr[t] # NULL
  BY LocalFacts
<1>2. InUse(pr[t])
  BY <1>1 DEF Calls, Bits
<1>3. pr[t][1] \in Roots
  BY <1>1 DEF Pagerefs
<1>4. QED
  BY <1>1, <1>2, <1>3 DEF Calls, Bits

\* The page a call has found is that of its root.
LEMMA RelockTakeStep ==
  ASSUME Heap, Calls, ~ panicked, NEW t \in Threads, RelockTake(t)
  PROVE  Heap' /\ Calls' /\ ~ panicked'
<1>1. PICK q : q = pr[t]
  OBVIOUS
<1>2. PICK r : r = q[1]
  OBVIOUS
<1>3. /\ pc[t] = "relock" /\ va[t] # NULL /\ kheaproots[r].page = NULL /\ NewPage(t, q)
      /\ kheaproots' = [kheaproots EXCEPT ![r].page = va[t]] /\ UNCHANGED <<kpages, leaked, panicked>>
  BY <1>1, <1>2 DEF RelockTake, At, RefPage
<1>4. q \in Pagerefs /\ InUse(q) /\ r \in Roots /\ q \notin Live /\ q \notin leaked /\ \A u \in Threads : u # t => pr[u] # q
  BY <1>1, <1>2, <1>3, InFlight DEF HasRef
<1>5. kheaproots \in [Roots -> Root] /\ va[t] \in Pages
  BY <1>3, LocalFacts, HeapCalls DEF CallTypes
<1>6. /\ kheaproots' \in [Roots -> Root]
      /\ kheaproots'[r].page = va[t]
      /\ \A s \in Roots : s # r => kheaproots'[s].page = kheaproots[s].page
      /\ \A s \in Roots : kheaproots'[s].inuse = kheaproots[s].inuse /\ kheaproots'[s].numinuse = kheaproots[s].numinuse
  BY <1>3, <1>4, <1>5 DEF Root
<1>7. Counted'
  BY <1>6 DEF Heap, Counted
<1>8. FullBefore'
  BY <1>3, <1>5, <1>6, LocalFacts DEF Calls, FullBefore
<1>9. \A x \in Pagerefs : InUse(x)' <=> InUse(x) \/ x = q
  <2>1. \A x \in Pagerefs : InUse(x)' <=> InUse(x)
    BY <1>6 DEF InUse, Pagerefs
  <2>2. QED
    BY <1>4, <2>1
<1>10. kheaproots'[r].page # NULL /\ \A s \in Roots : kheaproots'[s].page = IF va[t] # NULL /\ s = q[1] THEN va[t] ELSE kheaproots[s].page
  BY <1>2, <1>3, <1>6
<1>11. QED
  BY <1>1, <1>2, <1>3, <1>4, <1>6, <1>7, <1>8, <1>9, <1>10, NewPageStep

\* A call that has no page with it, and finds its root with one.
LEMMA HasRootPage ==
  ASSUME Heap, Calls, ~ panicked, NEW t \in Threads, pc[t] \in {"relock", "raced"}, va[t] = NULL, RefPage(t) # NULL,
         NewPage(t, pr[t]), UNCHANGED <<kpages, kheaproots, leaked, panicked>>
  PROVE  Heap' /\ Calls' /\ ~ panicked'
<1>1. PICK q : q = pr[t]
  OBVIOUS
<1>2. q \in Pagerefs /\ InUse(q) /\ q \notin Live /\ q \notin leaked /\ \A u \in Threads : u # t => pr[u] # q
  BY <1>1, InFlight DEF HasRef
<1>3. kheaproots \in [Roots -> Root] /\ kheaproots' = kheaproots /\ kheaproots[q[1]].page # NULL
  BY <1>1, HeapCalls DEF CallTypes, RefPage
<1>4. Counted' /\ FullBefore'
  BY <1>3 DEF Heap, Counted, Calls, FullBefore
<1>5. \A x \in Pagerefs : InUse(x)' <=> InUse(x) \/ x = q
  BY <1>2, <1>3 DEF InUse
<1>6. QED
  BY <1>1, <1>2, <1>3, <1>4, <1>5, NewPageStep

LEMMA RelockLuckyStep ==
  ASSUME Heap, Calls, ~ panicked, NEW t \in Threads, RelockLucky(t)
  PROVE  Heap' /\ Calls' /\ ~ panicked'
BY HasRootPage DEF RelockLucky, At

\* The root's page has stayed, so the assertion after the race holds.
LEMMA RacedEndsStep ==
  ASSUME Heap, Calls, ~ panicked, NEW t \in Threads, RacedEnds(t)
  PROVE  Heap' /\ Calls' /\ ~ panicked'
<1>1. pc[t] = "raced" /\ va[t] = NULL
  BY DEF RacedEnds, At
<1>2. RefPage(t) # NULL
  BY <1>1 DEF Calls, InHand
<1>3. NewPage(t, pr[t]) /\ UNCHANGED <<kpages, kheaproots, leaked, panicked>>
  BY <1>2 DEF RacedEnds
<1>4. QED
  BY <1>1, <1>2, <1>3, HasRootPage

\* A step after which every page is in no place that it was not in before.
LEMMA PagesLost ==
  ASSUME OnePlace, \A p \in Pages : \A k, v : In(k, v, p)' => In(k, v, p)
  PROVE  OnePlace'
BY DEF OnePlace

\* kfree of the last block of a page.
LEMMA KfreeLastStep ==
  ASSUME Heap, Calls, ~ panicked, NEW t \in Threads, NEW b \in held, KfreeLast(t, b)
  PROVE  Heap' /\ (~ panicked' => Calls') /\ AssertionBehindFullRoot'
<1>1. PICK q : q = allbase[Min(PageOf(b))]
  OBVIOUS
<1>2. /\ q \in Live /\ q \in Pagerefs /\ refs[q].page = b.page /\ b.page \in Pages
      /\ Content' /\ Live' = Live \ {q}
      /\ \A r \in Live' : refs'[r].page = refs[r].page
      /\ \A c : (c \in held' /\ c.size = PAGE_SIZE) <=> (c \in held /\ c.size = PAGE_SIZE)
  BY <1>1, KfreeLastContent
<1>3. pc[t] = "run" /\ UNCHANGED <<kpages, blktype, pr, va, leaked>>
  BY DEF KfreeLast, At
<1>4. InUse(q)
  BY <1>2 DEF Calls, Bits
<1>5. CASE BadRoot(q)
  <2>1. panicked' = TRUE /\ UNCHANGED <<kheaproots, prpage, pc>>
    BY <1>1, <1>5 DEF KfreeLast
  <2>2. CallTypes'
    BY <1>3, <2>1, HeapCalls DEF CallTypes
  <2>3. Counted'
    BY <2>1 DEF Heap, Counted
  <2>4. OnePlace'
    <3>1. ASSUME NEW p \in Pages, NEW k, NEW v, In(k, v, p)' PROVE In(k, v, p)
      BY <1>2, <1>3, <2>1, <3>1 DEF In
    <3>2. QED
      BY <3>1, PagesLost DEF Heap
  <2>5. AssertionBehindFullRoot'
    BY <1>2, <1>3, <1>5, BadRootIsFull DEF AssertionBehindFullRoot
  <2>6. QED
    BY <1>2, <2>1, <2>2, <2>3, <2>4, <2>5, HeapParts
<1>6. CASE ~ BadRoot(q)
  <2>1. /\ Freepageref(q) /\ prpage' = [prpage EXCEPT ![t] = b.page]
        /\ pc' = [pc EXCEPT ![t] = "giveback"] /\ panicked' = panicked
    BY <1>1, <1>2, <1>4, <1>6 DEF KfreeLast, Goto, InUse
  <2>2. /\ kheaproots' \in [Roots -> Root] /\ Counted'
        /\ \A r \in Roots : kheaproots'[r].page = kheaproots[r].page
        /\ \A x \in Pagerefs : InUse(x)' <=> InUse(x) /\ x # q
        /\ FullBefore'
    BY <1>2, <2>1, Cleared
  <2>3. CallTypes'
    BY <1>2, <1>3, <2>1, <2>2, HeapCalls DEF CallTypes
  <2>4. /\ prpage[t] = NULL /\ prpage \in [Threads -> Pages \cup {NULL}]
        /\ va[t] = NULL /\ \A x \in Pagerefs : x[1] \in Roots
    BY <1>3, LocalFacts, HeapCalls DEF CallTypes, HasPage, Pagerefs
  <2>5. PICK p \in Pages : p = b.page
    BY <1>2
  <2>6. OnePlace' /\ SomePlace'
    <3>1. In("blocks", q, p)
      BY <1>2, <2>5 DEF In
    <3>2. /\ p \notin kpages /\ \A r \in Roots : kheaproots[r].page # p
          /\ \A x \in Live : refs[x].page = p => x = q
          /\ \A c \in held : ~ (c.page = p /\ c.size = PAGE_SIZE)
          /\ \A u \in Threads : prpage[u] # p /\ va[u] # p
      BY <3>1, OnlyIn DEF Heap
    <3>3. ASSUME NEW u \in Pages, u # p, NEW k, NEW v PROVE In(k, v, u)' <=> In(k, v, u)
      <4>1. v \in Live' /\ refs'[v].page = u <=> v \in Live /\ refs[v].page = u
        BY <1>2, <2>5, <3>3
      <4>2. v \in held' /\ v.page = u /\ v.size = PAGE_SIZE <=> v \in held /\ v.page = u /\ v.size = PAGE_SIZE
        BY <1>2
      <4>3. v \in Threads => (prpage'[v] = u <=> prpage[v] = u)
        BY <2>1, <2>4, <2>5, <3>3, LocalFacts
      <4>4. QED
        BY <1>3, <2>2, <4>1, <4>2, <4>3 DEF In
    <3>4. ASSUME NEW z \in Pages, z = p, NEW k, NEW v PROVE In(k, v, z)' <=> k = "prpage" /\ v = t
      <4>1. ~ (v \in Live' /\ refs'[v].page = z)
        BY <1>2, <3>2, <3>4
      <4>2. ~ (v \in held' /\ v.page = z /\ v.size = PAGE_SIZE)
        BY <1>2, <3>2, <3>4
      <4>3. v \in Threads => (prpage'[v] = z <=> v = t)
        BY <2>1, <2>4, <2>5, <3>2, <3>4
      <4>4. (v \in Roots => kheaproots'[v].page # z) /\ z \notin kpages' /\ (v \in Threads => va'[v] # z)
        BY <1>3, <2>2, <3>2, <3>4
      <4>5. QED
        BY <4>1, <4>2, <4>3, <4>4 DEF In
    <3>5. \A u \in Pages : u = p \/ \A k, v : In(k, v, u)' <=> In(k, v, u)
      BY <3>3
    <3>6. \A z \in Pages : z = p => \E l, w : \A k, v : In(k, v, z)' <=> k = l /\ v = w
      BY <3>4
    <3>7. QED
      BY <3>5, <3>6, PagesMove DEF Heap, Calls
  <2>7. InHand'
    <3>1. ASSUME NEW u \in Threads, pc[u] = "raced" PROVE RefPage(u)' # NULL
      BY <1>3, <2>2, <2>4, <3>1, InFlight DEF Calls, InHand, HasRef, RefPage
    <3>2. QED
      BY <1>2, <1>3, <2>1, <2>4, <3>1, LocalFacts DEF Calls, InHand, HasPage, HasRef
  <2>8. Bits'
    <3>1. \A x \in Pagerefs : InUse(x)' <=> x \in Live' \/ x \in leaked' \/ \E u \in Threads : pr'[u] = x
      BY <1>2, <1>3, <2>2 DEF Calls, Bits
    <3>2. \A x \in Live' : kheaproots'[x[1]].page # NULL
      BY <1>2, <2>2, <2>4, LiveRefs DEF Heap, Calls, Bits
    <3>3. QED
      BY <1>2, <1>3, <3>1, <3>2 DEF Calls, Bits
  <2>9. ~ panicked' /\ AssertionBehindFullRoot'
    BY <2>1 DEF AssertionBehindFullRoot
  <2>10. QED
    BY <1>2, <2>2, <2>3, <2>6, <2>7, <2>8, <2>9, HeapParts DEF Calls
<1>7. QED
  BY <1>5, <1>6

-----------------------------------------------------------------------------
(* The theorems                                                            *)

LEMMA InitInv == Init => IInv
<1>1. SUFFICES ASSUME Init PROVE IInv
  OBVIOUS
<1>2. allbase = <<>> /\ held = {} /\ Live = {} /\ \A b \in BlockTypes : sizebases[b] = <<>> /\ Range(sizebases[b]) = {}
  BY <1>1 DEF Init, Live, Range
<1>3. NULL \notin Pages /\ NULL \notin Pagerefs
  BY KernelHeapAssumption
<1>4. TypeOK
  <2>1. Unused \in Pageref
    <3>1. 1 \in BlockTypes /\ 0 \in 0 .. PAGE_SIZE
      BY KernelHeapAssumption DEF BlockTypes
    <3>2. QED
      BY <3>1 DEF Unused, Pageref
  <2>2. 1 \in BlockTypes /\ 0 \in 0 .. NPAGEREFS_PER_PAGE
    BY KernelHeapAssumption DEF BlockTypes
  <2>3. sizebases \in [BlockTypes -> Seq(Pagerefs)] /\ allbase \in Seq(Pagerefs)
    BY <1>1 DEF Init
  <2>4. refs \in [Pagerefs -> Pageref]
    BY <1>1, <2>1 DEF Init
  <2>5. kheaproots \in [Roots -> [page : Pages \cup {NULL}, inuse : SUBSET (1 .. NPAGEREFS_PER_PAGE), numinuse : 0 .. NPAGEREFS_PER_PAGE]]
    BY <1>1, <2>2 DEF Init
  <2>6. QED
    BY <1>1, <2>2, <2>3, <2>4, <2>5 DEF Init, TypeOK
<1>5. PagesOfBlocks /\ BlocksPlaced
  BY <1>2, FS_EmptySet DEF PagesOfBlocks, BlocksPlaced
<1>6. Lists
  BY <1>2 DEF Lists, IsInjective
<1>7. Counted
  BY <1>1, FS_EmptySet DEF Init, Counted
<1>8. ASSUME NEW p \in Pages, NEW k, NEW v PROVE In(k, v, p) <=> k = "free" /\ v = NULL
  BY <1>1, <1>2, <1>3 DEF Init, In
<1>9. OnePlace /\ SomePlace
  BY <1>8 DEF OnePlace, SomePlace
<1>10. InHand
  BY <1>1 DEF Init, InHand, HasPage, HasRef
<1>11. Bits
  BY <1>1, <1>2, <1>3 DEF Init, Bits, InUse, Pagerefs
<1>12. FullBefore
  BY <1>1 DEF Init, FullBefore
<1>13. AssertionBehindFullRoot
  BY <1>1 DEF Init, AssertionBehindFullRoot
<1>14. QED
  BY <1>4, <1>5, <1>6, <1>7, <1>9, <1>10, <1>11, <1>12, <1>13 DEF IInv, Heap, Calls

\* What a thread does next.
Step(t) ==
  \/ \E b \in BlockTypes : KmallocHit(t, b) \/ KmallocMiss(t, b)
  \/ GetPage(t) \/ GetPageFails(t)
  \/ Allocpageref(t) \/ AllocpagerefDrops(t) \/ AllocpagerefFails(t)
  \/ Allocpagerefpage(t) \/ RelockTake(t) \/ RelockLucky(t) \/ RelockRaced(t) \/ RelockFails(t)
  \/ FreeRaced(t) \/ RacedEnds(t) \/ GiveBack(t)
  \/ KmallocBig(t)
  \/ \E b \in held : Kfree(t, b) \/ KfreeLast(t, b) \/ KfreeBig(t, b)

\* No step is taken after an assertion has failed.
LEMMA NextInv == IInv /\ [Next]_vars => IInv'
<1>1. SUFFICES ASSUME IInv, [Next]_vars PROVE IInv'
  OBVIOUS
<1>2. CASE UNCHANGED vars
  <2>1. UNCHANGED <<kpages, kheaproots, refs, lists, held, pc, blktype, prpage, pr, va, leaked, panicked>>
    BY <1>2 DEF vars, lists
  <2>2. Live' = Live /\ SamePages
    BY <2>1 DEF Live, lists, SamePages
  <2>3. Heap'
    <3>1. Content' /\ CallTypes' /\ Counted'
      <4>1. Heap /\ Content /\ CallTypes
        BY <1>1, HeapContent, HeapCalls DEF IInv
      <4>2. UNCHANGED <<refs, lists, held>>
        BY <2>1
      <4>3. Content'
        BY <4>1, <4>2, SameContent
      <4>4. CallTypes'
        BY <2>1, <4>1 DEF CallTypes
      <4>5. Counted'
        BY <2>1, <4>1 DEF Heap, Counted
      <4>6. QED
        BY <4>3, <4>4, <4>5
    <3>2. ASSUME NEW p \in Pages, NEW k, NEW v, In(k, v, p)' PROVE In(k, v, p)
      BY <2>1, <2>2, <3>2 DEF In, SamePages
    <3>3. QED
      BY <1>1, <3>1, <3>2, PagesLost, HeapParts DEF IInv, Heap
  <2>4. ASSUME Calls PROVE Calls'
    <3>1. SomePlace'
      BY <1>1, <2>1, <2>2, <2>4, PagesStay DEF IInv, Heap, Calls
    <3>2. InHand' /\ Bits' /\ FullBefore'
      BY <1>1, <2>1, <2>2, <2>4, SameCalls DEF IInv, Heap, Calls
    <3>3. QED
      BY <3>1, <3>2 DEF Calls
  <2>5. AssertionBehindFullRoot'
    BY <1>1, <2>1 DEF IInv, AssertionBehindFullRoot
  <2>6. QED
    BY <1>1, <2>1, <2>3, <2>4, <2>5 DEF IInv
<1>3. CASE Next
  <2>1. PICK t \in Threads : Step(t)
    <3>1. \E t \in Threads : Step(t)
      BY <1>3, Zenon DEF Next, Step
    <3>2. QED
      BY <3>1
  <2>2. ~ panicked
    BY <2>1, Zenon DEF Step, At, KmallocHit, KmallocMiss, GetPage, GetPageFails, Allocpageref, AllocpagerefDrops, AllocpagerefFails,
                Allocpagerefpage, RelockTake, RelockLucky, RelockRaced, RelockFails, FreeRaced, RacedEnds, GiveBack,
                KmallocBig, Kfree, KfreeLast, KfreeBig
  <2>3. Heap /\ Calls
    BY <1>1, <2>2 DEF IInv
  <2>4. SUFFICES Heap' /\ (~ panicked' => Calls') /\ AssertionBehindFullRoot'
    BY DEF IInv
  <2>5. SUFFICES (Heap' /\ Calls' /\ ~ panicked') \/ (Heap' /\ (~ panicked' => Calls') /\ AssertionBehindFullRoot')
    BY DEF AssertionBehindFullRoot
  <2>6. CASE \E b \in BlockTypes : KmallocHit(t, b) \/ KmallocMiss(t, b)
    BY <2>2, <2>3, <2>6, HitStep, MissStep
  <2>7. CASE GetPage(t) \/ GetPageFails(t)
    BY <2>2, <2>3, <2>7, GetPageStep, GetPageFailsStep
  <2>8. CASE Allocpageref(t) \/ AllocpagerefDrops(t) \/ AllocpagerefFails(t)
    BY <2>2, <2>3, <2>8, AllocpagerefStep, AllocpagerefDropsStep, AllocpagerefFailsStep
  <2>9. CASE Allocpagerefpage(t) \/ RelockTake(t) \/ RelockLucky(t) \/ RelockRaced(t) \/ RelockFails(t)
    BY <2>2, <2>3, <2>9, AllocpagerefpageStep, RelockTakeStep, RelockLuckyStep, RelockRacedStep, RelockFailsStep
  <2>10. CASE FreeRaced(t) \/ RacedEnds(t) \/ GiveBack(t)
    BY <2>2, <2>3, <2>10, FreeRacedStep, RacedEndsStep, GiveBackStep
  <2>11. CASE KmallocBig(t)
    BY <2>2, <2>3, <2>11, KmallocBigStep
  <2>12. CASE \E b \in held : Kfree(t, b) \/ KfreeLast(t, b) \/ KfreeBig(t, b)
    BY <2>2, <2>3, <2>12, KfreeStep, KfreeLastStep, KfreeBigStep
  <2>13. QED
    BY <2>1, <2>6, <2>7, <2>8, <2>9, <2>10, <2>11, <2>12 DEF Step
<1>4. QED
  BY <1>1, <1>2, <1>3

\* The invariant from which the others follow.
THEOREM Invariance == Spec => []IInv
BY InitInv, NextInv, PTL DEF Spec

\* A root without a page is in freepageref's way only when it is full of pagerefs that
\* calls wait with or have lost (kmalloc.c:318).
THEOREM AssertionNeedsFullRoot == Spec => []AssertionBehindFullRoot
<1>1. IInv => AssertionBehindFullRoot
  BY DEF IInv
<1>2. QED
  BY <1>1, Invariance, PTL

\* Blocks of a page of blocks do not overlap: they are different multiples of its size.
LEMMA BlocksDisjoint ==
  ASSUME Heap, NEW b \in held, NEW c \in held, b # c, b.page = c.page
  PROVE  b.offset + b.size <= c.offset \/ c.offset + c.size <= b.offset
<1>1. b \in Block /\ c \in Block
  BY DEF Heap, TypeOK
<1>2. ASSUME NEW x \in held, NEW y \in held, x # y, x.page = y.page PROVE x.size # PAGE_SIZE
  <2>1. SUFFICES ASSUME x.size = PAGE_SIZE PROVE FALSE
    OBVIOUS
  <2>2. x.page \in Pages /\ In("big", x, x.page)
    BY <2>1 DEF Heap, TypeOK, Block, In
  <2>3. y.size # PAGE_SIZE
    BY <1>2, <2>2, OnlyIn DEF Heap
  <2>4. PICK q \in Live : refs[q].page = y.page
    BY <2>3 DEF Heap, BlocksPlaced, Placed
  <2>5. QED
    BY <1>2, <2>2, <2>4, OnlyIn DEF Heap
<1>3. b.size # PAGE_SIZE /\ c.size # PAGE_SIZE
  BY <1>2
<1>4. PICK q \in Live : refs[q].page = b.page
  BY <1>3 DEF Heap, BlocksPlaced, Placed
<1>5. PICK ref \in Pageref : ref = refs[q]
  BY LiveRefs DEF Heap
<1>6. PICK B : B = OnPage(held, b.page)
  OBVIOUS
<1>7. b \in B /\ c \in B /\ Agrees(ref, B)
  BY <1>4, <1>5, <1>6 DEF Heap, PagesOfBlocks, OnPage
<1>8. PICK s : s = Size(ref)
  OBVIOUS
<1>9. PICK n : n = NBlocks(ref)
  OBVIOUS
<1>10. b.size = s /\ c.size = s
  BY <1>7, <1>8 DEF Agrees
<1>11. s \in 1 .. PAGE_SIZE \div 2 /\ n = PAGE_SIZE \div s
  BY <1>8, <1>9, KernelHeapAssumption DEF Pageref, Size, NBlocks, BlockTypes
<1>12. b.offset \in 0 .. PAGE_SIZE - 1 /\ c.offset \in 0 .. PAGE_SIZE - 1
  BY <1>1 DEF Block
<1>13. \A o \in 0 .. PAGE_SIZE - 1 : (\E x \in B : x.offset = o) => \E k \in 0 .. n - 1 : o = k * s
  BY <1>7, <1>8, <1>9 DEF Agrees
<1>14. PICK k \in 0 .. n - 1 : b.offset = k * s
  BY <1>7, <1>12, <1>13
<1>15. PICK l \in 0 .. n - 1 : c.offset = l * s
  BY <1>7, <1>12, <1>13
<1>16. b.offset # c.offset
  BY <1>1, <1>10, SameBlock
<1>17. k # l /\ n \in Nat
  BY <1>11, <1>14, <1>15, <1>16, BlockNumbers
<1>18. k < l \/ l < k
  BY <1>17
<1>19. (k < l => k * s + s <= l * s) /\ (l < k => l * s + s <= k * s)
  BY <1>11, BlockNumbers
<1>20. QED
  BY <1>10, <1>14, <1>15, <1>18, <1>19

\* No two blocks share memory, and none is on a page that belongs to the page allocator
\* or to the heap's own structures.
THEOREM BlocksAreDisjoint == Spec => []HeldDisjoint
<1>1. ASSUME IInv PROVE HeldDisjoint
  <2>1. Heap
    BY <1>1 DEF IInv
  <2>2. ASSUME NEW b \in held PROVE b.page \notin kpages /\ \A r \in Roots : kheaproots[r].page # b.page
    <3>1. b.page \in Pages
      BY <2>1 DEF Heap, TypeOK, Block
    <3>2. CASE b.size = PAGE_SIZE
      <4>1. In("big", b, b.page)
        BY <3>2 DEF In
      <4>2. QED
        BY <2>1, <3>1, <4>1, OnlyIn DEF Heap
    <3>3. CASE b.size # PAGE_SIZE
      <4>1. PICK q \in Live : refs[q].page = b.page
        BY <2>1, <3>3 DEF Heap, BlocksPlaced, Placed
      <4>2. In("blocks", q, b.page)
        BY <4>1 DEF In
      <4>3. QED
        BY <2>1, <3>1, <4>2, OnlyIn DEF Heap
    <3>4. QED
      BY <3>2, <3>3
  <2>3. QED
    BY <2>1, <2>2, BlocksDisjoint DEF HeldDisjoint
<1>2. QED
  BY <1>1, Invariance, PTL

\* A list's elements, as a set.
LEMMA ListedRange ==
  ASSUME NEW S, NEW s \in Seq(S), NEW x
  PROVE  (Listed(s, x) <=> x \in Range(s)) /\ (x \in Range(s) => x \in S)
BY DEF Listed, Range

\* A page's freelist and the blocks of it that are held.
LEMMA FreelistsOk == ASSUME Heap PROVE FreelistsAgree
<1>1. SUFFICES ASSUME NEW q \in Live, NEW ref, ref = refs[q], NEW size, size = sizes[ref.blktype]
               PROVE  /\ ref.nfree = Len(ref.freelist)
                      /\ \A b \in BlocksOf(ref.page) : b.size = size /\ b.offset \notin Range(ref.freelist)
                      /\ Range(ref.freelist) \cup {b.offset : b \in BlocksOf(ref.page)}
                           = {k * size : k \in 0 .. PAGE_SIZE \div size - 1}
                      /\ ref.nfree + Cardinality(BlocksOf(ref.page)) = PAGE_SIZE \div size
  BY DEF FreelistsAgree
<1>2. ref \in Pageref
  BY <1>1, LiveRefs DEF Heap
<1>3. PICK B : B = BlocksOf(ref.page)
  OBVIOUS
<1>4. Agrees(ref, B) /\ B \subseteq Block
  BY <1>1, <1>3 DEF Heap, TypeOK, PagesOfBlocks, OnPage, BlocksOf
<1>5. size = Size(ref) /\ size \in 1 .. PAGE_SIZE \div 2
  BY <1>1, <1>2, KernelHeapAssumption DEF Pageref, Size, BlockTypes
<1>6. PICK n : n = PAGE_SIZE \div size
  OBVIOUS
<1>7. n = NBlocks(ref)
  BY <1>5, <1>6 DEF Size, NBlocks
<1>8. \A x : Listed(ref.freelist, x) <=> x \in Range(ref.freelist)
  BY <1>2, ListedRange DEF Pageref
<1>9. /\ \A x \in Range(ref.freelist) : x \in 0 .. PAGE_SIZE - 1
      /\ \A b \in B : b.offset \in 0 .. PAGE_SIZE - 1
      /\ \A k \in 0 .. n - 1 : k * size \in 0 .. PAGE_SIZE - 1
  <2>1. ref.freelist \in Seq(0 .. PAGE_SIZE - 1)
    BY <1>2 DEF Pageref
  <2>2. \A x \in Range(ref.freelist) : x \in 0 .. PAGE_SIZE - 1
    BY <2>1, ListedRange
  <2>3. QED
    BY <1>4, <1>5, <1>6, <2>2, BlockNumbers DEF Block
<1>10. \A o \in 0 .. PAGE_SIZE - 1 :
         (o \in Range(ref.freelist) \/ \E b \in B : b.offset = o) <=> \E k \in 0 .. n - 1 : o = k * size
  BY <1>4, <1>5, <1>7, <1>8 DEF Agrees
<1>11. Range(ref.freelist) \cup {b.offset : b \in B} = {k * size : k \in 0 .. n - 1}
  BY <1>9, <1>10
<1>12. QED
  BY <1>3, <1>4, <1>5, <1>6, <1>7, <1>8, <1>11 DEF Agrees

\* The lists, and what the bits are set for.
LEMMA ListsOk == ASSUME Heap, ~ panicked => Calls PROVE ListsAgree
<1>1. \A q \in Live : q \in Pagerefs
  BY LiveRefs DEF Heap
<1>2. ASSUME NEW b \in BlockTypes PROVE IsInjective(sizebases[b]) /\ Range(sizebases[b]) = {q \in Live : refs[q].blktype = b}
  <2>1. sizebases[b] \in Seq(Pagerefs)
    BY DEF Heap, TypeOK
  <2>2. \A x \in Range(sizebases[b]) : x \in Pagerefs
    BY <2>1 DEF Range
  <2>3. IsInjective(sizebases[b]) /\ \A q \in Pagerefs : q \in Range(sizebases[b]) <=> q \in Live /\ refs[q].blktype = b
    BY DEF Heap, Lists
  <2>4. QED
    BY <1>1, <2>2, <2>3
<1>3. ASSUME ~ panicked
      PROVE  {q \in Pagerefs : q[2] \in kheaproots[q[1]].inuse} = Live \cup leaked \cup ({pr[t] : t \in Threads} \ {NULL})
  <2>1. \A q \in Pagerefs : q[2] \in kheaproots[q[1]].inuse <=> q \in Live \/ q \in leaked \/ \E t \in Threads : pr[t] = q
    BY <1>3 DEF Calls, Bits, InUse
  <2>2. leaked \subseteq Pagerefs /\ \A t \in Threads : pr[t] \in Pagerefs \cup {NULL}
    BY HeapCalls DEF CallTypes
  <2>3. NULL \notin Pagerefs
    BY KernelHeapAssumption
  <2>4. QED
    BY <1>1, <2>1, <2>2, <2>3
<1>4. QED
  BY <1>2, <1>3 DEF ListsAgree, Heap, Lists, Counted

\* The heap's lists, freelists and bitmaps tell the same story.
THEOREM HeapIsConsistent == Spec => []HeapConsistent
<1>1. ASSUME IInv PROVE HeapConsistent
  BY <1>1, FreelistsOk, ListsOk DEF IInv, Heap, HeapConsistent
<1>2. QED
  BY <1>1, Invariance, PTL

\* Every page is in exactly one place: none is lost and none is in two hands.
THEOREM EveryPageAccounted == Spec => []PagesAccounted
<1>1. ASSUME IInv, ~ panicked, NEW p \in Pages PROVE Cardinality(PagePlaces(p)) = 1
  <2>1. OnePlace /\ SomePlace
    BY <1>1 DEF IInv, Heap, Calls
  <2>2. PICK k, v : In(k, v, p)
    BY <2>1 DEF SomePlace
  <2>3. PICK place : place = IF k = "free" THEN <<"free">> ELSE <<k, v>>
    OBVIOUS
  <2>4. /\ k # "free" => p \notin kpages
        /\ \A r \in Roots : kheaproots[r].page = p => k = "root" /\ r = v
        /\ \A q \in Live : refs[q].page = p => k = "blocks" /\ q = v
        /\ \A b \in held : b.page = p /\ b.size = PAGE_SIZE => k = "big" /\ b = v
        /\ \A t \in Threads : prpage[t] = p => k = "prpage" /\ t = v
        /\ \A t \in Threads : va[t] = p => k = "va" /\ t = v
    BY <2>1, <2>2, OnlyIn
  <2>5. ASSUME NEW x \in PagePlaces(p) PROVE x = place
    <3>1. CASE x \in {<<"free">> : y \in {p} \cap kpages}
      BY <2>3, <2>4, <3>1
    <3>2. CASE x \in {<<"root", r>> : r \in {r \in Roots : kheaproots[r].page = p}}
      BY <2>3, <2>4, <3>2
    <3>3. CASE x \in {<<"blocks", q>> : q \in {q \in Live : refs[q].page = p}}
      BY <2>3, <2>4, <3>3
    <3>4. CASE x \in {<<"big", b>> : b \in {b \in held : b.page = p /\ b.size = PAGE_SIZE}}
      BY <2>3, <2>4, <3>4
    <3>5. CASE x \in {<<"prpage", t>> : t \in {t \in Threads : prpage[t] = p}}
      BY <2>3, <2>4, <3>5
    <3>6. CASE x \in {<<"va", t>> : t \in {t \in Threads : va[t] = p}}
      BY <2>3, <2>4, <3>6
    <3>7. QED
      BY <2>5, <3>1, <3>2, <3>3, <3>4, <3>5, <3>6 DEF PagePlaces
  <2>6. place \in PagePlaces(p)
    <3>1. CASE k = "free"
      BY <2>2, <2>3, <3>1 DEF In, PagePlaces
    <3>2. CASE k = "root"
      BY <2>2, <2>3, <3>2 DEF In, PagePlaces
    <3>3. CASE k = "blocks"
      BY <2>2, <2>3, <3>3 DEF In, PagePlaces
    <3>4. CASE k = "big"
      BY <2>2, <2>3, <3>4 DEF In, PagePlaces
    <3>5. CASE k = "prpage"
      BY <2>2, <2>3, <3>5 DEF In, PagePlaces
    <3>6. CASE k = "va"
      BY <2>2, <2>3, <3>6 DEF In, PagePlaces
    <3>7. QED
      BY <2>2, <3>1, <3>2, <3>3, <3>4, <3>5, <3>6 DEF In
  <2>7. PagePlaces(p) = {place}
    BY <2>5, <2>6
  <2>8. QED
    BY <2>7, FS_Singleton
<1>2. IInv => PagesAccounted
  BY <1>1 DEF PagesAccounted
<1>3. QED
  BY <1>2, Invariance, PTL

=============================================================================
