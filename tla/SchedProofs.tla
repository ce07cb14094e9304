----------------------------- MODULE SchedProofs -----------------------------
(***************************************************************************)
(* Proofs about Sched, for any number of cpus and any finite set of        *)
(* threads.                                                                *)
(***************************************************************************)
EXTENDS Sched, FiniteSetTheorems, TLAPS

\* The threads on a list, and that it holds none of them twice.
Elems(q) == {q[i] : i \in 1 .. Len(q)}
NoRepeats(q) == \A i, j \in 1 .. Len(q) : q[i] = q[j] => i = j

Migration == [i : Nat \ {0}, total : Nat, mine : Nat, share : Nat, to_send : Nat,
              victims : Seq(Threads)]

\* TypeOK with all that thread_consider_migration works on; the bound on to_send
\* follows from the rest.
Types ==
  /\ rq \in [CPUs -> Seq(Threads)]
  /\ rqlock \in [CPUs -> CPUs \cup {Free}]
  /\ isidle \in [CPUs -> BOOLEAN]
  /\ cur \in [CPUs -> Threads]
  /\ ipi \in [CPUs -> BOOLEAN]
  /\ zombies \in [CPUs -> SUBSET Threads]
  /\ tstate \in [Threads -> {"none", "S_RUN", "S_READY", "S_SLEEP", "S_ZOMBIE"}]
  /\ tcpu \in [Threads -> CPUs]
  /\ wchan \in Seq(Threads)
  /\ chanlock \in CPUs \cup {Free}
  /\ cpc \in [CPUs -> {"run", "switch", "pick", "switched", "idle", "unidle", "wake",
                       "count", "take", "next", "push"}]
  /\ want \in [CPUs -> {"S_READY", "S_SLEEP", "S_ZOMBIE"}]
  /\ hand \in [CPUs -> Seq(Threads)]
  /\ mg \in [CPUs -> Migration]

\* What the label of a cpu says of its locals.
LabelOf(c) ==
  /\ cpc[c] \in {"run", "switch", "switched"} => ~ isidle[c]
  /\ cpc[c] \in {"pick", "idle", "unidle"} => isidle[c]
  /\ cpc[c] # "wake" => hand[c] = <<>>
  /\ cpc[c] \notin {"next", "push"} => mg[c].victims = <<>>
  /\ cpc[c] = "push" => mg[c].i \in CPUs

Labels == \A c \in CPUs : LabelOf(c)

\* What the migration has counted is there: in the own run queue until the
\* victims are taken, among the victims afterwards.
SurplusOf(c) ==
  /\ cpc[c] = "count" => mg[c].mine <= Len(rq[c])
  /\ cpc[c] = "take" => mg[c].to_send <= Len(rq[c])
  /\ cpc[c] \in {"next", "push"} => mg[c].to_send <= Len(mg[c].victims)
  /\ cpc[c] \notin {"count", "take", "next", "push"} => mg[c] = NoMigration
  /\ cpc[c] # "count" => mg[c].mine = 0
  /\ cpc[c] \notin {"take", "next", "push"} => mg[c].to_send = 0

Surplus == \A c \in CPUs : SurplusOf(c)

\* No list holds a thread twice.
Lists ==
  /\ \A c \in CPUs : NoRepeats(rq[c]) /\ NoRepeats(hand[c]) /\ NoRepeats(mg[c].victims)
  /\ NoRepeats(wchan)

\* A cpu is on the stack of a thread of its own, and only a cpu that does not
\* idle runs it.
Running ==
  /\ \A c \in CPUs : tcpu[cur[c]] = c /\ tstate[cur[c]] # "none"
  /\ \A c \in CPUs : ~ isidle[c] => tstate[cur[c]] = "S_RUN"
  /\ \A t \in Threads : tstate[t] = "S_RUN" => cur[tcpu[t]] = t /\ ~ isidle[tcpu[t]]

\* A dead thread waits to be exorcised by the cpu it ran on, and only there.
Dead(t) ==
  /\ \A c \in CPUs : t \in zombies[c] => tstate[t] = "S_ZOMBIE" /\ tcpu[t] = c
  /\ tstate[t] = "S_ZOMBIE" => t \in zombies[tcpu[t]]

\* What is queued to run, or migrated, is ready and of the cpu that has it.
Queued(t) == \A c \in CPUs :
  /\ t \in Elems(rq[c]) => tstate[t] = "S_READY" /\ tcpu[t] = c
  /\ t \in Elems(mg[c].victims) =>
       tstate[t] = "S_READY" /\ tcpu[t] = c /\ t \notin Elems(rq[c])

\* What is on its way to a run queue is on none, and on its way once.
Woken(t) == \A c \in CPUs : t \in Elems(hand[c]) =>
  /\ tstate[t] \in {"S_READY", "S_SLEEP"}
  /\ t \notin Elems(wchan)
  /\ \A d \in CPUs : /\ t \notin Elems(rq[d])
                     /\ t \notin Elems(mg[d].victims)
                     /\ d # c => t \notin Elems(hand[d])

\* A sleeping thread is on the channel or being woken, a ready one is queued,
\* migrated or about to be queued.
Found(t) ==
  /\ t \in Elems(wchan) => tstate[t] = "S_SLEEP"
  /\ tstate[t] = "S_SLEEP" => t \in Elems(wchan) \/ \E c \in CPUs : t \in Elems(hand[c])
  /\ tstate[t] = "S_READY" =>
       \/ t \in Elems(rq[tcpu[t]])
       \/ t \in Elems(mg[tcpu[t]].victims)
       \/ \E c \in CPUs : t \in Elems(hand[c])

PlaceOf(t) == Dead(t) /\ Queued(t) /\ Woken(t) /\ Found(t)

Placing == Lists /\ Running /\ \A t \in Threads : PlaceOf(t)

IInv == Types /\ Labels /\ Surplus /\ Placing /\ NoLostIPI

-----------------------------------------------------------------------------
(* Lists of threads.                                                       *)

LEMMA EmptyList == Elems(<<>>) = {} /\ NoRepeats(<<>>)
BY DEF Elems, NoRepeats

\* What is left of a queue without repetitions after its head is removed.
LEMMA QueueTail ==
  ASSUME NEW S, NEW q \in Seq(S), q # <<>>,
         \A i, j \in 1 .. Len(q) : q[i] = q[j] => i = j
  PROVE  /\ Head(q) \in S
         /\ Tail(q) \in Seq(S)
         /\ Len(Tail(q)) = Len(q) - 1
         /\ Head(q) = q[1]
         /\ \A x : (\E i \in 1 .. Len(Tail(q)) : Tail(q)[i] = x)
                     <=> (x # Head(q) /\ \E i \in 1 .. Len(q) : q[i] = x)
         /\ \A i, j \in 1 .. Len(Tail(q)) : Tail(q)[i] = Tail(q)[j] => i = j
<1> DEFINE r == Tail(q)
           n == Len(q) - 1
<1>1. /\ r \in Seq(S) /\ n \in Nat /\ Len(r) = n /\ Len(q) = n + 1 /\ Head(q) = q[1] /\ q[1] \in S
      /\ \A i \in 1 .. n : r[i] = q[i + 1]
  OBVIOUS
<1> HIDE DEF r, n
<1>2. \A i \in 1 .. n : i + 1 \in 1 .. n + 1 /\ i + 1 # 1
  BY <1>1
<1>3. \A k \in 1 .. n + 1 : k # 1 => k - 1 \in 1 .. n /\ (k - 1) + 1 = k
  BY <1>1
<1>4. 1 \in 1 .. n + 1 /\ \A i, j \in 1 .. n : i + 1 = j + 1 => i = j
  BY <1>1
<1>5. \A x : (\E i \in 1 .. n : r[i] = x) <=> (x # Head(q) /\ \E i \in 1 .. Len(q) : q[i] = x)
  <2>1. ASSUME NEW i \in 1 .. n
        PROVE  i + 1 \in 1 .. Len(q) /\ q[i + 1] = r[i] /\ q[i + 1] # Head(q)
    BY <1>1, <1>2
  <2>2. ASSUME NEW k \in 1 .. Len(q), q[k] # Head(q)
        PROVE  k - 1 \in 1 .. n /\ r[k - 1] = q[k]
    BY <1>1, <1>3, <2>2
  <2>3. QED
    BY <2>1, <2>2
<1>6. \A i, j \in 1 .. n : r[i] = r[j] => i = j
  BY <1>1, <1>2, <1>4
<1>7. QED
  BY <1>1, <1>5, <1>6 DEF r, n

\* A thread that was not on a queue without repetitions can join it.
LEMMA QueueAppend ==
  ASSUME NEW S, NEW q \in Seq(S), NEW t \in S,
         ~ \E i \in 1 .. Len(q) : q[i] = t,
         \A i, j \in 1 .. Len(q) : q[i] = q[j] => i = j
  PROVE  /\ Append(q, t) \in Seq(S)
         /\ Append(q, t) # <<>>
         /\ \A x : (\E i \in 1 .. Len(Append(q, t)) : Append(q, t)[i] = x)
                     <=> (x = t \/ \E i \in 1 .. Len(q) : q[i] = x)
         /\ \A i, j \in 1 .. Len(Append(q, t)) :
              Append(q, t)[i] = Append(q, t)[j] => i = j
<1> DEFINE r == Append(q, t)
           n == Len(q)
<1>1. /\ r \in Seq(S) /\ n \in Nat /\ Len(r) = n + 1 /\ r[n + 1] = t
      /\ \A i \in 1 .. n : r[i] = q[i]
  OBVIOUS
<1> HIDE DEF r, n
<1>2. n + 1 \in 1 .. n + 1 /\ \A i \in 1 .. n + 1 : i = n + 1 \/ i \in 1 .. n
  BY <1>1
<1>3. \A i \in 1 .. n : i \in 1 .. n + 1
  BY <1>1
<1>4. \A x : (\E i \in 1 .. n + 1 : r[i] = x) <=> (x = t \/ \E i \in 1 .. Len(q) : q[i] = x)
  BY <1>1, <1>2, <1>3 DEF n
<1>5. \A i, j \in 1 .. n + 1 : r[i] = r[j] => i = j
  BY <1>1, <1>2 DEF n
<1>6. r # <<>>
  BY <1>1
<1>7. QED
  BY <1>1, <1>4, <1>5, <1>6 DEF r, n

\* The head of a list leaves it.
LEMMA HeadLeaves ==
  ASSUME NEW q \in Seq(Threads), q # <<>>, NoRepeats(q)
  PROVE  /\ Head(q) \in Threads
         /\ Head(q) \in Elems(q)
         /\ Tail(q) \in Seq(Threads)
         /\ Len(Tail(q)) = Len(q) - 1
         /\ Elems(Tail(q)) = Elems(q) \ {Head(q)}
         /\ NoRepeats(Tail(q))
<1>1. \A i, j \in 1 .. Len(q) : q[i] = q[j] => i = j
  BY DEF NoRepeats
<1>2. /\ Head(q) \in Threads
      /\ Tail(q) \in Seq(Threads)
      /\ Len(Tail(q)) = Len(q) - 1
      /\ Head(q) = q[1]
      /\ \A x : (\E i \in 1 .. Len(Tail(q)) : Tail(q)[i] = x)
                  <=> (x # Head(q) /\ \E i \in 1 .. Len(q) : q[i] = x)
      /\ \A i, j \in 1 .. Len(Tail(q)) : Tail(q)[i] = Tail(q)[j] => i = j
  BY <1>1, QueueTail
<1>3. 1 \in 1 .. Len(q)
  OBVIOUS
<1>4. QED
  BY <1>2, <1>3 DEF Elems, NoRepeats

\* A thread that is not on a list joins it.
LEMMA TailJoins ==
  ASSUME NEW q \in Seq(Threads), NEW t \in Threads, t \notin Elems(q), NoRepeats(q)
  PROVE  /\ Append(q, t) \in Seq(Threads)
         /\ Append(q, t) # <<>>
         /\ Len(Append(q, t)) = Len(q) + 1
         /\ Elems(Append(q, t)) = Elems(q) \cup {t}
         /\ NoRepeats(Append(q, t))
<1>1. \A i, j \in 1 .. Len(q) : q[i] = q[j] => i = j
  BY DEF NoRepeats
<1>2. ~ \E i \in 1 .. Len(q) : q[i] = t
  BY DEF Elems
<1>3. /\ Append(q, t) \in Seq(Threads)
      /\ Append(q, t) # <<>>
      /\ \A x : (\E i \in 1 .. Len(Append(q, t)) : Append(q, t)[i] = x)
                  <=> (x = t \/ \E i \in 1 .. Len(q) : q[i] = x)
      /\ \A i, j \in 1 .. Len(Append(q, t)) :
           Append(q, t)[i] = Append(q, t)[j] => i = j
  BY <1>1, <1>2, QueueAppend
<1>4. Len(Append(q, t)) = Len(q) + 1
  OBVIOUS
<1>5. QED
  BY <1>3, <1>4 DEF Elems, NoRepeats

\* A list is cut in two.
LEMMA ListCut ==
  ASSUME NEW q \in Seq(Threads), NEW n \in 0 .. Len(q), NoRepeats(q)
  PROVE  /\ SubSeq(q, 1, n) \in Seq(Threads)
         /\ SubSeq(q, n + 1, Len(q)) \in Seq(Threads)
         /\ Len(SubSeq(q, 1, n)) = n
         /\ Len(SubSeq(q, n + 1, Len(q))) = Len(q) - n
         /\ NoRepeats(SubSeq(q, 1, n))
         /\ NoRepeats(SubSeq(q, n + 1, Len(q)))
         /\ Elems(SubSeq(q, 1, n)) \cap Elems(SubSeq(q, n + 1, Len(q))) = {}
         /\ Elems(q) = Elems(SubSeq(q, 1, n)) \cup Elems(SubSeq(q, n + 1, Len(q)))
<1> DEFINE front == SubSeq(q, 1, n)
           back == SubSeq(q, n + 1, Len(q))
<1>1. Len(q) \in Nat /\ n \in Nat /\ n <= Len(q)
  OBVIOUS
<1>2. front \in Seq(Threads) /\ Len(front) = n /\ \A i \in 1 .. n : front[i] = q[i]
  BY <1>1
<1>3. /\ back \in Seq(Threads)
      /\ Len(back) = Len(q) - n
      /\ \A i \in 1 .. Len(q) - n : back[i] = q[n + i]
  BY <1>1
<1> HIDE DEF front, back
<1>4. NoRepeats(front)
  <2>1. \A i \in 1 .. n : i \in 1 .. Len(q)
    BY <1>1
  <2>2. QED
    BY <1>2, <2>1 DEF NoRepeats
<1>5. NoRepeats(back)
  <2>1. ASSUME NEW i \in 1 .. Len(q) - n, NEW j \in 1 .. Len(q) - n, back[i] = back[j]
        PROVE  i = j
    <3>1. n + i \in 1 .. Len(q) /\ n + j \in 1 .. Len(q)
      BY <1>1
    <3>2. q[n + i] = q[n + j]
      BY <1>3, <2>1
    <3>3. n + i = n + j
      BY <3>1, <3>2 DEF NoRepeats
    <3>4. QED
      BY <1>1, <3>3
  <2>2. QED
    BY <1>3, <2>1 DEF NoRepeats
<1>6. ASSUME NEW i \in 1 .. n, NEW j \in 1 .. Len(q) - n, front[i] = back[j]
      PROVE  FALSE
  <2>1. i \in 1 .. Len(q) /\ n + j \in 1 .. Len(q) /\ i # n + j
    BY <1>1
  <2>2. q[i] = q[n + j]
    BY <1>2, <1>3, <1>6
  <2>3. QED
    BY <2>1, <2>2 DEF NoRepeats
<1>7. Elems(front) \cap Elems(back) = {}
  BY <1>2, <1>3, <1>6 DEF Elems
<1>8. ASSUME NEW i \in 1 .. Len(q)
      PROVE  q[i] \in Elems(front) \cup Elems(back)
  <2>1. CASE i <= n
    <3>1. i \in 1 .. n /\ front[i] = q[i]
      BY <1>1, <1>2, <2>1
    <3>2. QED
      BY <1>2, <3>1 DEF Elems
  <2>2. CASE ~ (i <= n)
    <3>1. i - n \in 1 .. Len(q) - n /\ n + (i - n) = i
      BY <1>1, <2>2
    <3>2. back[i - n] = q[i]
      BY <1>3, <3>1
    <3>3. QED
      BY <1>3, <3>1, <3>2 DEF Elems
  <2>3. QED
    BY <2>1, <2>2
<1>9. ASSUME NEW i \in 1 .. n
      PROVE  front[i] \in Elems(q)
  <2>1. i \in 1 .. Len(q) /\ front[i] = q[i]
    BY <1>1, <1>2
  <2>2. QED
    BY <2>1 DEF Elems
<1>10. ASSUME NEW i \in 1 .. Len(q) - n
       PROVE  back[i] \in Elems(q)
  <2>1. n + i \in 1 .. Len(q) /\ back[i] = q[n + i]
    BY <1>1, <1>3
  <2>2. QED
    BY <2>1 DEF Elems
<1>11. Elems(q) = Elems(front) \cup Elems(back)
  <2>1. Elems(q) \subseteq Elems(front) \cup Elems(back)
    BY <1>8 DEF Elems
  <2>2. Elems(front) \subseteq Elems(q)
    BY <1>2, <1>9 DEF Elems
  <2>3. Elems(back) \subseteq Elems(q)
    BY <1>3, <1>10 DEF Elems
  <2>4. QED
    BY <2>1, <2>2, <2>3
<1>12. QED
  BY <1>2, <1>3, <1>4, <1>5, <1>7, <1>11 DEF front, back

\* Two lists that share no thread are put together.
LEMMA ListsJoin ==
  ASSUME NEW p \in Seq(Threads), NEW q \in Seq(Threads), NoRepeats(p), NoRepeats(q),
         Elems(p) \cap Elems(q) = {}
  PROVE  /\ p \o q \in Seq(Threads)
         /\ Len(p \o q) = Len(p) + Len(q)
         /\ NoRepeats(p \o q)
         /\ Elems(p \o q) = Elems(p) \cup Elems(q)
<1> DEFINE r == p \o q
<1>1. Len(p) \in Nat /\ Len(q) \in Nat
  OBVIOUS
<1>2. /\ r \in Seq(Threads)
      /\ Len(r) = Len(p) + Len(q)
      /\ \A i \in 1 .. Len(p) : r[i] = p[i]
      /\ \A i \in 1 .. Len(q) : r[Len(p) + i] = q[i]
  OBVIOUS
<1> HIDE DEF r
<1>3. ASSUME NEW i \in 1 .. Len(r)
      PROVE  \/ i \in 1 .. Len(p) /\ r[i] = p[i] /\ r[i] \in Elems(p)
             \/ /\ i - Len(p) \in 1 .. Len(q)
                /\ r[i] = q[i - Len(p)]
                /\ r[i] \in Elems(q)
  <2>1. CASE i <= Len(p)
    <3>1. i \in 1 .. Len(p) /\ r[i] = p[i]
      BY <1>1, <1>2, <2>1
    <3>2. QED
      BY <3>1 DEF Elems
  <2>2. CASE ~ (i <= Len(p))
    <3>1. i - Len(p) \in 1 .. Len(q) /\ Len(p) + (i - Len(p)) = i
      BY <1>1, <1>2, <2>2
    <3>2. r[i] = q[i - Len(p)]
      BY <1>2, <3>1
    <3>3. QED
      BY <3>1, <3>2 DEF Elems
  <2>3. QED
    BY <2>1, <2>2
<1>4. ASSUME NEW i \in 1 .. Len(r), NEW j \in 1 .. Len(r), r[i] = r[j]
      PROVE  i = j
  <2>1. CASE r[i] \in Elems(p)
    <3>1. i \in 1 .. Len(p) /\ j \in 1 .. Len(p) /\ p[i] = p[j]
      BY <1>3, <1>4, <2>1
    <3>2. QED
      BY <3>1 DEF NoRepeats
  <2>2. CASE r[i] \notin Elems(p)
    <3>1. /\ i - Len(p) \in 1 .. Len(q)
          /\ j - Len(p) \in 1 .. Len(q)
          /\ q[i - Len(p)] = q[j - Len(p)]
      BY <1>3, <1>4, <2>2
    <3>2. i - Len(p) = j - Len(p)
      BY <3>1 DEF NoRepeats
    <3>3. QED
      BY <1>1, <1>2, <3>2
  <2>3. QED
    BY <2>1, <2>2
<1>5. Elems(r) = Elems(p) \cup Elems(q)
  <2>1. Elems(r) \subseteq Elems(p) \cup Elems(q)
    BY <1>3 DEF Elems
  <2>2. ASSUME NEW i \in 1 .. Len(p)
        PROVE  p[i] \in Elems(r)
    <3>1. i \in 1 .. Len(r) /\ r[i] = p[i]
      BY <1>1, <1>2
    <3>2. QED
      BY <3>1 DEF Elems
  <2>3. ASSUME NEW i \in 1 .. Len(q)
        PROVE  q[i] \in Elems(r)
    <3>1. Len(p) + i \in 1 .. Len(r) /\ r[Len(p) + i] = q[i]
      BY <1>1, <1>2
    <3>2. QED
      BY <3>1 DEF Elems
  <2>4. QED
    BY <2>1, <2>2, <2>3 DEF Elems
<1>6. QED
  BY <1>2, <1>4, <1>5 DEF r, NoRepeats

-----------------------------------------------------------------------------
(* The start.                                                              *)

LEMMA NoMigrationTyped == NoMigration \in Migration /\ NoMigration.victims = <<>>
<1>1. <<>> \in Seq(Threads)
  OBVIOUS
<1>2. QED
  BY <1>1 DEF NoMigration, Migration

LEMMA BootCPU ==
  ASSUME NEW c \in CPUs
  PROVE  (CHOOSE d \in CPUs : Boot[d] = Boot[c]) = c
<1>1. \A d \in CPUs : Boot[d] = Boot[c] => d = c
  BY SchedAssumption
<1>2. QED
  BY <1>1

LEMMA InitInv == Init => IInv
<1> SUFFICES ASSUME Init PROVE IInv
  OBVIOUS
<1>1. <<>> \in Seq(Threads) /\ Elems(<<>>) = {} /\ NoRepeats(<<>>)
  BY EmptyList
<1>2. \A c \in CPUs : Boot[c] \in Threads
  BY SchedAssumption
<1>3. ASSUME NEW t \in Threads, \E c \in CPUs : Boot[c] = t
      PROVE  tcpu[t] \in CPUs /\ Boot[tcpu[t]] = t /\ tstate[t] = "S_RUN"
  <2>1. PICK c \in CPUs : Boot[c] = t
    BY <1>3
  <2>2. (CHOOSE d \in CPUs : Boot[d] = t) = c
    BY <2>1, BootCPU
  <2>3. tcpu[t] = c
    BY <2>1, <2>2 DEF Init
  <2>4. QED
    BY <2>1, <2>3 DEF Init
<1>4. ASSUME NEW t \in Threads, ~ \E c \in CPUs : Boot[c] = t
      PROVE  tcpu[t] = 1 /\ tstate[t] = "none"
  BY <1>4 DEF Init
<1>5. 1 \in CPUs
  BY SchedAssumption DEF CPUs
<1>6. tcpu \in [Threads -> CPUs]
  <2>1. \A t \in Threads : tcpu[t] \in CPUs
    BY <1>3, <1>4, <1>5
  <2>2. tcpu = [t \in Threads |-> tcpu[t]]
    BY DEF Init
  <2>3. QED
    BY <2>1, <2>2
<1>7. Types
  <2>1. tstate \in [Threads -> {"none", "S_RUN", "S_READY", "S_SLEEP", "S_ZOMBIE"}]
    BY DEF Init
  <2>2. mg \in [CPUs -> Migration]
    BY NoMigrationTyped DEF Init
  <2>3. cur \in [CPUs -> Threads]
    BY SchedAssumption DEF Init
  <2>4. QED
    BY <1>1, <1>6, <2>1, <2>2, <2>3 DEF Init, Types
<1>8. Labels
  BY NoMigrationTyped DEF Init, Labels, LabelOf
<1>9. Surplus
  BY DEF Init, Surplus, SurplusOf, NoMigration
<1>10. Lists
  BY <1>1, NoMigrationTyped DEF Init, Lists
<1>11. \A c \in CPUs : tcpu[Boot[c]] = c /\ tstate[Boot[c]] = "S_RUN"
  <2>1. TAKE c \in CPUs
  <2>2. Boot[tcpu[Boot[c]]] = Boot[c] /\ tstate[Boot[c]] = "S_RUN" /\ tcpu[Boot[c]] \in CPUs
    BY <1>2, <1>3
  <2>3. QED
    BY <2>2, SchedAssumption
<1>12. Running
  <2>1. \A t \in Threads : tstate[t] = "S_RUN" => \E c \in CPUs : Boot[c] = t
    BY <1>4
  <2>2. QED
    BY <1>3, <1>11, <2>1 DEF Init, Running
<1>13. \A t \in Threads : tstate[t] \in {"none", "S_RUN"}
  BY <1>3, <1>4
<1>14. \A t \in Threads : PlaceOf(t)
  BY <1>1, <1>13, NoMigrationTyped DEF Init, PlaceOf, Dead, Queued, Woken, Found
<1>15. NoLostIPI
  BY DEF Init, NoLostIPI
<1>16. QED
  BY <1>7, <1>8, <1>9, <1>10, <1>12, <1>14, <1>15 DEF IInv, Placing

-----------------------------------------------------------------------------
(* Steps that move no thread.                                              *)

\* A thread keeps its place, its cpu and its state.
Keeps(t) ==
  /\ tstate'[t] = tstate[t]
  /\ tcpu'[t] = tcpu[t]
  /\ t \in Elems(wchan') <=> t \in Elems(wchan)
  /\ \A d \in CPUs : /\ t \in Elems(rq'[d]) <=> t \in Elems(rq[d])
                     /\ t \in Elems(hand'[d]) <=> t \in Elems(hand[d])
                     /\ t \in Elems(mg'[d].victims) <=> t \in Elems(mg[d].victims)
                     /\ t \in zombies'[d] <=> t \in zombies[d]

LEMMA KeepsPlace ==
  ASSUME Types, NEW t \in Threads, PlaceOf(t), Keeps(t)
  PROVE  PlaceOf(t)'
<1>1. tcpu[t] \in CPUs
  BY DEF Types
<1>2. Dead(t)'
  BY <1>1 DEF PlaceOf, Dead, Keeps
<1>3. Queued(t)'
  BY DEF PlaceOf, Queued, Keeps
<1>4. Woken(t)'
  BY DEF PlaceOf, Woken, Keeps
<1>5. Found(t)'
  BY <1>1 DEF PlaceOf, Found, Keeps
<1>6. QED
  BY <1>2, <1>3, <1>4, <1>5 DEF PlaceOf

\* No thread changes its place, its cpu or its state.
Still ==
  /\ UNCHANGED <<rq, isidle, cur, zombies, tstate, tcpu, wchan, hand>>
  /\ \A c \in CPUs : mg'[c].victims = mg[c].victims

LEMMA StillPlacing ==
  ASSUME Types, Placing, Still
  PROVE  Placing'
<1>1. Lists'
  BY DEF Placing, Still, Lists
<1>2. Running'
  BY DEF Placing, Still, Running
<1>3. \A t \in Threads : Keeps(t)
  BY DEF Still, Keeps
<1>4. \A t \in Threads : PlaceOf(t)'
  BY <1>3, KeepsPlace DEF Placing
<1>5. QED
  BY <1>1, <1>2, <1>4 DEF Placing

\* A cpu that migrates nothing goes from one label to another.
LEMMA MoveInv ==
  ASSUME IInv, NEW c \in CPUs,
         NEW l \in {"run", "switch", "pick", "idle", "unidle", "count"},
         Types', Goto(c, l),
         cpc[c] \in {"run", "switch", "pick", "idle", "unidle", "wake"},
         cpc[c] = "wake" => hand[c] = <<>>,
         l \in {"run", "switch"} => ~ isidle[c],
         l \in {"pick", "idle", "unidle"} => isidle[c],
         l = "idle" => rq[c] = <<>>,
         \A d \in CPUs \ {c} : ipi'[d] = ipi[d],
         UNCHANGED <<rq, isidle, cur, zombies, tstate, tcpu, wchan, hand, mg>>
  PROVE  IInv'
<1>1. /\ cpc'[c] = l
      /\ \A d \in CPUs : d # c => cpc'[d] = cpc[d]
  BY DEF IInv, Types, Goto
<1>2. Labels'
  BY <1>1 DEF IInv, Labels, LabelOf
<1>3. Surplus'
  <2>1. mg[c] = NoMigration
    BY DEF IInv, Surplus, SurplusOf
  <2>2. NoMigration.mine = 0 /\ NoMigration.to_send = 0
    BY DEF NoMigration
  <2>3. Len(rq[c]) \in Nat
    BY DEF IInv, Types
  <2>4. QED
    BY <1>1, <2>1, <2>2, <2>3 DEF IInv, Surplus, SurplusOf
<1>4. NoLostIPI'
  BY <1>1 DEF IInv, NoLostIPI
<1>5. Still
  BY DEF Still
<1>6. Placing'
  BY <1>5, StillPlacing DEF IInv
<1>7. QED
  BY <1>2, <1>3, <1>4, <1>6 DEF IInv

LEMMA ExitInv ==
  ASSUME IInv, NEW c \in CPUs, Exit(c)
  PROVE  IInv'
<1>1. Types'
  BY DEF IInv, Types, Exit, Goto
<1>2. ~ isidle[c]
  BY DEF IInv, Labels, LabelOf, Exit
<1>3. QED
  BY <1>1, <1>2, MoveInv DEF Exit

LEMMA SleepInv ==
  ASSUME IInv, NEW c \in CPUs, Sleep(c)
  PROVE  IInv'
<1>1. Types'
  BY DEF IInv, Types, Sleep, Goto
<1>2. ~ isidle[c]
  BY DEF IInv, Labels, LabelOf, Sleep
<1>3. QED
  BY <1>1, <1>2, MoveInv DEF Sleep

LEMMA SwitchNotInv ==
  ASSUME IInv, NEW c \in CPUs, SwitchNot(c)
  PROVE  IInv'
<1>1. Types'
  BY DEF IInv, Types, SwitchNot, Goto
<1>2. ~ isidle[c]
  BY DEF IInv, Labels, LabelOf, SwitchNot
<1>3. QED
  BY <1>1, <1>2, MoveInv DEF SwitchNot

LEMMA GoIdleInv ==
  ASSUME IInv, NEW c \in CPUs, GoIdle(c)
  PROVE  IInv'
<1>1. Types'
  BY DEF IInv, Types, GoIdle, Goto
<1>2. isidle[c]
  BY DEF IInv, Labels, LabelOf, GoIdle
<1>3. QED
  BY <1>1, <1>2, MoveInv DEF GoIdle

LEMMA UnidleInv ==
  ASSUME IInv, NEW c \in CPUs, Unidle(c)
  PROVE  IInv'
<1>1. Types'
  BY DEF IInv, Types, Unidle, Goto
<1>2. isidle[c]
  BY DEF IInv, Labels, LabelOf, Unidle
<1>3. QED
  BY <1>1, <1>2, MoveInv DEF Unidle

\* A handler returns to the thread it interrupted, or to the idle loop.
LEMMA Returns ==
  ASSUME Types, NEW c \in CPUs
  PROVE  /\ After(c) \in {"run", "unidle"}
         /\ AfterTick(c) \in {"switch", "unidle"}
         /\ After(c) = "run" => ~ isidle[c]
         /\ AfterTick(c) = "switch" => ~ isidle[c]
         /\ After(c) = "unidle" => isidle[c]
         /\ AfterTick(c) = "unidle" => isidle[c]
BY DEF Types, After, AfterTick

LEMMA WakeDoneInv ==
  ASSUME IInv, NEW c \in CPUs, WakeDone(c)
  PROVE  IInv'
<1>1. After(c) \in {"run", "unidle"} /\ (After(c) = "run" => ~ isidle[c])
      /\ (After(c) = "unidle" => isidle[c])
  BY Returns DEF IInv
<1>2. Types'
  BY <1>1 DEF IInv, Types, WakeDone, Goto
<1>3. QED
  BY <1>1, <1>2, MoveInv DEF WakeDone

LEMMA TakeIPIInv ==
  ASSUME IInv, NEW c \in CPUs, TakeIPI(c)
  PROVE  IInv'
<1>1. After(c) \in {"run", "unidle"} /\ (After(c) = "run" => ~ isidle[c])
      /\ (After(c) = "unidle" => isidle[c])
  BY Returns DEF IInv
<1>2. Types'
  BY <1>1 DEF IInv, Types, TakeIPI, Goto
<1>3. \A d \in CPUs \ {c} : ipi'[d] = ipi[d]
  BY DEF IInv, Types, TakeIPI
<1>4. QED
  BY <1>1, <1>2, <1>3, MoveInv DEF TakeIPI, Interruptible

LEMMA TickInv ==
  ASSUME IInv, NEW c \in CPUs, Tick(c)
  PROVE  IInv'
<1>1. AfterTick(c) \in {"switch", "unidle"} /\ (AfterTick(c) = "switch" => ~ isidle[c])
      /\ (AfterTick(c) = "unidle" => isidle[c])
  BY Returns DEF IInv
<1>2. Types'
  BY <1>1 DEF IInv, Types, Tick, Goto
<1>3. QED
  BY <1>1, <1>2, MoveInv DEF Tick, Interruptible

LEMMA MigrateTickInv ==
  ASSUME IInv, NEW c \in CPUs, MigrateTick(c)
  PROVE  IInv'
<1>1. Types'
  BY DEF IInv, Types, MigrateTick, Goto
<1>2. QED
  BY <1>1, MoveInv DEF MigrateTick, Interruptible

\* A cpu that migrates goes on without touching a list.
LEMMA MigrateMoveInv ==
  ASSUME IInv, NEW c \in CPUs, Types', LabelOf(c)', SurplusOf(c)',
         cpc'[c] # "idle",
         \A d \in CPUs : d # c => cpc'[d] = cpc[d] /\ mg'[d] = mg[d],
         mg'[c].victims = mg[c].victims,
         UNCHANGED <<rq, isidle, cur, ipi, zombies, tstate, tcpu, wchan, hand>>
  PROVE  IInv'
<1>1. Labels'
  BY DEF IInv, Labels, LabelOf
<1>2. Surplus'
  BY DEF IInv, Surplus, SurplusOf
<1>3. NoLostIPI'
  BY DEF IInv, NoLostIPI
<1>4. Still
  BY DEF Still
<1>5. Placing'
  BY <1>4, StillPlacing DEF IInv
<1>6. QED
  BY <1>1, <1>2, <1>3, <1>5 DEF IInv

\* The locals of one migration change.
LEMMA LocalsChange ==
  ASSUME Types, NEW c \in CPUs, NEW m \in Migration, mg' = [mg EXCEPT ![c] = m]
  PROVE  /\ mg' \in [CPUs -> Migration]
         /\ mg'[c] = m
         /\ \A d \in CPUs : d # c => mg'[d] = mg[d]
BY DEF Types

LEMMA LocalsTyped ==
  ASSUME Types, NEW c \in CPUs
  PROVE  /\ mg[c] \in Migration
         /\ mg[c].i \in Nat \ {0}
         /\ mg[c].total \in Nat
         /\ mg[c].mine \in Nat
         /\ mg[c].share \in Nat
         /\ mg[c].to_send \in Nat
         /\ mg[c].victims \in Seq(Threads)
         /\ Len(mg[c].victims) \in Nat
         /\ mg[c].i <= NCPU => mg[c].i \in CPUs
<1>1. mg[c] \in Migration
  BY DEF Types
<1>2. /\ mg[c].i \in Nat \ {0}
      /\ mg[c].total \in Nat
      /\ mg[c].mine \in Nat
      /\ mg[c].share \in Nat
      /\ mg[c].to_send \in Nat
      /\ mg[c].victims \in Seq(Threads)
  BY <1>1 DEF Migration
<1>3. Len(mg[c].victims) \in Nat
  BY <1>2
<1>4. mg[c].i <= NCPU => mg[c].i \in 1 .. NCPU
  BY <1>2, SchedAssumption
<1>5. QED
  BY <1>1, <1>2, <1>3, <1>4 DEF CPUs

LEMMA CountInv ==
  ASSUME IInv, NEW c \in CPUs, Count(c)
  PROVE  IInv'
<1>1. PICK i : i = mg[c].i
  OBVIOUS
<1>2. i \in CPUs /\ i \in Nat \ {0} /\ mg[c] \in Migration /\ mg[c].mine \in Nat
      /\ mg[c].total \in Nat
  BY <1>1, LocalsTyped DEF IInv, Count
<1>3. PICK n \in Nat : n = Len(rq[i])
  BY <1>2 DEF IInv, Types
<1>4. PICK k \in Nat : k = IF i = c THEN n ELSE mg[c].mine
  BY <1>2
<1>5. PICK m : m = [mg[c] EXCEPT !.i = i + 1, !.total = @ + n, !.mine = k]
  OBVIOUS
<1>6. mg' = [mg EXCEPT ![c] = m]
  BY <1>1, <1>2, <1>3, <1>4, <1>5 DEF IInv, Types, Migration, Count
<1>7. /\ m \in Migration
      /\ m.victims = mg[c].victims
      /\ m.to_send = mg[c].to_send
      /\ m.mine = k
  <2>1. i + 1 \in Nat \ {0} /\ mg[c].total + n \in Nat
    BY <1>2
  <2>2. QED
    BY <1>2, <1>5, <2>1 DEF Migration
<1>8. /\ mg' \in [CPUs -> Migration]
      /\ mg'[c] = m
      /\ \A d \in CPUs : d # c => mg'[d] = mg[d]
  BY <1>6, <1>7, LocalsChange DEF IInv
<1>9. Types'
  BY <1>8 DEF IInv, Types, Count
<1>10. LabelOf(c)'
  BY <1>7, <1>8 DEF IInv, Labels, LabelOf, Count
<1>11. SurplusOf(c)'
  BY <1>3, <1>4, <1>7, <1>8 DEF IInv, Surplus, SurplusOf, Count
<1>12. QED
  BY <1>7, <1>8, <1>9, <1>10, <1>11, MigrateMoveInv DEF Count

\* One cpu's share is a number.
LEMMA ShareTyped ==
  ASSUME NEW total \in Nat
  PROVE  OneShare(total) \in Nat
<1>1. NCPU \in Nat /\ NCPU > 0
  BY SchedAssumption
<1>2. total + NCPU - 1 \in Nat
  BY <1>1
<1>3. QED
  BY <1>1, <1>2 DEF OneShare

LEMMA DecideInv ==
  ASSUME IInv, NEW c \in CPUs, Decide(c)
  PROVE  IInv'
<1>1. mg[c] \in Migration /\ mg[c].mine \in Nat /\ mg[c].total \in Nat
  BY DEF IInv, Types, Migration
<1>2. PICK share \in Nat : share = OneShare(mg[c].total)
  BY <1>1, ShareTyped
<1>3. /\ cpc[c] = "count"
      /\ mg[c].mine <= Len(rq[c])
      /\ mg[c].victims = <<>>
  BY DEF Decide, IInv, Labels, LabelOf, Surplus, SurplusOf
<1>4. CASE /\ mg[c].mine < share
           /\ Goto(c, AfterTick(c))
           /\ mg' = [mg EXCEPT ![c] = NoMigration]
  <2>1. AfterTick(c) \in {"switch", "unidle"} /\ (AfterTick(c) = "switch" => ~ isidle[c])
        /\ (AfterTick(c) = "unidle" => isidle[c])
    BY Returns DEF IInv
  <2>2. /\ cpc'[c] = AfterTick(c)
        /\ \A d \in CPUs : d # c => cpc'[d] = cpc[d] /\ mg'[d] = mg[d]
        /\ mg'[c] = NoMigration
    BY <1>4 DEF IInv, Types, Goto
  <2>3. Types'
    BY <1>4, <2>1, NoMigrationTyped DEF IInv, Types, Decide, Goto
  <2>4. /\ NoMigration.victims = <<>>
        /\ NoMigration.mine = 0
        /\ NoMigration.to_send = 0
    BY DEF NoMigration
  <2>5. LabelOf(c)'
    BY <1>3, <2>1, <2>2, <2>4 DEF IInv, Labels, LabelOf, Decide
  <2>6. SurplusOf(c)'
    BY <2>1, <2>2, <2>4 DEF SurplusOf
  <2>7. QED
    BY <1>3, <2>1, <2>2, <2>3, <2>4, <2>5, <2>6, MigrateMoveInv DEF Decide
<1>5. CASE /\ mg[c].mine >= share
           /\ mg' = [mg EXCEPT ![c] = [NoMigration EXCEPT !.share = share,
                                                          !.to_send = mg[c].mine - share]]
           /\ Goto(c, "take")
  <2>1. mg[c].mine - share \in Nat /\ mg[c].mine - share <= mg[c].mine
    BY <1>1, <1>2, <1>5
  <2>2. PICK m : m = [NoMigration EXCEPT !.share = share, !.to_send = mg[c].mine - share]
    OBVIOUS
  <2>3. /\ m \in Migration
        /\ m.victims = <<>>
        /\ m.mine = 0
        /\ m.to_send = mg[c].mine - share
    BY <1>2, <2>1, <2>2, NoMigrationTyped DEF NoMigration, Migration
  <2>4. /\ cpc'[c] = "take"
        /\ \A d \in CPUs : d # c => cpc'[d] = cpc[d] /\ mg'[d] = mg[d]
        /\ mg'[c] = m
    BY <1>5, <2>2 DEF IInv, Types, Goto
  <2>5. Types'
    BY <1>5, <2>2, <2>3 DEF IInv, Types, Decide, Goto
  <2>6. LabelOf(c)'
    BY <1>3, <2>3, <2>4 DEF IInv, Labels, LabelOf, Decide
  <2>7. Len(rq[c]) \in Nat
    BY DEF IInv, Types
  <2>8. m.to_send <= Len(rq[c])
    BY <1>1, <1>2, <1>3, <2>1, <2>3, <2>7
  <2>9. SurplusOf(c)'
    BY <2>3, <2>4, <2>8 DEF SurplusOf, Decide
  <2>10. QED
    BY <1>3, <2>3, <2>4, <2>5, <2>6, <2>9, MigrateMoveInv DEF Decide
<1>6. QED
  BY <1>2, <1>4, <1>5 DEF Decide

\* The loop of thread_consider_migration moves on to the cpu k.
LEMMA MovesOn ==
  ASSUME NEW r \in Migration, NEW k \in Nat, k # 0, NEW m, m = [r EXCEPT !.i = k]
  PROVE  m \in Migration /\ m.victims = r.victims /\ m.to_send = r.to_send /\ m.mine = r.mine
<1>1. m = [i |-> k, total |-> r.total, mine |-> r.mine, share |-> r.share, to_send |-> r.to_send,
           victims |-> r.victims]
  BY DEF Migration
<1>2. /\ r.total \in Nat /\ r.mine \in Nat /\ r.share \in Nat /\ r.to_send \in Nat
      /\ r.victims \in Seq(Threads)
  BY DEF Migration
<1>3. m \in Migration
  BY <1>1, <1>2 DEF Migration
<1>4. QED
  BY <1>1, <1>3

LEMMA NextCPUInv ==
  ASSUME IInv, NEW c \in CPUs, NextCPU(c)
  PROVE  IInv'
<1>1. PICK i : i = mg[c].i
  OBVIOUS
<1>2. i \in CPUs /\ i \in Nat \ {0} /\ mg[c] \in Migration
  BY <1>1, LocalsTyped DEF IInv, NextCPU
<1>4. CASE /\ mg' = [mg EXCEPT ![c].i = i + 1]
           /\ UNCHANGED <<rqlock, cpc>>
  <2>1. PICK m : m = [mg[c] EXCEPT !.i = i + 1]
    OBVIOUS
  <2>2. mg' = [mg EXCEPT ![c] = m]
    BY <1>2, <1>4, <2>1 DEF IInv, Types, Migration
  <2>3. /\ m \in Migration
        /\ m.victims = mg[c].victims
        /\ m.to_send = mg[c].to_send
        /\ m.mine = mg[c].mine
    BY <1>2, <2>1, MovesOn
  <2>4. /\ mg' \in [CPUs -> Migration]
        /\ mg'[c] = m
        /\ \A d \in CPUs : d # c => mg'[d] = mg[d]
    BY <2>2, <2>3, LocalsChange DEF IInv
  <2>5. Types'
    BY <1>4, <2>4 DEF IInv, Types, NextCPU
  <2>6. LabelOf(c)'
    BY <1>4, <2>3, <2>4 DEF IInv, Labels, LabelOf, NextCPU
  <2>7. SurplusOf(c)'
    BY <1>4, <2>3, <2>4 DEF IInv, Surplus, SurplusOf, NextCPU
  <2>8. cpc' = cpc /\ cpc[c] = "next"
    BY <1>4 DEF NextCPU
  <2>9. QED
    BY <2>3, <2>4, <2>5, <2>6, <2>7, <2>8, MigrateMoveInv DEF NextCPU
<1>5. CASE /\ rqlock' = [rqlock EXCEPT ![i] = c]
           /\ Goto(c, "push")
           /\ UNCHANGED mg
  <2>1. Types'
    BY <1>5 DEF IInv, Types, NextCPU, Goto
  <2>2. cpc'[c] = "push" /\ \A d \in CPUs : d # c => cpc'[d] = cpc[d]
    BY <1>5 DEF IInv, Types, Goto
  <2>3. LabelOf(c)'
    BY <1>1, <1>2, <1>5, <2>2 DEF IInv, Labels, LabelOf, NextCPU
  <2>4. SurplusOf(c)'
    BY <1>5, <2>2 DEF IInv, Surplus, SurplusOf, NextCPU
  <2>5. QED
    BY <1>5, <2>1, <2>2, <2>3, <2>4, MigrateMoveInv DEF NextCPU
<1>6. QED
  BY <1>1, <1>4, <1>5 DEF NextCPU

LEMMA PushDoneInv ==
  ASSUME IInv, NEW c \in CPUs, PushDone(c)
  PROVE  IInv'
<1>1. mg[c] \in Migration /\ mg[c].i \in Nat /\ mg[c].i + 1 \in Nat \ {0}
  BY LocalsTyped DEF IInv
<1>2. PICK m : m = [mg[c] EXCEPT !.i = mg[c].i + 1]
  OBVIOUS
<1>3. mg' = [mg EXCEPT ![c] = m]
  BY <1>1, <1>2 DEF IInv, Types, Migration, PushDone
<1>4. /\ m \in Migration
      /\ m.victims = mg[c].victims
      /\ m.to_send = mg[c].to_send
      /\ m.mine = mg[c].mine
  BY <1>1, <1>2, MovesOn
<1>5. /\ mg' \in [CPUs -> Migration]
      /\ mg'[c] = m
      /\ \A d \in CPUs : d # c => mg'[d] = mg[d]
  BY <1>3, <1>4, LocalsChange DEF IInv
<1>6. Types'
  BY <1>5 DEF IInv, Types, PushDone, Goto
<1>7. cpc'[c] = "next" /\ \A d \in CPUs : d # c => cpc'[d] = cpc[d]
  BY DEF IInv, Types, PushDone, Goto
<1>8. LabelOf(c)'
  BY <1>4, <1>5, <1>7 DEF IInv, Labels, LabelOf, PushDone
<1>9. SurplusOf(c)'
  BY <1>4, <1>5, <1>7 DEF IInv, Surplus, SurplusOf, PushDone
<1>10. QED
  BY <1>4, <1>5, <1>6, <1>7, <1>8, <1>9, MigrateMoveInv DEF PushDone

-----------------------------------------------------------------------------
(* Context switches.                                                       *)

\* The lists are made of threads.
LEMMA ListsTyped ==
  ASSUME Types
  PROVE  /\ \A d \in CPUs : /\ rq[d] \in Seq(Threads) /\ Len(rq[d]) \in Nat
                            /\ hand[d] \in Seq(Threads)
                            /\ mg[d].victims \in Seq(Threads)
                            /\ Elems(rq[d]) \subseteq Threads
                            /\ Elems(hand[d]) \subseteq Threads
                            /\ Elems(mg[d].victims) \subseteq Threads
         /\ wchan \in Seq(Threads) /\ Elems(wchan) \subseteq Threads
<1>1. \A q \in Seq(Threads) : Elems(q) \subseteq Threads /\ Len(q) \in Nat
  BY DEF Elems
<1>2. \A d \in CPUs : mg[d].victims \in Seq(Threads)
  BY LocalsTyped
<1>3. \A d \in CPUs : rq[d] \in Seq(Threads) /\ hand[d] \in Seq(Threads)
  BY DEF Types
<1>4. wchan \in Seq(Threads)
  BY DEF Types
<1>5. QED
  BY <1>1, <1>2, <1>3, <1>4

\* A thread on no list at all.
Nowhere(t) ==
  /\ \A d \in CPUs : /\ t \notin Elems(rq[d])
                     /\ t \notin Elems(mg[d].victims)
                     /\ t \notin Elems(hand[d])
                     /\ t \notin zombies[d]
  /\ t \notin Elems(wchan)

\* A thread that runs, or does not exist, is on no list.
LEMMA RunsNowhere ==
  ASSUME NEW t \in Threads, PlaceOf(t), tstate[t] \in {"S_RUN", "none"}
  PROVE  Nowhere(t)
BY DEF PlaceOf, Queued, Woken, Found, Dead, Nowhere

\* The counts of a migration stay good while nobody else takes from its run queue.
LEMMA SurplusKept ==
  ASSUME Types, Surplus,
         NEW c \in CPUs, SurplusOf(c)',
         \A d \in CPUs : d # c => Len(rq'[d]) \in Nat /\ Len(rq'[d]) >= Len(rq[d]),
         \A d \in CPUs : d # c => cpc'[d] = cpc[d] /\ mg'[d] = mg[d]
  PROVE  Surplus'
<1>1. \A d \in CPUs : /\ Len(rq[d]) \in Nat /\ mg[d].mine \in Nat /\ mg[d].to_send \in Nat
                      /\ Len(mg[d].victims) \in Nat
  BY LocalsTyped, ListsTyped
<1>2. ASSUME NEW d \in CPUs, d # c
      PROVE  SurplusOf(d)'
  <2>1. /\ Len(rq[d]) \in Nat /\ mg[d].mine \in Nat /\ mg[d].to_send \in Nat
        /\ Len(rq'[d]) \in Nat /\ Len(rq'[d]) >= Len(rq[d]) /\ cpc'[d] = cpc[d] /\ mg'[d] = mg[d]
    BY <1>1, <1>2
  <2>2. SurplusOf(d)
    BY DEF Surplus
  <2>3. QED
    BY <2>1, <2>2 DEF SurplusOf
<1>3. QED
  BY <1>2 DEF Surplus

LEMMA SwitchOutInv ==
  ASSUME IInv, NEW c \in CPUs, SwitchOut(c)
  PROVE  IInv'
<1> PICK t \in Threads : t = cur[c]
  BY DEF IInv, Types
<1>1. /\ cpc[c] = "switch"
      /\ ~ isidle[c]
      /\ tstate[t] = "S_RUN"
      /\ tcpu[t] = c
      /\ hand[c] = <<>>
      /\ mg[c] = NoMigration
      /\ want[c] \in {"S_READY", "S_SLEEP", "S_ZOMBIE"}
  BY DEF IInv, Types, Labels, LabelOf, Surplus, SurplusOf, Placing, Running, SwitchOut
<1>2. Nowhere(t)
  BY <1>1, RunsNowhere DEF IInv, Placing
<1>3. /\ \A d \in CPUs : /\ rq[d] \in Seq(Threads) /\ Len(rq[d]) \in Nat
                         /\ NoRepeats(rq[d])
      /\ wchan \in Seq(Threads)
      /\ NoRepeats(wchan)
  BY ListsTyped DEF IInv, Placing, Lists
<1>4. PICK q : q = Append(rq[c], t)
  OBVIOUS
<1>5. /\ q \in Seq(Threads)
      /\ Len(q) = Len(rq[c]) + 1
      /\ Elems(q) = Elems(rq[c]) \cup {t}
      /\ NoRepeats(q)
  BY <1>2, <1>3, <1>4, TailJoins DEF Nowhere
<1>6. /\ Append(wchan, t) \in Seq(Threads)
      /\ Elems(Append(wchan, t)) = Elems(wchan) \cup {t}
      /\ NoRepeats(Append(wchan, t))
  BY <1>2, <1>3, TailJoins DEF Nowhere
<1>7. /\ rq' \in [CPUs -> Seq(Threads)]
      /\ \A d \in CPUs : d # c => rq'[d] = rq[d]
      /\ rq'[c] = IF want[c] = "S_READY" THEN q ELSE rq[c]
  <2>1. CASE want[c] = "S_READY"
    BY <1>4, <1>5, <2>1 DEF SwitchOut, IInv, Types
  <2>2. CASE want[c] # "S_READY"
    BY <2>2 DEF SwitchOut, IInv, Types
  <2>3. QED
    BY <2>1, <2>2
<1>8. \A d \in CPUs : /\ Len(rq'[d]) \in Nat
                      /\ Len(rq'[d]) >= Len(rq[d])
                      /\ NoRepeats(rq'[d])
  <2>1. Len(q) \in Nat /\ Len(q) >= Len(rq[c])
    BY <1>3, <1>5
  <2>2. Len(rq'[c]) \in Nat /\ Len(rq'[c]) >= Len(rq[c]) /\ NoRepeats(rq'[c])
    BY <1>3, <1>5, <1>7, <2>1
  <2>3. QED
    BY <1>3, <1>7, <2>2
<1>9. /\ wchan' \in Seq(Threads)
      /\ NoRepeats(wchan')
      /\ wchan' = IF want[c] = "S_SLEEP" THEN Append(wchan, t) ELSE wchan
  BY <1>3, <1>6 DEF SwitchOut
<1>10. /\ zombies' \in [CPUs -> SUBSET Threads]
       /\ \A d \in CPUs : d # c => zombies'[d] = zombies[d]
       /\ zombies'[c] = IF want[c] = "S_ZOMBIE" THEN zombies[c] \cup {t} ELSE zombies[c]
  BY DEF IInv, Types, SwitchOut
<1>11. /\ tstate' \in [Threads -> {"none", "S_RUN", "S_READY", "S_SLEEP", "S_ZOMBIE"}]
       /\ tstate'[t] = want[c]
       /\ \A x \in Threads : x # t => tstate'[x] = tstate[x]
  BY <1>1 DEF IInv, Types, SwitchOut
<1>12. /\ isidle' \in [CPUs -> BOOLEAN]
       /\ isidle'[c]
       /\ \A d \in CPUs : d # c => isidle'[d] = isidle[d]
  BY DEF IInv, Types, SwitchOut
<1>13. cpc'[c] = "pick" /\ \A d \in CPUs : d # c => cpc'[d] = cpc[d]
  BY DEF IInv, Types, SwitchOut, Goto
<1>14. cur' = cur /\ tcpu' = tcpu /\ hand' = hand /\ mg' = mg /\ ipi' = ipi
  BY DEF SwitchOut
<1>15. Types'
  BY <1>7, <1>9, <1>10, <1>11, <1>12 DEF IInv, Types, SwitchOut, Goto
<1>16. Labels'
  BY <1>1, <1>12, <1>13, <1>14, NoMigrationTyped DEF IInv, Labels, LabelOf
<1>17. Surplus'
  <2>1. SurplusOf(c)'
    BY <1>1, <1>13, <1>14 DEF NoMigration, SurplusOf
  <2>2. QED
    BY <1>8, <1>13, <1>14, <2>1, SurplusKept DEF IInv
<1>18. NoLostIPI'
  BY <1>7, <1>13, <1>14 DEF IInv, NoLostIPI
<1>19. Lists'
  BY <1>8, <1>9, <1>14 DEF IInv, Placing, Lists
<1>20. Running'
  <2>1. \A d \in CPUs : tcpu[cur[d]] = d /\ cur[d] \in Threads
    BY DEF IInv, Types, Placing, Running
  <2>2. \A d \in CPUs : d # c => cur[d] # t
    BY <1>1, <2>1
  <2>3. \A d \in CPUs : tstate'[cur[d]] # "none"
    BY <1>1, <1>11, <2>1 DEF IInv, Placing, Running
  <2>4. \A d \in CPUs : ~ isidle'[d] => tstate'[cur[d]] = "S_RUN"
    BY <1>11, <1>12, <2>1, <2>2 DEF IInv, Placing, Running
  <2>5. ASSUME NEW x \in Threads, tstate'[x] = "S_RUN"
        PROVE  cur[tcpu[x]] = x /\ ~ isidle'[tcpu[x]]
    <3>1. x # t /\ tstate[x] = "S_RUN"
      BY <1>1, <1>11, <2>5
    <3>2. cur[tcpu[x]] = x /\ ~ isidle[tcpu[x]] /\ tcpu[x] \in CPUs
      BY <3>1 DEF IInv, Types, Placing, Running
    <3>3. tcpu[x] # c
      BY <3>1, <3>2
    <3>4. QED
      BY <1>12, <3>2, <3>3
  <2>6. QED
    BY <1>14, <2>1, <2>3, <2>4, <2>5 DEF Running
<1>21. ASSUME NEW x \in Threads, x # t
       PROVE  PlaceOf(x)'
  <2>1. tstate'[x] = tstate[x] /\ tcpu'[x] = tcpu[x]
    BY <1>11, <1>14, <1>21
  <2>2. x \in Elems(wchan') <=> x \in Elems(wchan)
    BY <1>6, <1>9, <1>21
  <2>3. \A d \in CPUs : x \in Elems(rq'[d]) <=> x \in Elems(rq[d])
    BY <1>5, <1>7, <1>21
  <2>4. \A d \in CPUs : x \in zombies'[d] <=> x \in zombies[d]
    BY <1>10, <1>21
  <2>5. Keeps(x)
    BY <1>14, <2>1, <2>2, <2>3, <2>4 DEF Keeps
  <2>6. QED
    BY <2>5, KeepsPlace DEF IInv, Placing
<1>22. PlaceOf(t)'
  <2>1. \A d \in CPUs : t \in Elems(rq'[d]) <=> d = c /\ want[c] = "S_READY"
    BY <1>2, <1>5, <1>7 DEF Nowhere
  <2>2. \A d \in CPUs : t \in zombies'[d] <=> d = c /\ want[c] = "S_ZOMBIE"
    BY <1>2, <1>10 DEF Nowhere
  <2>3. t \in Elems(wchan') <=> want[c] = "S_SLEEP"
    BY <1>2, <1>6, <1>9 DEF Nowhere
  <2>4. \A d \in CPUs : t \notin Elems(hand'[d]) /\ t \notin Elems(mg'[d].victims)
    BY <1>2, <1>14 DEF Nowhere
  <2>5. tstate'[t] = want[c] /\ tcpu'[t] = c
    BY <1>1, <1>11, <1>14
  <2>6. Dead(t)' /\ Queued(t)'
    BY <2>1, <2>2, <2>4, <2>5 DEF Dead, Queued
  <2>7. Woken(t)' /\ Found(t)'
    BY <1>1, <2>1, <2>3, <2>4, <2>5 DEF Woken, Found
  <2>8. QED
    BY <2>6, <2>7 DEF PlaceOf
<1>23. \A x \in Threads : PlaceOf(x)'
  BY <1>21, <1>22
<1>24. QED
  BY <1>15, <1>16, <1>17, <1>18, <1>19, <1>20, <1>23 DEF IInv, Placing

LEMMA SwitchInInv ==
  ASSUME IInv, NEW c \in CPUs, SwitchIn(c)
  PROVE  IInv'
<1>1. /\ cpc[c] = "pick"
      /\ isidle[c]
      /\ mg[c] = NoMigration
      /\ hand[c] = <<>>
      /\ rq[c] # <<>>
      /\ rq[c] \in Seq(Threads)
      /\ NoRepeats(rq[c])
  BY DEF IInv, Types, Labels, LabelOf, Surplus, SurplusOf, Placing, Lists, SwitchIn
<1>2. PICK q \in Seq(Threads) : q = Tail(rq[c])
  BY <1>1, HeadLeaves
<1> PICK t \in Threads : t = Head(rq[c])
  BY <1>1, HeadLeaves
<1>3. /\ t \in Elems(rq[c])
      /\ Elems(q) = Elems(rq[c]) \ {t}
      /\ NoRepeats(q)
  BY <1>1, <1>2, HeadLeaves
<1>4. tstate[t] = "S_READY" /\ tcpu[t] = c
  BY <1>3 DEF IInv, Placing, PlaceOf, Queued
<1>5. /\ rq' \in [CPUs -> Seq(Threads)]
      /\ rq'[c] = q
      /\ \A d \in CPUs : d # c => rq'[d] = rq[d]
  BY <1>2 DEF IInv, Types, SwitchIn
<1>6. /\ cur' \in [CPUs -> Threads]
      /\ cur'[c] = t
      /\ \A d \in CPUs : d # c => cur'[d] = cur[d]
  BY DEF IInv, Types, SwitchIn
<1>7. /\ tstate' \in [Threads -> {"none", "S_RUN", "S_READY", "S_SLEEP", "S_ZOMBIE"}]
      /\ tstate'[t] = "S_RUN"
      /\ \A x \in Threads : x # t => tstate'[x] = tstate[x]
  BY DEF IInv, Types, SwitchIn
<1>8. /\ isidle' \in [CPUs -> BOOLEAN]
      /\ ~ isidle'[c]
      /\ \A d \in CPUs : d # c => isidle'[d] = isidle[d]
  BY DEF IInv, Types, SwitchIn
<1>9. cpc'[c] = "switched" /\ \A d \in CPUs : d # c => cpc'[d] = cpc[d]
  BY DEF IInv, Types, SwitchIn, Goto
<1>10. /\ tcpu' = tcpu /\ hand' = hand /\ mg' = mg /\ ipi' = ipi /\ wchan' = wchan
       /\ zombies' = zombies
  BY DEF SwitchIn
<1>11. Types'
  BY <1>5, <1>6, <1>7, <1>8 DEF IInv, Types, SwitchIn, Goto
<1>12. Labels'
  BY <1>1, <1>8, <1>9, <1>10, NoMigrationTyped DEF IInv, Labels, LabelOf
<1>13. Surplus'
  <2>1. SurplusOf(c)'
    BY <1>1, <1>9, <1>10 DEF NoMigration, SurplusOf
  <2>2. \A d \in CPUs : d # c => Len(rq'[d]) \in Nat /\ Len(rq'[d]) >= Len(rq[d])
    BY <1>5, ListsTyped DEF IInv
  <2>3. QED
    BY <1>9, <1>10, <2>1, <2>2, SurplusKept DEF IInv
<1>14. NoLostIPI'
  BY <1>5, <1>9, <1>10 DEF IInv, NoLostIPI
<1>15. Lists'
  BY <1>3, <1>5, <1>10 DEF IInv, Placing, Lists
<1>16. Running'
  <2>1. \A d \in CPUs : tcpu[cur[d]] = d /\ cur[d] \in Threads
    BY DEF IInv, Types, Placing, Running
  <2>2. \A d \in CPUs : d # c => cur[d] # t
    BY <1>4, <2>1
  <2>3. \A d \in CPUs : tcpu[cur'[d]] = d /\ tstate'[cur'[d]] # "none"
    BY <1>4, <1>6, <1>7, <2>1, <2>2 DEF IInv, Placing, Running
  <2>4. \A d \in CPUs : ~ isidle'[d] => tstate'[cur'[d]] = "S_RUN"
    BY <1>6, <1>7, <1>8, <2>1, <2>2 DEF IInv, Placing, Running
  <2>5. ASSUME NEW x \in Threads, x # t, tstate'[x] = "S_RUN"
        PROVE  cur'[tcpu[x]] = x /\ ~ isidle'[tcpu[x]]
    <3>1. tstate[x] = "S_RUN"
      BY <1>7, <2>5
    <3>2. cur[tcpu[x]] = x /\ ~ isidle[tcpu[x]] /\ tcpu[x] \in CPUs
      BY <3>1 DEF IInv, Types, Placing, Running
    <3>3. tcpu[x] # c
      BY <1>1, <3>2
    <3>4. QED
      BY <1>6, <1>8, <3>2, <3>3
  <2>6. cur'[tcpu[t]] = t /\ ~ isidle'[tcpu[t]]
    BY <1>4, <1>6, <1>8
  <2>7. QED
    BY <1>10, <2>3, <2>4, <2>5, <2>6 DEF Running
<1>17. ASSUME NEW x \in Threads, x # t
       PROVE  PlaceOf(x)'
  <2>1. Keeps(x)
    BY <1>3, <1>5, <1>7, <1>10, <1>17 DEF Keeps
  <2>2. QED
    BY <2>1, KeepsPlace DEF IInv, Placing
<1>18. PlaceOf(t)'
  <2>1. \A d \in CPUs : /\ t \notin Elems(rq'[d])
                        /\ t \notin zombies'[d]
                        /\ t \notin Elems(hand'[d])
                        /\ t \notin Elems(mg'[d].victims)
    <3>1. \A d \in CPUs : /\ t \in Elems(rq[d]) => d = c
                          /\ t \notin zombies[d]
                          /\ t \notin Elems(hand[d])
                          /\ t \notin Elems(mg[d].victims)
      BY <1>3, <1>4 DEF IInv, Placing, PlaceOf, Dead, Queued, Woken
    <3>2. QED
      BY <1>3, <1>5, <1>10, <3>1
  <2>2. t \notin Elems(wchan')
    BY <1>4, <1>10 DEF IInv, Placing, PlaceOf, Found
  <2>3. QED
    BY <1>7, <2>1, <2>2 DEF PlaceOf, Dead, Queued, Woken, Found
<1>19. \A x \in Threads : PlaceOf(x)'
  BY <1>17, <1>18
<1>20. QED
  BY <1>11, <1>12, <1>13, <1>14, <1>15, <1>16, <1>19 DEF IInv, Placing

\* No cpu changes its thread, and no thread it is on changes hands.
LEMMA RunningKept ==
  ASSUME Types, Running, cur' = cur, isidle' = isidle,
         \A d \in CPUs : /\ tcpu'[cur[d]] = tcpu[cur[d]]
                         /\ tstate'[cur[d]] # "none"
                         /\ tstate[cur[d]] = "S_RUN" => tstate'[cur[d]] = "S_RUN",
         \A x \in Threads : tstate'[x] = "S_RUN" =>
                              tstate[x] = "S_RUN" /\ tcpu'[x] = tcpu[x]
  PROVE  Running'
BY DEF Types, Running

LEMMA SwitchedInv ==
  ASSUME IInv, NEW c \in CPUs, Switched(c)
  PROVE  IInv'
<1>1. /\ cpc[c] = "switched"
      /\ ~ isidle[c]
      /\ mg[c] = NoMigration
      /\ hand[c] = <<>>
  BY DEF IInv, Labels, LabelOf, Surplus, SurplusOf, Switched
<1>2. /\ tstate' \in [Threads -> {"none", "S_RUN", "S_READY", "S_SLEEP", "S_ZOMBIE"}]
      /\ \A x \in Threads : x \in zombies[c] => tstate'[x] = "none"
      /\ \A x \in Threads : x \notin zombies[c] => tstate'[x] = tstate[x]
  BY DEF IInv, Types, Switched, Exorcised
<1>3. /\ zombies' \in [CPUs -> SUBSET Threads]
      /\ zombies'[c] = {}
      /\ \A d \in CPUs : d # c => zombies'[d] = zombies[d]
  BY DEF IInv, Types, Switched
<1>4. cpc'[c] = "run" /\ \A d \in CPUs : d # c => cpc'[d] = cpc[d]
  BY DEF IInv, Types, Switched, Goto
<1>5. /\ tcpu' = tcpu /\ hand' = hand /\ mg' = mg /\ ipi' = ipi /\ wchan' = wchan
      /\ rq' = rq /\ isidle' = isidle /\ cur' = cur
  BY DEF Switched
<1>6. Types'
  BY <1>2, <1>3 DEF IInv, Types, Switched, Goto
<1>7. Labels'
  BY <1>1, <1>4, <1>5 DEF IInv, Labels, LabelOf
<1>8. Surplus'
  <2>1. SurplusOf(c)'
    BY <1>1, <1>4, <1>5 DEF NoMigration, SurplusOf
  <2>2. \A d \in CPUs : d # c => Len(rq'[d]) \in Nat /\ Len(rq'[d]) >= Len(rq[d])
    BY <1>5, ListsTyped DEF IInv
  <2>3. QED
    BY <1>4, <1>5, <2>1, <2>2, SurplusKept DEF IInv
<1>9. NoLostIPI'
  BY <1>4, <1>5 DEF IInv, NoLostIPI
<1>10. Lists'
  BY <1>5 DEF IInv, Placing, Lists
<1>11. \A d \in CPUs : cur[d] \in Threads /\ cur[d] \notin zombies[c]
  <2>1. TAKE d \in CPUs
  <2>2. cur[d] \in Threads /\ tcpu[cur[d]] = d /\ (d = c => tstate[cur[d]] = "S_RUN")
    BY <1>1 DEF IInv, Types, Placing, Running
  <2>3. cur[d] \in zombies[c] => tstate[cur[d]] = "S_ZOMBIE" /\ tcpu[cur[d]] = c
    BY <2>2 DEF IInv, Placing, PlaceOf, Dead
  <2>4. QED
    BY <2>2, <2>3
<1>12. Running'
  <2>1. \A d \in CPUs : tstate[cur[d]] # "none"
    BY DEF IInv, Placing, Running
  <2>2. \A x \in Threads : tstate'[x] = "S_RUN" => tstate[x] = "S_RUN"
    BY <1>2
  <2>3. QED
    BY <1>2, <1>5, <1>11, <2>1, <2>2, RunningKept DEF IInv, Placing
<1>13. ASSUME NEW x \in Threads, x \notin zombies[c]
       PROVE  PlaceOf(x)'
  <2>1. Keeps(x)
    BY <1>2, <1>3, <1>5, <1>13 DEF Keeps
  <2>2. QED
    BY <2>1, KeepsPlace DEF IInv, Placing
<1>14. ASSUME NEW x \in Threads, x \in zombies[c]
       PROVE  PlaceOf(x)'
  <2>1. PlaceOf(x) /\ tstate[x] = "S_ZOMBIE"
    BY <1>14 DEF IInv, Placing, PlaceOf, Dead
  <2>2. /\ \A d \in CPUs : /\ x \notin Elems(rq[d])
                           /\ x \notin Elems(hand[d])
                           /\ x \notin Elems(mg[d].victims)
                           /\ d # c => x \notin zombies[d]
        /\ x \notin Elems(wchan)
    BY <1>14, <2>1 DEF PlaceOf, Dead, Queued, Woken, Found
  <2>3. QED
    BY <1>2, <1>3, <1>5, <1>14, <2>2 DEF PlaceOf, Dead, Queued, Woken, Found
<1>15. \A x \in Threads : PlaceOf(x)'
  BY <1>13, <1>14
<1>16. QED
  BY <1>6, <1>7, <1>8, <1>9, <1>10, <1>12, <1>15 DEF IInv, Placing

-----------------------------------------------------------------------------
(* Making threads runnable.                                                *)

\* What a wakeup or a fork has taken off its cpu's hands changes nothing for
\* the counts of migrations.
LEMMA SurplusSame ==
  ASSUME Surplus, NEW c \in CPUs, SurplusOf(c)', rq' = rq, mg' = mg,
         \A d \in CPUs : d # c => cpc'[d] = cpc[d]
  PROVE  Surplus'
BY DEF Surplus, SurplusOf

LEMMA ForkInv ==
  ASSUME IInv, NEW c \in CPUs, Fork(c)
  PROVE  IInv'
<1> PICK t \in Threads, e \in CPUs :
      /\ tstate[t] = "none"
      /\ tstate' = [tstate EXCEPT ![t] = "S_READY"]
      /\ tcpu' = [tcpu EXCEPT ![t] = e]
      /\ hand' = [hand EXCEPT ![c] = <<t>>]
  BY DEF Fork
<1>1. cpc[c] = "run" /\ ~ isidle[c] /\ mg[c] = NoMigration /\ hand[c] = <<>>
  BY DEF IInv, Labels, LabelOf, Surplus, SurplusOf, Fork
<1>2. PICK q \in Seq(Threads) : q = <<t>>
  <2>1. <<t>> \in Seq(Threads)
    OBVIOUS
  <2>2. QED
    BY <2>1
<1>3. Elems(q) = {t} /\ NoRepeats(q)
  BY <1>2 DEF Elems, NoRepeats
<1>4. Nowhere(t)
  BY RunsNowhere DEF IInv, Placing
<1>5. /\ tstate' \in [Threads -> {"none", "S_RUN", "S_READY", "S_SLEEP", "S_ZOMBIE"}]
      /\ tstate'[t] = "S_READY"
      /\ \A x \in Threads : x # t => tstate'[x] = tstate[x]
  BY DEF IInv, Types
<1>6. /\ tcpu' \in [Threads -> CPUs]
      /\ tcpu'[t] \in CPUs
      /\ \A x \in Threads : x # t => tcpu'[x] = tcpu[x]
  BY DEF IInv, Types
<1>7. /\ hand' \in [CPUs -> Seq(Threads)]
      /\ hand'[c] = q
      /\ \A d \in CPUs : d # c => hand'[d] = hand[d]
  BY <1>2 DEF IInv, Types
<1>8. cpc'[c] = "wake" /\ \A d \in CPUs : d # c => cpc'[d] = cpc[d]
  BY DEF IInv, Types, Fork, Goto
<1>9. /\ rq' = rq /\ mg' = mg /\ ipi' = ipi /\ wchan' = wchan /\ zombies' = zombies
      /\ isidle' = isidle /\ cur' = cur
  BY DEF Fork
<1>10. Types'
  BY <1>5, <1>6, <1>7 DEF IInv, Types, Fork, Goto
<1>11. Labels'
  BY <1>1, <1>7, <1>8, <1>9, NoMigrationTyped DEF IInv, Labels, LabelOf
<1>12. Surplus'
  <2>1. SurplusOf(c)'
    BY <1>1, <1>8, <1>9 DEF NoMigration, SurplusOf
  <2>2. QED
    BY <1>8, <1>9, <2>1, SurplusSame DEF IInv
<1>13. NoLostIPI'
  BY <1>8, <1>9 DEF IInv, NoLostIPI
<1>14. Lists'
  BY <1>3, <1>7, <1>9 DEF IInv, Placing, Lists
<1>15. Running'
  <2>1. \A d \in CPUs : cur[d] \in Threads /\ cur[d] # t /\ tstate[cur[d]] # "none"
    BY DEF IInv, Types, Placing, Running
  <2>2. \A x \in Threads : tstate'[x] = "S_RUN" => x # t
    BY <1>5
  <2>3. QED
    BY <1>5, <1>6, <1>9, <2>1, <2>2, RunningKept DEF IInv, Placing
<1>16. ASSUME NEW x \in Threads, x # t
       PROVE  PlaceOf(x)'
  <2>1. \A d \in CPUs : x \in Elems(hand'[d]) <=> x \in Elems(hand[d])
    BY <1>1, <1>3, <1>7, <1>16, EmptyList
  <2>2. Keeps(x)
    BY <1>5, <1>6, <1>9, <1>16, <2>1 DEF Keeps
  <2>3. QED
    BY <2>2, KeepsPlace DEF IInv, Placing
<1>17. PlaceOf(t)'
  <2>1. \A d \in CPUs : t \in Elems(hand'[d]) <=> d = c
    BY <1>3, <1>4, <1>7 DEF Nowhere
  <2>2. QED
    BY <1>4, <1>5, <1>6, <1>9, <2>1 DEF PlaceOf, Dead, Queued, Woken, Found, Nowhere
<1>18. \A x \in Threads : PlaceOf(x)'
  BY <1>16, <1>17
<1>19. QED
  BY <1>10, <1>11, <1>12, <1>13, <1>14, <1>15, <1>18 DEF IInv, Placing

LEMMA WakeInv ==
  ASSUME IInv, NEW c \in CPUs, Wake(c)
  PROVE  IInv'
<1>1. /\ cpc[c] \in {"run", "idle"}
      /\ mg[c] = NoMigration
      /\ hand[c] = <<>>
      /\ wchan \in Seq(Threads) /\ wchan # <<>> /\ NoRepeats(wchan)
  BY ListsTyped DEF IInv, Labels, LabelOf, Surplus, SurplusOf, Placing, Lists, Wake,
                    Interruptible
<1>2. PICK n \in 1 .. Len(wchan) :
        /\ hand' = [hand EXCEPT ![c] = SubSeq(wchan, 1, n)]
        /\ wchan' = SubSeq(wchan, n + 1, Len(wchan))
  <2>1. Len(wchan) \in Nat /\ Len(wchan) > 0
    BY <1>1
  <2>2. \A n \in {1, Len(wchan)} : n \in 1 .. Len(wchan)
    BY <2>1
  <2>3. QED
    BY <2>2 DEF Wake
<1>3. n \in 0 .. Len(wchan)
  BY <1>1
<1>4. PICK q \in Seq(Threads) : q = SubSeq(wchan, 1, n)
  BY <1>1, <1>3, ListCut
<1>5. /\ wchan' \in Seq(Threads)
      /\ NoRepeats(q)
      /\ NoRepeats(wchan')
      /\ Elems(q) \cap Elems(wchan') = {}
      /\ Elems(wchan) = Elems(q) \cup Elems(wchan')
  BY <1>1, <1>2, <1>3, <1>4, ListCut
<1>6. /\ hand' \in [CPUs -> Seq(Threads)]
      /\ hand'[c] = q
      /\ \A d \in CPUs : d # c => hand'[d] = hand[d]
  BY <1>2, <1>4 DEF IInv, Types
<1>7. cpc'[c] = "wake" /\ \A d \in CPUs : d # c => cpc'[d] = cpc[d]
  BY DEF IInv, Types, Wake, Goto
<1>8. /\ rq' = rq /\ mg' = mg /\ ipi' = ipi /\ tstate' = tstate /\ tcpu' = tcpu
      /\ zombies' = zombies /\ isidle' = isidle /\ cur' = cur
  BY DEF Wake
<1>9. Types'
  BY <1>5, <1>6 DEF IInv, Types, Wake, Goto
<1>10. Labels'
  BY <1>1, <1>6, <1>7, <1>8, NoMigrationTyped DEF IInv, Labels, LabelOf
<1>11. Surplus'
  <2>1. SurplusOf(c)'
    BY <1>1, <1>7, <1>8 DEF NoMigration, SurplusOf
  <2>2. QED
    BY <1>7, <1>8, <2>1, SurplusSame DEF IInv
<1>12. NoLostIPI'
  BY <1>7, <1>8 DEF IInv, NoLostIPI
<1>13. Lists'
  BY <1>5, <1>6, <1>8 DEF IInv, Placing, Lists
<1>14. Running'
  BY <1>8 DEF IInv, Placing, Running
<1>15. ASSUME NEW x \in Threads, x \notin Elems(wchan)
       PROVE  PlaceOf(x)'
  <2>1. x \notin Elems(q) /\ x \notin Elems(wchan')
    BY <1>5, <1>15
  <2>2. \A d \in CPUs : x \in Elems(hand'[d]) <=> x \in Elems(hand[d])
    BY <1>1, <1>6, <2>1, EmptyList
  <2>3. Keeps(x)
    BY <1>8, <1>15, <2>1, <2>2 DEF Keeps
  <2>4. QED
    BY <2>3, KeepsPlace DEF IInv, Placing
<1>16. ASSUME NEW x \in Threads, x \in Elems(wchan)
       PROVE  PlaceOf(x)'
  <2>1. PlaceOf(x) /\ tstate[x] = "S_SLEEP"
    BY <1>16 DEF IInv, Placing, PlaceOf, Found
  <2>2. \A d \in CPUs : /\ x \notin Elems(rq[d])
                        /\ x \notin Elems(hand[d])
                        /\ x \notin Elems(mg[d].victims)
                        /\ x \notin zombies[d]
    BY <1>16, <2>1 DEF PlaceOf, Dead, Queued, Woken
  <2>3. CASE x \in Elems(q)
    <3>1. \A d \in CPUs : x \in Elems(hand'[d]) <=> d = c
      BY <1>6, <2>2, <2>3
    <3>2. x \notin Elems(wchan')
      BY <1>5, <2>3
    <3>3. QED
      BY <1>8, <2>1, <2>2, <3>1, <3>2 DEF PlaceOf, Dead, Queued, Woken, Found
  <2>4. CASE x \notin Elems(q)
    <3>1. x \in Elems(wchan')
      BY <1>5, <1>16, <2>4
    <3>2. \A d \in CPUs : x \notin Elems(hand'[d])
      BY <1>6, <2>2, <2>4
    <3>3. QED
      BY <1>8, <2>1, <2>2, <3>1, <3>2 DEF PlaceOf, Dead, Queued, Woken, Found
  <2>5. QED
    BY <2>3, <2>4
<1>17. \A x \in Threads : PlaceOf(x)'
  BY <1>15, <1>16
<1>18. QED
  BY <1>9, <1>10, <1>11, <1>12, <1>13, <1>14, <1>17 DEF IInv, Placing

LEMMA MakeRunnableInv ==
  ASSUME IInv, NEW c \in CPUs, MakeRunnable(c)
  PROVE  IInv'
<1>1. /\ cpc[c] = "wake"
      /\ mg[c] = NoMigration
      /\ hand[c] \in Seq(Threads) /\ hand[c] # <<>> /\ NoRepeats(hand[c])
  BY ListsTyped DEF IInv, Labels, LabelOf, Surplus, SurplusOf, Placing, Lists, MakeRunnable
<1>2. PICK h \in Seq(Threads) : h = Tail(hand[c])
  BY <1>1, HeadLeaves
<1> PICK t \in Threads : t = Head(hand[c])
  BY <1>1, HeadLeaves
<1> PICK e \in CPUs : e = tcpu[t]
  BY DEF IInv, Types
<1>3. /\ t \in Elems(hand[c])
      /\ Elems(h) = Elems(hand[c]) \ {t}
      /\ NoRepeats(h)
  BY <1>1, <1>2, HeadLeaves
<1>4. /\ tstate[t] \in {"S_READY", "S_SLEEP"}
      /\ t \notin Elems(wchan)
      /\ \A d \in CPUs : /\ t \notin Elems(rq[d])
                         /\ t \notin Elems(mg[d].victims)
                         /\ t \notin zombies[d]
                         /\ d # c => t \notin Elems(hand[d])
  BY <1>3 DEF IInv, Placing, PlaceOf, Dead, Woken
<1>5. \A d \in CPUs : rq[d] \in Seq(Threads) /\ Len(rq[d]) \in Nat /\ NoRepeats(rq[d])
  BY ListsTyped DEF IInv, Placing, Lists
<1> PICK r \in Seq(Threads) : r = rq[e] /\ t \notin Elems(r) /\ NoRepeats(r)
  BY <1>4, <1>5
<1>6. PICK q \in Seq(Threads) : q = Append(rq[e], t)
  BY TailJoins
<1>7. /\ Len(q) = Len(rq[e]) + 1
      /\ Elems(q) = Elems(rq[e]) \cup {t}
      /\ NoRepeats(q)
  <2>1. q = Append(r, t)
    BY <1>6
  <2>2. Len(q) = Len(r) + 1 /\ Elems(q) = Elems(r) \cup {t} /\ NoRepeats(q)
    BY <2>1, TailJoins
  <2>3. QED
    BY <2>2
<1>8. /\ rq' \in [CPUs -> Seq(Threads)]
      /\ rq'[e] = q
      /\ \A d \in CPUs : d # e => rq'[d] = rq[d]
  <2>1. rq \in [CPUs -> Seq(Threads)]
    BY DEF IInv, Types
  <2>2. rq' = [rq EXCEPT ![e] = q]
    BY <1>6 DEF MakeRunnable
  <2>3. QED
    BY <2>1, <2>2
<1>9. /\ hand' \in [CPUs -> Seq(Threads)]
      /\ hand'[c] = h
      /\ \A d \in CPUs : d # c => hand'[d] = hand[d]
  BY <1>2 DEF IInv, Types, MakeRunnable
<1>10. /\ tstate' \in [Threads -> {"none", "S_RUN", "S_READY", "S_SLEEP", "S_ZOMBIE"}]
       /\ tstate'[t] = "S_READY"
       /\ \A x \in Threads : x # t => tstate'[x] = tstate[x]
  BY DEF IInv, Types, MakeRunnable
<1>11. /\ ipi' \in [CPUs -> BOOLEAN]
       /\ isidle[e] => ipi'[e]
       /\ \A d \in CPUs : d # e => ipi'[d] = ipi[d]
  BY DEF IInv, Types, MakeRunnable
<1>12. /\ mg' = mg /\ tcpu' = tcpu /\ zombies' = zombies /\ isidle' = isidle /\ cur' = cur
       /\ wchan' = wchan /\ cpc' = cpc
  BY DEF MakeRunnable
<1>13. Types'
  BY <1>8, <1>9, <1>10, <1>11 DEF IInv, Types, MakeRunnable
<1>14. Labels'
  BY <1>1, <1>9, <1>12 DEF IInv, Labels, LabelOf
<1>15. Surplus'
  <2>1. SurplusOf(c)'
    BY <1>1, <1>12 DEF NoMigration, SurplusOf
  <2>2. Len(q) \in Nat /\ Len(q) >= Len(rq[e])
    BY <1>5, <1>7
  <2>3. ASSUME NEW d \in CPUs
        PROVE  Len(rq'[d]) \in Nat /\ Len(rq'[d]) >= Len(rq[d])
    <3>1. CASE d = e
      BY <1>8, <2>2, <3>1
    <3>2. CASE d # e
      <4>1. rq'[d] = rq[d] /\ Len(rq[d]) \in Nat
        BY <1>5, <1>8, <3>2
      <4>2. QED
        BY <4>1
    <3>3. QED
      BY <3>1, <3>2
  <2>4. QED
    BY <1>12, <2>1, <2>3, SurplusKept DEF IInv
<1>16. NoLostIPI'
  <2>1. cpc[e] = "idle" => isidle[e]
    BY DEF IInv, Labels, LabelOf
  <2>2. QED
    BY <1>8, <1>11, <1>12, <2>1 DEF IInv, NoLostIPI
<1>17. Lists'
  BY <1>3, <1>7, <1>8, <1>9, <1>12 DEF IInv, Placing, Lists
<1>18. Running'
  <2>1. \A d \in CPUs : cur[d] \in Threads /\ tstate[cur[d]] # "none"
    BY DEF IInv, Types, Placing, Running
  <2>2. \A x \in Threads : tstate'[x] = "S_RUN" => x # t
    BY <1>10
  <2>3. \A x \in Threads : tstate[x] = "S_RUN" => x # t
    BY <1>4
  <2>4. \A d \in CPUs : tstate'[cur[d]] # "none"
    BY <1>10, <2>1
  <2>5. QED
    BY <1>10, <1>12, <2>1, <2>2, <2>3, <2>4, RunningKept DEF IInv, Placing
<1>19. ASSUME NEW x \in Threads, x # t
       PROVE  PlaceOf(x)'
  <2>1. Keeps(x)
    BY <1>3, <1>7, <1>8, <1>9, <1>10, <1>12, <1>19 DEF Keeps
  <2>2. QED
    BY <2>1, KeepsPlace DEF IInv, Placing
<1>20. PlaceOf(t)'
  <2>1. \A d \in CPUs : t \in Elems(rq'[d]) <=> d = e
    BY <1>4, <1>7, <1>8
  <2>2. \A d \in CPUs : t \notin Elems(hand'[d])
    BY <1>3, <1>4, <1>9
  <2>3. QED
    BY <1>4, <1>10, <1>12, <2>1, <2>2 DEF PlaceOf, Dead, Queued, Woken, Found
<1>21. \A x \in Threads : PlaceOf(x)'
  BY <1>19, <1>20
<1>22. QED
  BY <1>13, <1>14, <1>15, <1>16, <1>17, <1>18, <1>21 DEF IInv, Placing

-----------------------------------------------------------------------------
(* Migration.                                                              *)

LEMMA TakeVictimsInv ==
  ASSUME IInv, NEW c \in CPUs, TakeVictims(c)
  PROVE  IInv'
<1>1. /\ cpc[c] = "take"
      /\ hand[c] = <<>>
      /\ mg[c].victims = <<>>
      /\ mg[c].mine = 0
      /\ mg[c] \in Migration
      /\ mg[c].to_send \in Nat
      /\ mg[c].to_send <= Len(rq[c])
      /\ rq[c] \in Seq(Threads) /\ Len(rq[c]) \in Nat /\ NoRepeats(rq[c])
  BY LocalsTyped, ListsTyped
  DEF IInv, Labels, LabelOf, Surplus, SurplusOf, Placing, Lists, TakeVictims
<1>2. PICK n \in 0 .. Len(rq[c]) : n = Len(rq[c]) - mg[c].to_send
  BY <1>1
<1>3. PICK keep \in Seq(Threads) : keep = SubSeq(rq[c], 1, n)
  BY <1>1, ListCut
<1>4. PICK v \in Seq(Threads) : v = SubSeq(rq[c], n + 1, Len(rq[c]))
  BY <1>1, ListCut
<1>5. /\ Len(v) = mg[c].to_send
      /\ NoRepeats(keep)
      /\ NoRepeats(v)
      /\ Elems(keep) \cap Elems(v) = {}
      /\ Elems(rq[c]) = Elems(keep) \cup Elems(v)
  <2>1. Len(v) = Len(rq[c]) - n
    BY <1>1, <1>4, ListCut
  <2>2. Len(v) = mg[c].to_send
    BY <1>1, <1>2, <2>1
  <2>3. QED
    BY <1>1, <1>3, <1>4, <2>2, ListCut
<1>6. PICK m : m = [mg[c] EXCEPT !.victims = v, !.i = 1]
  OBVIOUS
<1>7. m \in Migration /\ m.victims = v /\ m.to_send = mg[c].to_send /\ m.mine = 0
  <2>1. 1 \in Nat \ {0}
    OBVIOUS
  <2>2. QED
    BY <1>1, <1>6, <2>1 DEF Migration
<1>8. /\ mg' \in [CPUs -> Migration]
      /\ mg'[c] = m
      /\ \A d \in CPUs : d # c => mg'[d] = mg[d]
  <2>1. mg' = [mg EXCEPT ![c] = m]
    BY <1>1, <1>2, <1>4, <1>6 DEF IInv, Types, Migration, TakeVictims
  <2>2. QED
    BY <1>7, <2>1, LocalsChange DEF IInv
<1>9. /\ rq' \in [CPUs -> Seq(Threads)]
      /\ rq'[c] = keep
      /\ \A d \in CPUs : d # c => rq'[d] = rq[d]
  BY <1>2, <1>3 DEF IInv, Types, TakeVictims
<1>10. cpc'[c] = "next" /\ \A d \in CPUs : d # c => cpc'[d] = cpc[d]
  BY DEF IInv, Types, TakeVictims, Goto
<1>11. /\ hand' = hand /\ tcpu' = tcpu /\ zombies' = zombies /\ isidle' = isidle
       /\ cur' = cur /\ wchan' = wchan /\ tstate' = tstate /\ ipi' = ipi
  BY DEF TakeVictims
<1>12. Types'
  BY <1>8, <1>9 DEF IInv, Types, TakeVictims, Goto
<1>13. Labels'
  BY <1>1, <1>8, <1>10, <1>11 DEF IInv, Labels, LabelOf
<1>14. Surplus'
  <2>1. SurplusOf(c)'
    BY <1>1, <1>5, <1>7, <1>8, <1>10 DEF SurplusOf
  <2>2. \A d \in CPUs : d # c => Len(rq'[d]) \in Nat /\ Len(rq'[d]) >= Len(rq[d])
    BY <1>9, ListsTyped DEF IInv
  <2>3. QED
    BY <1>8, <1>10, <2>1, <2>2, SurplusKept DEF IInv
<1>15. NoLostIPI'
  BY <1>9, <1>10, <1>11 DEF IInv, NoLostIPI
<1>16. Lists'
  BY <1>5, <1>7, <1>8, <1>9, <1>11 DEF IInv, Placing, Lists
<1>17. Running'
  BY <1>11 DEF IInv, Placing, Running
<1>18. ASSUME NEW x \in Threads, x \notin Elems(rq[c])
       PROVE  PlaceOf(x)'
  <2>1. x \notin Elems(v) /\ x \notin Elems(keep)
    BY <1>5, <1>18
  <2>2. \A d \in CPUs : x \in Elems(mg'[d].victims) <=> x \in Elems(mg[d].victims)
    BY <1>1, <1>7, <1>8, <2>1, EmptyList
  <2>3. Keeps(x)
    BY <1>9, <1>11, <1>18, <2>1, <2>2 DEF Keeps
  <2>4. QED
    BY <2>3, KeepsPlace DEF IInv, Placing
<1>19. ASSUME NEW x \in Threads, x \in Elems(rq[c])
       PROVE  PlaceOf(x)'
  <2>1. PlaceOf(x) /\ tstate[x] = "S_READY" /\ tcpu[x] = c
    BY <1>19 DEF IInv, Placing, PlaceOf, Queued
  <2>2. /\ \A d \in CPUs : /\ d # c => x \notin Elems(rq[d])
                           /\ x \notin Elems(hand[d])
                           /\ x \notin Elems(mg[d].victims)
                           /\ x \notin zombies[d]
        /\ x \notin Elems(wchan)
    BY <1>19, <2>1 DEF PlaceOf, Dead, Queued, Woken, Found
  <2>3. \A d \in CPUs : x \in Elems(rq'[d]) <=> d = c /\ x \in Elems(keep)
    BY <1>9, <2>2
  <2>4. \A d \in CPUs : x \in Elems(mg'[d].victims) <=> d = c /\ x \in Elems(v)
    BY <1>7, <1>8, <2>2
  <2>5. x \in Elems(keep) <=> x \notin Elems(v)
    BY <1>5, <1>19
  <2>6. QED
    BY <1>11, <2>1, <2>2, <2>3, <2>4, <2>5 DEF PlaceOf, Dead, Queued, Woken, Found
<1>20. \A x \in Threads : PlaceOf(x)'
  BY <1>18, <1>19
<1>21. QED
  BY <1>12, <1>13, <1>14, <1>15, <1>16, <1>17, <1>20 DEF IInv, Placing

\* What a cpu that pushes has in its hands.
LEMMA PushFacts ==
  ASSUME IInv, NEW c \in CPUs, cpc[c] = "push", Pushing(c)
  PROVE  /\ mg[c] \in Migration
         /\ mg[c].i \in CPUs
         /\ mg[c].mine = 0
         /\ mg[c].to_send \in Nat /\ mg[c].to_send > 0
         /\ mg[c].to_send <= Len(mg[c].victims)
         /\ mg[c].victims \in Seq(Threads)
         /\ Len(mg[c].victims) \in Nat
         /\ mg[c].victims # <<>>
         /\ NoRepeats(mg[c].victims)
<1>1. /\ mg[c] \in Migration
      /\ mg[c].to_send \in Nat
      /\ mg[c].victims \in Seq(Threads)
      /\ Len(mg[c].victims) \in Nat
  BY LocalsTyped DEF IInv
<1>2. mg[c].i \in CPUs /\ mg[c].mine = 0 /\ mg[c].to_send <= Len(mg[c].victims)
  BY DEF IInv, Labels, LabelOf, Surplus, SurplusOf
<1>3. mg[c].to_send > 0 /\ NoRepeats(mg[c].victims)
  BY DEF Pushing, IInv, Placing, Lists
<1>4. mg[c].victims # <<>>
  <2>1. Len(mg[c].victims) > 0
    BY <1>1, <1>2, <1>3
  <2>2. Len(<<>>) = 0
    OBVIOUS
  <2>3. QED
    BY <2>1, <2>2
<1>5. QED
  BY <1>1, <1>2, <1>3, <1>4

LEMMA PushVictimInv ==
  ASSUME IInv, NEW c \in CPUs, PushVictim(c)
  PROVE  IInv'
<1>1. cpc[c] = "push" /\ Pushing(c)
  BY DEF PushVictim
<1>2. /\ mg[c] \in Migration
      /\ mg[c].mine = 0
      /\ mg[c].to_send \in Nat /\ mg[c].to_send > 0
      /\ mg[c].to_send <= Len(mg[c].victims)
      /\ mg[c].victims \in Seq(Threads)
      /\ Len(mg[c].victims) \in Nat
      /\ mg[c].victims # <<>>
      /\ NoRepeats(mg[c].victims)
  BY <1>1, PushFacts
<1> PICK e \in CPUs : e = mg[c].i
  BY <1>1, PushFacts
<1> PICK t \in Threads : t = Head(mg[c].victims)
  BY <1>2, HeadLeaves
<1>3. PICK v \in Seq(Threads) : v = Tail(mg[c].victims)
  BY <1>2, HeadLeaves
<1>4. /\ t \in Elems(mg[c].victims)
      /\ Len(v) = Len(mg[c].victims) - 1
      /\ Elems(v) = Elems(mg[c].victims) \ {t}
      /\ NoRepeats(v)
  BY <1>2, <1>3, HeadLeaves
<1>5. PlaceOf(t) /\ tstate[t] = "S_READY" /\ tcpu[t] = c /\ t # cur[c]
  BY <1>4 DEF IInv, Placing, PlaceOf, Queued, PushVictim
<1>6. /\ t \notin Elems(wchan)
      /\ \A d \in CPUs : /\ t \notin Elems(rq[d])
                         /\ d # c => t \notin Elems(mg[d].victims)
                         /\ t \notin zombies[d]
                         /\ t \notin Elems(hand[d])
  BY <1>4, <1>5 DEF PlaceOf, Dead, Queued, Woken, Found
<1>7. \A d \in CPUs : rq[d] \in Seq(Threads) /\ Len(rq[d]) \in Nat /\ NoRepeats(rq[d])
  BY ListsTyped DEF IInv, Placing, Lists
<1>8. PICK q \in Seq(Threads) : q = Append(rq[e], t)
  BY <1>6, <1>7, TailJoins
<1>9. /\ Len(q) = Len(rq[e]) + 1
      /\ Elems(q) = Elems(rq[e]) \cup {t}
      /\ NoRepeats(q)
  BY <1>6, <1>7, <1>8, TailJoins
<1>10. PICK m : m = [mg[c] EXCEPT !.victims = v, !.to_send = @ - 1]
  OBVIOUS
<1>11. m \in Migration /\ m.victims = v /\ m.to_send = mg[c].to_send - 1 /\ m.mine = 0
       /\ m.i = e
  <2>1. mg[c].to_send - 1 \in Nat
    BY <1>2
  <2>2. QED
    BY <1>2, <1>10, <2>1 DEF Migration
<1>12. /\ mg' \in [CPUs -> Migration]
       /\ mg'[c] = m
       /\ \A d \in CPUs : d # c => mg'[d] = mg[d]
  <2>1. mg' = [mg EXCEPT ![c] = m]
    BY <1>2, <1>3, <1>10 DEF IInv, Types, Migration, PushVictim
  <2>2. QED
    BY <1>11, <2>1, LocalsChange DEF IInv
<1>13. /\ rq' \in [CPUs -> Seq(Threads)]
       /\ rq'[e] = q
       /\ \A d \in CPUs : d # e => rq'[d] = rq[d]
  BY <1>8 DEF IInv, Types, PushVictim
<1>14. /\ tcpu' \in [Threads -> CPUs]
       /\ tcpu'[t] = e
       /\ \A x \in Threads : x # t => tcpu'[x] = tcpu[x]
  BY DEF IInv, Types, PushVictim
<1>15. /\ ipi' \in [CPUs -> BOOLEAN]
       /\ isidle[e] => ipi'[e]
       /\ \A d \in CPUs : d # e => ipi'[d] = ipi[d]
  BY DEF IInv, Types, PushVictim
<1>16. /\ hand' = hand /\ zombies' = zombies /\ isidle' = isidle /\ cur' = cur
       /\ wchan' = wchan /\ tstate' = tstate /\ cpc' = cpc
  BY DEF PushVictim
<1>17. Types'
  BY <1>12, <1>13, <1>14, <1>15 DEF IInv, Types, PushVictim
<1>18. Labels'
  BY <1>1, <1>11, <1>12, <1>16 DEF IInv, Labels, LabelOf
<1>19. Surplus'
  <2>1. m.to_send <= Len(v)
    BY <1>2, <1>4, <1>11
  <2>2. SurplusOf(c)'
    BY <1>1, <1>11, <1>12, <1>16, <2>1 DEF SurplusOf
  <2>3. Len(q) \in Nat /\ Len(q) >= Len(rq[e])
    BY <1>7, <1>9
  <2>4. \A d \in CPUs : d # c => Len(rq'[d]) \in Nat /\ Len(rq'[d]) >= Len(rq[d])
    BY <1>7, <1>13, <2>3
  <2>5. QED
    BY <1>12, <1>16, <2>2, <2>4, SurplusKept DEF IInv
<1>20. NoLostIPI'
  <2>1. cpc[e] = "idle" => isidle[e]
    BY DEF IInv, Labels, LabelOf
  <2>2. QED
    BY <1>13, <1>15, <1>16, <2>1 DEF IInv, NoLostIPI
<1>21. Lists'
  BY <1>4, <1>9, <1>11, <1>12, <1>13, <1>16 DEF IInv, Placing, Lists
<1>22. Running'
  <2>1. \A d \in CPUs : cur[d] \in Threads /\ tstate[cur[d]] # "none" /\ tcpu[cur[d]] = d
    BY DEF IInv, Types, Placing, Running
  <2>2. \A d \in CPUs : cur[d] # t
    BY <1>5, <2>1
  <2>3. \A d \in CPUs : tcpu'[cur[d]] = tcpu[cur[d]]
    BY <1>14, <2>1, <2>2
  <2>4. \A x \in Threads : tstate[x] = "S_RUN" => tcpu'[x] = tcpu[x]
    BY <1>5, <1>14
  <2>5. QED
    BY <1>16, <2>1, <2>3, <2>4, RunningKept DEF IInv, Placing
<1>23. ASSUME NEW x \in Threads, x # t
       PROVE  PlaceOf(x)'
  <2>1. Keeps(x)
    BY <1>4, <1>9, <1>11, <1>12, <1>13, <1>14, <1>16, <1>23 DEF Keeps
  <2>2. QED
    BY <2>1, KeepsPlace DEF IInv, Placing
<1>24. PlaceOf(t)'
  <2>1. \A d \in CPUs : t \in Elems(rq'[d]) <=> d = e
    BY <1>6, <1>9, <1>13
  <2>2. \A d \in CPUs : t \notin Elems(mg'[d].victims)
    BY <1>4, <1>6, <1>11, <1>12
  <2>3. QED
    BY <1>5, <1>6, <1>14, <1>16, <2>1, <2>2 DEF PlaceOf, Dead, Queued, Woken, Found
<1>25. \A x \in Threads : PlaceOf(x)'
  BY <1>23, <1>24
<1>26. QED
  BY <1>17, <1>18, <1>19, <1>20, <1>21, <1>22, <1>25 DEF IInv, Placing

LEMMA SkipCurrentInv ==
  ASSUME IInv, NEW c \in CPUs, SkipCurrent(c)
  PROVE  IInv'
<1>1. cpc[c] = "push" /\ Pushing(c)
  BY DEF SkipCurrent
<1>2. /\ mg[c] \in Migration
      /\ mg[c].i \in CPUs
      /\ mg[c].mine = 0
      /\ mg[c].to_send \in Nat /\ mg[c].to_send > 0
      /\ mg[c].to_send <= Len(mg[c].victims)
      /\ mg[c].victims \in Seq(Threads)
      /\ Len(mg[c].victims) \in Nat
      /\ mg[c].victims # <<>>
      /\ NoRepeats(mg[c].victims)
  BY <1>1, PushFacts
<1> PICK t \in Threads : t = Head(mg[c].victims)
  BY <1>2, HeadLeaves
<1>3. PICK w \in Seq(Threads) : w = Tail(mg[c].victims)
  BY <1>2, HeadLeaves
<1>4. /\ t \in Elems(mg[c].victims)
      /\ Len(w) = Len(mg[c].victims) - 1
      /\ Elems(w) = Elems(mg[c].victims) \ {t}
      /\ NoRepeats(w)
  BY <1>2, <1>3, HeadLeaves
<1>5. t \notin Elems(w)
  BY <1>4
<1>6. PICK v \in Seq(Threads) : v = Append(w, t)
  BY <1>4, <1>5, TailJoins
<1>7. /\ Len(v) = Len(mg[c].victims)
      /\ Elems(v) = Elems(mg[c].victims)
      /\ NoRepeats(v)
  <2>1. Len(v) = Len(w) + 1 /\ Elems(v) = Elems(w) \cup {t} /\ NoRepeats(v)
    BY <1>4, <1>5, <1>6, TailJoins
  <2>2. Len(v) = Len(mg[c].victims)
    BY <1>2, <1>4, <2>1
  <2>3. Elems(v) = Elems(mg[c].victims)
    BY <1>4, <2>1
  <2>4. QED
    BY <2>1, <2>2, <2>3
<1>8. PICK m : m = [mg[c] EXCEPT !.victims = v, !.to_send = @ - 1]
  OBVIOUS
<1>9. m \in Migration /\ m.victims = v /\ m.to_send = mg[c].to_send - 1 /\ m.mine = 0
      /\ m.i = mg[c].i
  <2>1. mg[c].to_send - 1 \in Nat
    BY <1>2
  <2>2. QED
    BY <1>2, <1>8, <2>1 DEF Migration
<1>10. /\ mg' \in [CPUs -> Migration]
       /\ mg'[c] = m
       /\ \A d \in CPUs : d # c => mg'[d] = mg[d]
  <2>1. mg' = [mg EXCEPT ![c] = m]
    BY <1>2, <1>3, <1>6, <1>8 DEF IInv, Types, Migration, SkipCurrent
  <2>2. QED
    BY <1>9, <2>1, LocalsChange DEF IInv
<1>11. /\ rq' = rq /\ tcpu' = tcpu /\ ipi' = ipi
       /\ hand' = hand /\ zombies' = zombies /\ isidle' = isidle /\ cur' = cur
       /\ wchan' = wchan /\ tstate' = tstate /\ cpc' = cpc
  BY DEF SkipCurrent
<1>12. Types'
  BY <1>10 DEF IInv, Types, SkipCurrent
<1>13. Labels'
  BY <1>1, <1>2, <1>9, <1>10, <1>11 DEF IInv, Labels, LabelOf
<1>14. Surplus'
  <2>1. m.to_send <= Len(v)
    BY <1>2, <1>7, <1>9
  <2>2. SurplusOf(c)'
    BY <1>1, <1>9, <1>10, <1>11, <2>1 DEF SurplusOf
  <2>3. \A d \in CPUs : d # c => Len(rq'[d]) \in Nat /\ Len(rq'[d]) >= Len(rq[d])
    BY <1>11, ListsTyped DEF IInv
  <2>4. QED
    BY <1>10, <1>11, <2>2, <2>3, SurplusKept DEF IInv
<1>15. NoLostIPI'
  BY <1>11 DEF IInv, NoLostIPI
<1>16. Lists'
  BY <1>7, <1>9, <1>10, <1>11 DEF IInv, Placing, Lists
<1>17. Running'
  BY <1>11 DEF IInv, Placing, Running
<1>18. ASSUME NEW x \in Threads
       PROVE  PlaceOf(x)'
  <2>1. Keeps(x)
    BY <1>7, <1>9, <1>10, <1>11 DEF Keeps
  <2>2. QED
    BY <2>1, KeepsPlace DEF IInv, Placing
<1>19. QED
  BY <1>12, <1>13, <1>14, <1>15, <1>16, <1>17, <1>18 DEF IInv, Placing

LEMMA LeftoversInv ==
  ASSUME IInv, NEW c \in CPUs, Leftovers(c)
  PROVE  IInv'
<1>1. /\ cpc[c] = "next"
      /\ hand[c] = <<>>
      /\ mg[c].victims \in Seq(Threads) /\ NoRepeats(mg[c].victims)
      /\ rq[c] \in Seq(Threads) /\ Len(rq[c]) \in Nat /\ NoRepeats(rq[c])
      /\ Len(mg[c].victims) \in Nat
  BY LocalsTyped, ListsTyped DEF IInv, Labels, LabelOf, Placing, Lists, Leftovers
<1>2. Elems(rq[c]) \cap Elems(mg[c].victims) = {}
  <2>1. Elems(rq[c]) \subseteq Threads
    BY ListsTyped DEF IInv
  <2>2. \A x \in Threads : x \in Elems(mg[c].victims) => x \notin Elems(rq[c])
    BY DEF IInv, Placing, PlaceOf, Queued
  <2>3. QED
    BY <2>1, <2>2
<1>3. PICK q \in Seq(Threads) : q = rq[c] \o mg[c].victims
  BY <1>1, <1>2, ListsJoin
<1>4. /\ NoRepeats(q)
      /\ Elems(q) = Elems(rq[c]) \cup Elems(mg[c].victims)
  BY <1>1, <1>2, <1>3, ListsJoin
<1>5. AfterTick(c) \in {"switch", "unidle"} /\ (AfterTick(c) = "switch" => ~ isidle[c])
      /\ (AfterTick(c) = "unidle" => isidle[c])
  BY Returns DEF IInv
<1>6. /\ rq' \in [CPUs -> Seq(Threads)]
      /\ rq'[c] = q
      /\ \A d \in CPUs : d # c => rq'[d] = rq[d]
  BY <1>3 DEF IInv, Types, Leftovers
<1>7. /\ mg' \in [CPUs -> Migration]
      /\ mg'[c] = NoMigration
      /\ \A d \in CPUs : d # c => mg'[d] = mg[d]
  BY NoMigrationTyped, LocalsChange DEF IInv, Leftovers
<1>8. cpc'[c] = AfterTick(c) /\ \A d \in CPUs : d # c => cpc'[d] = cpc[d]
  BY DEF IInv, Types, Leftovers, Goto
<1>9. /\ tcpu' = tcpu /\ ipi' = ipi /\ hand' = hand /\ zombies' = zombies
      /\ isidle' = isidle /\ cur' = cur /\ wchan' = wchan /\ tstate' = tstate
  BY DEF Leftovers
<1>10. Types'
  BY <1>5, <1>6, <1>7 DEF IInv, Types, Leftovers, Goto
<1>11. Labels'
  BY <1>1, <1>5, <1>7, <1>8, <1>9, NoMigrationTyped DEF IInv, Labels, LabelOf
<1>12. Surplus'
  <2>1. SurplusOf(c)'
    BY <1>5, <1>7, <1>8 DEF NoMigration, SurplusOf
  <2>2. \A d \in CPUs : d # c => Len(rq'[d]) \in Nat /\ Len(rq'[d]) >= Len(rq[d])
    BY <1>6, ListsTyped DEF IInv
  <2>3. QED
    BY <1>7, <1>8, <2>1, <2>2, SurplusKept DEF IInv
<1>13. NoLostIPI'
  BY <1>5, <1>6, <1>8, <1>9 DEF IInv, NoLostIPI
<1>14. Lists'
  BY <1>4, <1>6, <1>7, <1>9, NoMigrationTyped, EmptyList DEF IInv, Placing, Lists
<1>15. Running'
  BY <1>9 DEF IInv, Placing, Running
<1>16. ASSUME NEW x \in Threads, x \notin Elems(mg[c].victims)
       PROVE  PlaceOf(x)'
  <2>1. \A d \in CPUs : x \in Elems(mg'[d].victims) <=> x \in Elems(mg[d].victims)
    BY <1>7, <1>16, NoMigrationTyped, EmptyList
  <2>2. Keeps(x)
    BY <1>4, <1>6, <1>9, <1>16, <2>1 DEF Keeps
  <2>3. QED
    BY <2>2, KeepsPlace DEF IInv, Placing
<1>17. ASSUME NEW x \in Threads, x \in Elems(mg[c].victims)
       PROVE  PlaceOf(x)'
  <2>1. PlaceOf(x) /\ tstate[x] = "S_READY" /\ tcpu[x] = c
    BY <1>17 DEF IInv, Placing, PlaceOf, Queued
  <2>2. /\ \A d \in CPUs : /\ x \notin Elems(rq[d])
                           /\ x \notin Elems(hand[d])
                           /\ d # c => x \notin Elems(mg[d].victims)
                           /\ x \notin zombies[d]
        /\ x \notin Elems(wchan)
    BY <1>17, <2>1 DEF PlaceOf, Dead, Queued, Woken, Found
  <2>3. \A d \in CPUs : x \in Elems(rq'[d]) <=> d = c
    BY <1>4, <1>6, <1>17, <2>2
  <2>4. \A d \in CPUs : x \notin Elems(mg'[d].victims)
    BY <1>7, <2>2, NoMigrationTyped, EmptyList
  <2>5. QED
    BY <1>9, <2>1, <2>2, <2>3, <2>4 DEF PlaceOf, Dead, Queued, Woken, Found
<1>18. \A x \in Threads : PlaceOf(x)'
  BY <1>16, <1>17
<1>19. QED
  BY <1>10, <1>11, <1>12, <1>13, <1>14, <1>15, <1>18 DEF IInv, Placing

-----------------------------------------------------------------------------
(* The invariant.                                                          *)

LEMMA StutterInv == IInv /\ UNCHANGED vars => IInv'
<1> SUFFICES ASSUME IInv, UNCHANGED vars PROVE IInv'
  OBVIOUS
<1>1. Types' /\ Labels' /\ Surplus' /\ NoLostIPI'
  BY DEF IInv, vars, Types, Labels, LabelOf, Surplus, SurplusOf, NoLostIPI
<1>2. Still
  BY DEF vars, Still
<1>3. QED
  BY <1>1, <1>2, StillPlacing DEF IInv

LEMMA NextInv == IInv /\ [Next]_vars => IInv'
<1> SUFFICES ASSUME IInv, Next PROVE IInv'
  BY StutterInv
<1> PICK c \in CPUs : Kernel(c) \/ Request(c) \/ Interrupt(c)
  BY DEF Next
<1>1. CASE SwitchStep(c)
  BY <1>1, SwitchNotInv, SwitchOutInv, SwitchInInv, GoIdleInv, UnidleInv, SwitchedInv
  DEF SwitchStep
<1>2. CASE WakeStep(c)
  BY <1>2, MakeRunnableInv, WakeDoneInv DEF WakeStep
<1>3. CASE MigrateStep(c)
  BY <1>3, CountInv, DecideInv, TakeVictimsInv, NextCPUInv, PushVictimInv,
     SkipCurrentInv, PushDoneInv, LeftoversInv DEF MigrateStep
<1>4. CASE Request(c)
  BY <1>4, ExitInv, SleepInv, ForkInv DEF Request
<1>5. CASE Interrupt(c)
  BY <1>5, WakeInv, TakeIPIInv, TickInv, MigrateTickInv DEF Interrupt
<1>6. QED
  BY <1>1, <1>2, <1>3, <1>4, <1>5 DEF Kernel

\* The inductive invariant: every thread is where its state says, on the lists
\* of thread.c once, and what the labels promise holds.
THEOREM Invariance == SafeSpec => []IInv
<1>1. Init => IInv
  BY InitInv
<1>2. IInv /\ [Next]_vars => IInv'
  BY NextInv
<1>3. QED
  BY <1>1, <1>2, PTL DEF SafeSpec

\* A thread queued for an idle cpu is not forgotten: the cpu has an interrupt
\* coming (thread.c:633-637), for any number of cpus.
THEOREM NoIPIIsLost == SafeSpec => []NoLostIPI
<1>1. IInv => NoLostIPI
  BY DEF IInv
<1>2. QED
  BY <1>1, Invariance, PTL

\* The surplus counted queue by queue is still there when the victims are taken
\* (thread.c:887-893), whatever the other cpus migrate meanwhile.
THEOREM SurplusIsThere == SafeSpec => []VictimsThere
<1>1. IInv => VictimsThere
  BY DEF IInv, Surplus, SurplusOf, VictimsThere
<1>2. QED
  BY <1>1, Invariance, PTL

-----------------------------------------------------------------------------
(* Counting places.                                                        *)

\* A list without repetitions is no longer than there are threads.
LEMMA ListsShort ==
  ASSUME NEW q \in Seq(Threads), NoRepeats(q)
  PROVE  Len(q) <= Cardinality(Threads)
<1>1. Len(q) \in Nat /\ q \in [1 .. Len(q) -> Threads]
  OBVIOUS
<1>2. IsFiniteSet(Threads) /\ Cardinality(Threads) \in Nat
  BY SchedAssumption, FS_CardinalityType
<1>3. IsFiniteSet(1 .. Len(q)) /\ Cardinality(1 .. Len(q)) = Len(q)
  <2>1. 1 \in Int /\ Len(q) \in Int
    BY <1>1
  <2>2. /\ IsFiniteSet(1 .. Len(q))
        /\ Cardinality(1 .. Len(q)) = IF 1 > Len(q) THEN 0 ELSE Len(q) - 1 + 1
    BY <2>1, FS_Interval
  <2>3. QED
    BY <1>1, <2>2
<1>4. SUFFICES ASSUME Cardinality(Threads) < Cardinality(1 .. Len(q)) PROVE FALSE
  BY <1>1, <1>2, <1>3
<1>5. \E i, j \in 1 .. Len(q) : i # j /\ q[i] = q[j]
  BY <1>1, <1>2, <1>3, <1>4, FS_PigeonHole
<1>6. QED
  BY <1>5 DEF NoRepeats

\* A set of at most one element counts as one, or as nothing.
LEMMA AtMostOne ==
  ASSUME NEW S, \A x, y \in S : x = y
  PROVE  Cardinality(S) = IF S = {} THEN 0 ELSE 1
<1>1. CASE S = {}
  BY <1>1, FS_EmptySet
<1>2. CASE S # {}
  <2>1. PICK x : x \in S
    BY <1>2
  <2>2. S = {x}
    BY <2>1
  <2>3. QED
    BY <1>2, <2>2, FS_Singleton
<1>3. QED
  BY <1>1, <1>2

\* In counts the one position of a thread on a list.
LEMMA InCounts ==
  ASSUME NEW q \in Seq(Threads), NoRepeats(q), NEW t
  PROVE  In(q, t) = IF t \in Elems(q) THEN 1 ELSE 0
<1>1. DOMAIN q = 1 .. Len(q)
  OBVIOUS
<1>2. PICK P : P = {i \in DOMAIN q : q[i] = t}
  OBVIOUS
<1>3. \A x, y \in P : x = y
  BY <1>1, <1>2 DEF NoRepeats
<1>4. P = {} <=> t \notin Elems(q)
  BY <1>1, <1>2 DEF Elems
<1>5. Cardinality(P) = IF P = {} THEN 0 ELSE 1
  BY <1>3, AtMostOne
<1>6. QED
  BY <1>2, <1>4, <1>5 DEF In

\* A run queue has one slot for a thread that is on it.
LEMMA SlotsCount ==
  ASSUME IInv, NEW t \in Threads
  PROVE  Cardinality(QueueSlots(t)) =
           IF \E d \in CPUs : t \in Elems(rq[d]) THEN 1 ELSE 0
<1>1. \A d \in CPUs : /\ rq[d] \in Seq(Threads)
                      /\ NoRepeats(rq[d])
                      /\ DOMAIN rq[d] = 1 .. Len(rq[d])
                      /\ Len(rq[d]) \in Nat
                      /\ Len(rq[d]) <= Cardinality(Threads)
  <2>1. \A d \in CPUs : rq[d] \in Seq(Threads) /\ NoRepeats(rq[d]) /\ Len(rq[d]) \in Nat
    BY ListsTyped DEF IInv, Placing, Lists
  <2>2. \A d \in CPUs : DOMAIN rq[d] = 1 .. Len(rq[d])
    BY <2>1
  <2>3. QED
    BY <2>1, <2>2, ListsShort
<1>2. Cardinality(Threads) \in Nat
  BY SchedAssumption, FS_CardinalityType
<1>3. ASSUME NEW s \in QueueSlots(t)
      PROVE  /\ s = <<s[1], s[2]>>
             /\ s[1] = tcpu[t]
             /\ s[1] \in CPUs
             /\ s[2] \in 1 .. Len(rq[s[1]])
             /\ rq[s[1]][s[2]] = t
             /\ t \in Elems(rq[s[1]])
  <2>1. /\ s \in CPUs \X (1 .. Cardinality(Threads))
        /\ s[2] \in DOMAIN rq[s[1]]
        /\ rq[s[1]][s[2]] = t
    BY DEF QueueSlots
  <2>2. s = <<s[1], s[2]>> /\ s[1] \in CPUs
    BY <2>1
  <2>3. s[2] \in 1 .. Len(rq[s[1]])
    BY <1>1, <2>1, <2>2
  <2>4. t \in Elems(rq[s[1]])
    BY <2>1, <2>3 DEF Elems
  <2>5. s[1] = tcpu[t]
    BY <2>2, <2>4 DEF IInv, Placing, PlaceOf, Queued
  <2>6. QED
    BY <2>1, <2>2, <2>3, <2>4, <2>5
<1>4. ASSUME NEW s \in QueueSlots(t), NEW u \in QueueSlots(t)
      PROVE  s = u
  <2>1. PICK d : d = tcpu[t]
    OBVIOUS
  <2>2. /\ s = <<d, s[2]>> /\ u = <<d, u[2]>> /\ d \in CPUs
        /\ s[2] \in 1 .. Len(rq[d]) /\ u[2] \in 1 .. Len(rq[d])
        /\ rq[d][s[2]] = rq[d][u[2]]
    BY <1>3, <2>1
  <2>3. s[2] = u[2]
    BY <1>1, <2>2 DEF NoRepeats
  <2>4. QED
    BY <2>2, <2>3
<1>5. Cardinality(QueueSlots(t)) = IF QueueSlots(t) = {} THEN 0 ELSE 1
  BY <1>4, AtMostOne
<1>6. ASSUME NEW d \in CPUs, t \in Elems(rq[d])
      PROVE  QueueSlots(t) # {}
  <2>1. PICK i \in 1 .. Len(rq[d]) : rq[d][i] = t
    BY <1>6 DEF Elems
  <2>2. i \in 1 .. Cardinality(Threads) /\ i \in DOMAIN rq[d]
    BY <1>1, <1>2
  <2>3. PICK s : s = <<d, i>>
    OBVIOUS
  <2>4. s \in QueueSlots(t)
    BY <2>1, <2>2, <2>3 DEF QueueSlots
  <2>5. QED
    BY <2>4
<1>7. QED
  BY <1>3, <1>5, <1>6

\* A set of cpus of which a condition picks one at most.
LEMMA OneCPU ==
  ASSUME NEW S \in SUBSET CPUs, NEW d, S \subseteq {d}
  PROVE  Cardinality(S) = IF S = {} THEN 0 ELSE 1
BY AtMostOne

LEMMA PlacesCount == IInv => OnePlace
<1> SUFFICES ASSUME IInv, NEW t \in Threads
             PROVE  Places(t) = IF tstate[t] = "none" THEN 0 ELSE 1
  BY DEF OnePlace
<1>1. /\ \A c \in CPUs : /\ hand[c] \in Seq(Threads)
                         /\ NoRepeats(hand[c])
                         /\ mg[c].victims \in Seq(Threads)
                         /\ NoRepeats(mg[c].victims)
      /\ wchan \in Seq(Threads)
      /\ NoRepeats(wchan)
  BY ListsTyped DEF IInv, Placing, Lists
<1>2. PlaceOf(t) /\ Running
  BY DEF IInv, Placing
<1>3. PICK A : A = {c \in CPUs : cur[c] = t /\ ~ isidle[c]}
  OBVIOUS
<1>4. PICK D : D = {c \in CPUs : In(hand[c], t) > 0}
  OBVIOUS
<1>5. PICK E : E = {c \in CPUs : In(mg[c].victims, t) > 0}
  OBVIOUS
<1>6. PICK Z : Z = {c \in CPUs : t \in zombies[c]}
  OBVIOUS
<1>7. Places(t) = Cardinality(A) + Cardinality(QueueSlots(t)) + In(wchan, t)
                  + Cardinality(D) + Cardinality(E) + Cardinality(Z)
  BY <1>3, <1>4, <1>5, <1>6 DEF Places
<1>8. Cardinality(A) = IF tstate[t] = "S_RUN" THEN 1 ELSE 0
  <2>1. A \subseteq {tcpu[t]} /\ A \in SUBSET CPUs
    BY <1>2, <1>3 DEF Running
  <2>2. A = {} <=> tstate[t] # "S_RUN"
    <3>1. tcpu[t] \in CPUs
      BY DEF IInv, Types
    <3>2. QED
      BY <1>2, <1>3, <3>1 DEF Running
  <2>3. QED
    BY <2>1, <2>2, OneCPU
<1>9. Cardinality(Z) = IF tstate[t] = "S_ZOMBIE" THEN 1 ELSE 0
  <2>1. Z \subseteq {tcpu[t]} /\ Z \in SUBSET CPUs
    BY <1>2, <1>6 DEF PlaceOf, Dead
  <2>2. Z = {} <=> tstate[t] # "S_ZOMBIE"
    <3>1. tcpu[t] \in CPUs
      BY DEF IInv, Types
    <3>2. QED
      BY <1>2, <1>6, <3>1 DEF PlaceOf, Dead
  <2>3. QED
    BY <2>1, <2>2, OneCPU
<1>10. In(wchan, t) = IF t \in Elems(wchan) THEN 1 ELSE 0
  BY <1>1, InCounts
<1>11. \A c \in CPUs : c \in D <=> t \in Elems(hand[c])
  <2>1. \A c \in CPUs : In(hand[c], t) = IF t \in Elems(hand[c]) THEN 1 ELSE 0
    BY <1>1, InCounts
  <2>2. QED
    BY <1>4, <2>1
<1>12. \A c \in CPUs : c \in E <=> t \in Elems(mg[c].victims)
  <2>1. \A c \in CPUs :
          In(mg[c].victims, t) = IF t \in Elems(mg[c].victims) THEN 1 ELSE 0
    BY <1>1, InCounts
  <2>2. QED
    BY <1>5, <2>1
<1>13. Cardinality(D) = IF D = {} THEN 0 ELSE 1
  <2>1. \A c, d \in D : c = d
    BY <1>2, <1>4, <1>11 DEF PlaceOf, Woken
  <2>2. QED
    BY <2>1, AtMostOne
<1>14. Cardinality(E) = IF E = {} THEN 0 ELSE 1
  <2>1. \A c, d \in E : c = d
    BY <1>2, <1>5, <1>12 DEF PlaceOf, Queued
  <2>2. QED
    BY <2>1, AtMostOne
<1>15. PICK R : R = {c \in CPUs : t \in Elems(rq[c])}
  OBVIOUS
<1>16. Cardinality(QueueSlots(t)) = IF R = {} THEN 0 ELSE 1
  BY <1>15, SlotsCount
<1>17. tstate[t] \in {"none", "S_RUN", "S_READY", "S_SLEEP", "S_ZOMBIE"}
  BY DEF IInv, Types
<1>18. CASE tstate[t] \in {"none", "S_RUN", "S_ZOMBIE"}
  <2>1. R = {} /\ D = {} /\ E = {} /\ t \notin Elems(wchan)
    BY <1>2, <1>4, <1>5, <1>11, <1>12, <1>15, <1>18 DEF PlaceOf, Queued, Woken, Found
  <2>2. QED
    BY <1>7, <1>8, <1>9, <1>10, <1>13, <1>14, <1>16, <1>18, <2>1
<1>19. CASE tstate[t] = "S_SLEEP"
  <2>1. R = {} /\ E = {}
    BY <1>2, <1>5, <1>12, <1>15, <1>19 DEF PlaceOf, Queued
  <2>2. D = {} <=> t \in Elems(wchan)
    BY <1>2, <1>4, <1>11, <1>19 DEF PlaceOf, Woken, Found
  <2>3. QED
    BY <1>7, <1>8, <1>9, <1>10, <1>13, <1>14, <1>16, <1>19, <2>1, <2>2
<1>20. CASE tstate[t] = "S_READY"
  <2>1. t \notin Elems(wchan)
    BY <1>2, <1>20 DEF PlaceOf, Found
  <2>2. tcpu[t] \in CPUs
    BY DEF IInv, Types
  <2>3. R # {} \/ E # {} \/ D # {}
    BY <1>2, <1>11, <1>12, <1>15, <1>20, <2>2 DEF PlaceOf, Found
  <2>4. D # {} => R = {} /\ E = {}
    BY <1>2, <1>4, <1>5, <1>11, <1>12, <1>15 DEF PlaceOf, Woken
  <2>5. E # {} => R = {}
    BY <1>2, <1>5, <1>12, <1>15 DEF PlaceOf, Queued
  <2>6. QED
    BY <1>7, <1>8, <1>9, <1>10, <1>13, <1>14, <1>16, <1>20, <2>1, <2>3, <2>4, <2>5
<1>21. QED
  BY <1>17, <1>18, <1>19, <1>20

\* A thread that exists is in exactly one place: running, on one run queue once,
\* asleep, being woken or migrated, or dead (thread.c:540-1000), for any number
\* of cpus and threads.
THEOREM EveryThreadPlaced == SafeSpec => []ThreadsPlaced
<1>1. IInv => TypeOK
  <2> SUFFICES ASSUME IInv PROVE TypeOK
    OBVIOUS
  <2>1. ASSUME NEW c \in CPUs
        PROVE  mg[c].to_send <= Cardinality(Threads) /\ mg[c].victims \in Seq(Threads)
    <3>1. /\ mg[c].victims \in Seq(Threads) /\ mg[c].to_send \in Nat
          /\ Len(mg[c].victims) \in Nat
          /\ rq[c] \in Seq(Threads) /\ Len(rq[c]) \in Nat
      BY LocalsTyped, ListsTyped DEF IInv
    <3>2. Len(mg[c].victims) <= Cardinality(Threads) /\ Len(rq[c]) <= Cardinality(Threads)
      BY <3>1, ListsShort DEF IInv, Placing, Lists
    <3>3. Cardinality(Threads) \in Nat
      BY SchedAssumption, FS_CardinalityType
    <3>4. \/ mg[c].to_send <= Len(rq[c])
          \/ mg[c].to_send <= Len(mg[c].victims)
          \/ mg[c].to_send = 0
      BY DEF IInv, Surplus, SurplusOf
    <3>5. QED
      BY <3>1, <3>2, <3>3, <3>4
  <2>2. QED
    BY <2>1 DEF IInv, Types, TypeOK
<1>2. IInv => ThreadsPlaced
  BY <1>1, PlacesCount DEF ThreadsPlaced
<1>3. QED
  BY <1>2, Invariance, PTL

\* No two cpus share a stack, no cpu's thread is queued elsewhere, and no cpu is
\* on the stack of a destroyed thread, although a cpu idles on the stack of a
\* thread that may sleep, be woken or be dead (thread.c:582-600, 916-926).
THEOREM StacksAreSafe == SafeSpec => []StacksSafe
<1>1. IInv => StacksSafe
  <2> SUFFICES ASSUME IInv PROVE StacksSafe
    OBVIOUS
  <2>1. \A c \in CPUs : cur[c] \in Threads /\ tcpu[cur[c]] = c /\ tstate[cur[c]] # "none"
    BY DEF IInv, Types, Placing, Running
  <2>2. ASSUME NEW c \in CPUs, NEW d \in CPUs, In(rq[d], cur[c]) > 0
        PROVE  c = d
    <3>1. rq[d] \in Seq(Threads) /\ NoRepeats(rq[d])
      BY ListsTyped DEF IInv, Placing, Lists
    <3>2. cur[c] \in Elems(rq[d])
      BY <2>2, <3>1, InCounts
    <3>3. tcpu[cur[c]] = d
      BY <2>1, <3>2 DEF IInv, Placing, PlaceOf, Queued
    <3>4. QED
      BY <2>1, <3>3
  <2>3. QED
    BY <2>1, <2>2 DEF StacksSafe, OneStack, NoFreedStack
<1>2. QED
  BY <1>1, Invariance, PTL

=============================================================================
