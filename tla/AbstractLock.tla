----------------------------- MODULE AbstractLock -----------------------------
(***************************************************************************)
(* What include/synch.h (lines 87-96) promises of a lock: one holder at a  *)
(* time, only the holder lets go, and both operations are atomic.          *)
(***************************************************************************)
CONSTANTS Threads, NoOne

VARIABLES
  owner,    \* the thread the lock is granted to, or NoOne
  wants     \* threads that have asked for the lock and not been granted it

absVars == <<owner, wants>>

Init == owner = NoOne /\ wants = {}

Ask(t) ==
  /\ t # owner /\ t \notin wants
  /\ wants' = wants \cup {t}
  /\ UNCHANGED owner

Grant(t) ==
  /\ t \in wants
  /\ owner = NoOne
  /\ owner' = t
  /\ wants' = wants \ {t}

LetGo(t) ==
  /\ owner = t
  /\ owner' = NoOne
  /\ UNCHANGED wants

Next == \E t \in Threads : Ask(t) \/ Grant(t) \/ LetGo(t)

\* A free lock that somebody wants is granted to someone: no thread in
\* particular is promised its turn.
SafeSpec == Init /\ [][Next]_absVars
Spec == SafeSpec /\ WF_absVars(\E t \in Threads : Grant(t))

=============================================================================
