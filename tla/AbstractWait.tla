---------------------------- MODULE AbstractWait ----------------------------
(* What exit and waitpid promise (man/syscall/waitpid.html, _exit.html): a  *)
(* process that exits leaves its code, and the one process that waits for   *)
(* it collects that code, once.                                             *)

CONSTANTS
  Procs,  \* processes
  Codes,  \* exit codes
  None    \* no process, no code

VARIABLES
  state,   \* per process: "none", "running", "exited", "collected"
  exit,    \* the code it exited with
  asked,   \* whom it is waiting for
  status   \* the code it collected last

avars == <<state, exit, asked, status>>

AInit ==
  /\ state = [p \in Procs |-> "none"]
  /\ exit = [p \in Procs |-> None]
  /\ asked = [p \in Procs |-> None]
  /\ status = [p \in Procs |-> None]

\* A process starts to run.
Start(p) ==
  /\ state[p] = "none"
  /\ state' = [state EXCEPT ![p] = "running"]
  /\ UNCHANGED <<exit, asked, status>>

\* It exits with code e.
Exit(p, e) ==
  /\ state[p] = "running" /\ asked[p] = None
  /\ state' = [state EXCEPT ![p] = "exited"]
  /\ exit' = [exit EXCEPT ![p] = e]
  /\ UNCHANGED <<asked, status>>

\* It waits for t, which nobody else waits for or has collected.  (A process
\* that never got to run can be asked for as well.)
Ask(p, t) ==
  /\ state[p] = "running" /\ asked[p] = None
  /\ state[t] # "collected" /\ \A q \in Procs : asked[q] # t
  /\ asked' = [asked EXCEPT ![p] = t]
  /\ UNCHANGED <<state, exit, status>>

\* The one it waits for has exited: its code is collected.
Collect(p) ==
  /\ asked[p] # None
  /\ state[asked[p]] = "exited"
  /\ state' = [state EXCEPT ![asked[p]] = "collected"]
  /\ status' = [status EXCEPT ![p] = exit[asked[p]]]
  /\ asked' = [asked EXCEPT ![p] = None]
  /\ UNCHANGED exit

ANext == \E p \in Procs :
  \/ Start(p) \/ Collect(p)
  \/ \E e \in Codes : Exit(p, e)
  \/ \E t \in Procs : Ask(p, t)

\* A wait for a process that exits is answered.
ASafeSpec == AInit /\ [][ANext]_avars
ASpec == ASafeSpec /\ \A p \in Procs : WF_avars(Collect(p))

=============================================================================
