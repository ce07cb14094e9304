CONSTANTS
  b1 = b1
  b2 = b2
  n1 = n1
  Free = Free
  NCPU = 2
  Threads <- MCThreads
  Boot <- MCBoot
SPECIFICATION Spec
INVARIANT ThreadsPlaced
INVARIANT StacksSafe
INVARIANT NoLostIPI
INVARIANT VictimsThere
PROPERTY NewThreadRuns
