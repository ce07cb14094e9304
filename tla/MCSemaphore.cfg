CONSTANTS
  t1 = t1
  t2 = t2
  t3 = t3
  intr = intr
  NoOne = NoOne
  Threads <- MCThreads
  Handlers <- MCHandlers
  InitialCount = 1
  CountModulus = 4
SPECIFICATION SemSpec
INVARIANT SemNoLostWakeup
PROPERTY ImplementsAtomic
CHECK_DEADLOCK FALSE
