CONSTANTS
  t1 = t1
  t2 = t2
  t3 = t3
  t4 = t4
  NoOne = NoOne
  Threads <- MCThreads
SPECIFICATION Spec
INVARIANT MutualExclusion
INVARIANT NoLostWakeup
PROPERTY ImplementsLock
