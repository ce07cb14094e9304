CONSTANTS
  t1 = t1
  t2 = t2
  t3 = t3
  NoOne = NoOne
  Threads <- MCThreads
  Ops <- AllOps
SPECIFICATION CvSpec
INVARIANT CvOneHolder
INVARIANT ChannelsAgree
INVARIANT NoLostWakeup
CHECK_DEADLOCK FALSE
