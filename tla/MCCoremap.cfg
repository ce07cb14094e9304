CONSTANTS
  t1 = t1
  t2 = t2
  Free = Free
  Threads <- MCThreads
  memory_size = 6
  used = 1
  coremap_size = 1
  MaxPages = 2
  Garbage = {0, 2}
SPECIFICATION Spec
SYMMETRY MCSymmetry
INVARIANT PagesInRam
INVARIANT SearchesSound
INVARIANT DisjointUntilStray
