CONSTANTS
  t1 = t1
  t2 = t2
  t3 = t3
  n1 = n1
  s1 = s1
  s2 = s2
  v1 = v1
  v2 = v2
  Threads <- Three
  Names <- OneName
  Sems <- MCSems
  Vnodes <- MCVnodes
  MaxCount = 1
  NULL = NULL
SPECIFICATION Spec
INVARIANT TakersCovered
SYMMETRY Sym
CHECK_DEADLOCK FALSE
