CONSTANTS
  t1 = t1
  t2 = t2
  t3 = t3
  g1 = g1
  g2 = g2
  g3 = g3
  g4 = g4
  Threads <- MCThreads
  Pages <- MCPages
  PAGE_SIZE = 6
  sizes <- MCSizes
  NUM_PAGEREFPAGES = 2
  NPAGEREFS_PER_PAGE = 2
  MaxHeld = 4
  NULL = NULL
SPECIFICATION Spec
INVARIANT HeldDisjoint
INVARIANT HeapConsistent
INVARIANT PagesAccounted
INVARIANT AssertionBehindFullRoot
SYMMETRY Sym
CHECK_DEADLOCK FALSE
