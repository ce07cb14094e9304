CONSTANTS
  p1 = p1
  p2 = p2
  p3 = p3
  disk = disk
  console = console
  NULL = NULL
  Procs <- MCProcs
  First = p1
  Files <- MCFiles
  Seekable <- MCSeekable
  OPEN_MAX = 2
  MaxOffset = 2
SYMMETRY MCSymmetry
SPECIFICATION Spec
INVARIANT RefsCounted
INVARIANT FileStays
INVARIANT OffsetStable
INVARIANT NoHeldLockDestroyed
CHECK_DEADLOCK FALSE
